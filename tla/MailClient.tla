----------------------------- MODULE MailClient -----------------------------
(***************************************************************************)
(* The client program: mainClient.cpp, Client.cpp and the line input of    *)
(* Common.cpp.  Client::start connects, reads the welcome, logs in, and    *)
(* then waits in select for the server or for the user; a command is sent  *)
(* and its answer is awaited before select is called again.                *)
(*                                                                         *)
(* The client's end of a connection is the one MailServer describes: every *)
(* step here is one of Connect, Send, Receive and Disconnect, or a step of *)
(* the program alone.  Conn names the connection, the client process that  *)
(* uses it and, when that process has exited, the next one.                *)
(*                                                                         *)
(* What the user types is a sequence of entries: a request; BadLine, which *)
(* the client refuses without sending anything; or ComposeLine, the line   *)
(* COMPOSE, after which the client waits for the To, Subject and Text      *)
(* lines.  These three make up the entry that is a COMPOSE request.        *)
(***************************************************************************)
EXTENDS MailServer

CONSTANTS BadLine,       \* what the user types when it is not a command
          ComposeLine    \* the line that announces a mail

ASSUME LineAssumption ==
    BadLine \notin Request /\ ComposeLine \notin Request /\ BadLine # ComposeLine

VARIABLES
    cpc,        \* where each client process is
    request,    \* the request whose answer it awaits, or BadLine
    typed,      \* entries in the pipe or terminal of its stdin
    buffered,   \* entries already in the buffer of its stdio
    stdinEof    \* its stdin has been closed

clientVars == <<cpc, request, typed, buffered, stdinEof>>
inputVars  == <<typed, buffered, stdinEof>>

Entry == ClientRequests \union {BadLine, ComposeLine}

ClientInit ==
    /\ cpc = [c \in Conn |-> "off"]
    /\ request = [c \in Conn |-> BadLine]
    /\ typed = [c \in Conn |-> <<>>]
    /\ buffered = [c \in Conn |-> <<>>]
    /\ stdinEof = [c \in Conn |-> FALSE]

(* Steps of the program that do not touch its connection.                  *)
Offline == UNCHANGED vars

Goto(c, place) == cpc' = [cpc EXCEPT ![c] = place]

(* Client::start returns, or the process is killed: the socket is closed   *)
(* and what was typed is lost with the process.                            *)
Exit(c) ==
    /\ Disconnect(c)
    /\ Goto(c, "off")
    /\ request' = [request EXCEPT ![c] = BadLine]
    /\ typed' = [typed EXCEPT ![c] = <<>>]
    /\ buffered' = [buffered EXCEPT ![c] = <<>>]
    /\ stdinEof' = [stdinEof EXCEPT ![c] = FALSE]

(* The server holds this connection neither as a session nor in its listen *)
(* queue: once outq is read, recv reports the end of file.                 *)
ServerGone(c) == ~InServer(c) /\ ~InBacklog(c)

-----------------------------------------------------------------------------
(* recvLineFromUser.  fgets takes a line from the stdio buffer; when that  *)
(* is empty it reads what the pipe holds - all of it, or a single line     *)
(* when stdin is a terminal - and keeps the rest in the buffer.            *)
ReadLine(c, l) ==
    /\ \/ /\ buffered[c] # <<>>
          /\ l = Head(buffered[c])
          /\ buffered' = [buffered EXCEPT ![c] = Tail(@)]
          /\ UNCHANGED typed
       \/ /\ buffered[c] = <<>> /\ typed[c] # <<>>
          /\ l = Head(typed[c])
          /\ \E n \in 1..Len(typed[c]) :
               /\ buffered' = [buffered EXCEPT ![c] = SubSeq(typed[c], 2, n)]
               /\ typed' = [typed EXCEPT ![c] = SubSeq(@, n + 1, Len(@))]
    /\ UNCHANGED stdinEof

(* Entries a call of ReadLine can return, and when it returns none.        *)
NextEntries(c) ==
    IF buffered[c] # <<>> THEN {Head(buffered[c])}
    ELSE IF typed[c] # <<>> THEN {Head(typed[c])} ELSE {}
EndOfInput(c) == buffered[c] = <<>> /\ typed[c] = <<>> /\ stdinEof[c]

-----------------------------------------------------------------------------
(* initServerConnection: connect, recvWelcomeMessage, commandLogin.        *)
StartClient(c) ==
    /\ cpc[c] = "off"
    /\ Connect(c)
    /\ Goto(c, "welcome")
    /\ UNCHANGED <<request, inputVars>>

RecvWelcome(c) ==
    /\ cpc[c] = "welcome"
    /\ outq[c] # <<>>
    /\ IF Head(outq[c]) = Welcome
       THEN Receive(c) /\ Goto(c, "login") /\ UNCHANGED <<request, inputVars>>
       ELSE Exit(c)

(* sendCommand whose failure goes unnoticed; a message of which a field    *)
(* could not be written, sent all the same; a request of which only the    *)
(* type is remembered.                                                     *)
SendCommandUnchecked_Bug(c, r) ==
    /\ Send(c, r) \/ Offline
    /\ Goto(c, IF r.type = "QUIT" THEN "quit" ELSE "await")
    /\ request' = [request EXCEPT ![c] = r]
SendCommandHalf_Bug(c, r) ==
    /\ Send(c, [type |-> IF r.type = "LOGIN" THEN "BAD_LOGIN" ELSE "BAD_COMMAND"])
    /\ Goto(c, IF r.type = "QUIT" THEN "quit" ELSE "await")
    /\ request' = [request EXCEPT ![c] = r]
SendCommandType_Bug(c, r) ==
    /\ Send(c, r)
    /\ Goto(c, IF r.type = "QUIT" THEN "quit" ELSE "await")
    /\ request' = [request EXCEPT ![c] = [type |-> r.type]]

(* The request goes out and, but for QUIT, the client blocks until its     *)
(* answer arrives.                                                         *)
SendCommand(c, r) ==
    /\ Send(c, r)
    /\ Goto(c, IF r.type = "QUIT" THEN "quit" ELSE "await")
    /\ request' = [request EXCEPT ![c] = r]

(* The two lines of the login are read before the server is looked at; a   *)
(* server that has gone is noticed by the send or by the receive after it. *)
CommandLogin(c) ==
    /\ cpc[c] = "login"
    /\ \/ \E l \in NextEntries(c) :
            IF l \in LoginReq /\ ~ServerGone(c)
            THEN ReadLine(c, l) /\ SendCommand(c, l)
            ELSE Exit(c)
       \/ EndOfInput(c) /\ Exit(c)

-----------------------------------------------------------------------------
(* The loop of Client::start.  A readable server socket comes first; the   *)
(* select sees the pipe of stdin, not the buffer of stdio.  (The faulty    *)
(* variant does not report the server's end of file.)                      *)
ServerReadableNoEof_Bug(c) == outq[c] # <<>>
ServerReadable(c) == outq[c] # <<>> \/ ServerGone(c)
StdinReadable(c) == typed[c] # <<>> \/ stdinEof[c]

ClientSelect(c) ==
    /\ cpc[c] = "select"
    /\ \/ ServerReadable(c) /\ Goto(c, "server")
       \/ ~ServerReadable(c) /\ StdinReadable(c) /\ Goto(c, "stdin")
    /\ UNCHANGED <<request, inputVars>>
    /\ Offline

(* convertFromGeneralResMessageIdToString: the statuses after which the    *)
(* client goes on.                                                         *)
GoOnStatus == Status \ {"SESSION_FAILURE"}

(* handleServerRequest: a chat, or a General message nobody waited for.    *)
GoesOnUnasked(m) ==
    \/ m.type = "FORWARD_CHAT_MESSAGE"
    \/ m.type = "GENERAL" /\ m.status \in GoOnStatus

HandleServerRequest(c) ==
    /\ cpc[c] = "server"
    /\ IF outq[c] # <<>> /\ GoesOnUnasked(Head(outq[c]))
       THEN /\ Receive(c)
            /\ Goto(c, "select")
            /\ UNCHANGED <<request, inputVars>>
       ELSE Exit(c)

(* An entry is read and nothing is sent.                                   *)
ReadAndGoto(c, l, place) ==
    /\ ReadLine(c, l)
    /\ Goto(c, place)
    /\ UNCHANGED request
    /\ Offline

(* An entry is read and its request sent; the send notices a dead server.  *)
ReadAndSend(c, l) ==
    IF ServerGone(c) THEN Exit(c) ELSE ReadLine(c, l) /\ SendCommand(c, l)

(* No command: the lines a COMPOSE would take mean nothing without it.     *)
Refused(l) == l = BadLine \/ l \in LoginReq \union ComposeReq

(* handleUserRequest: refused entries leave the client where it was.       *)
HandleUserRequest(c) ==
    /\ cpc[c] = "stdin"
    /\ \/ \E l \in NextEntries(c) :
            \/ l = ComposeLine /\ ReadAndGoto(c, l, "compose")
            \/ Refused(l) /\ ReadAndGoto(c, l, "select")
            \/ l # ComposeLine /\ ~Refused(l) /\ ReadAndSend(c, l)
       \/ EndOfInput(c) /\ Exit(c)

(* commandCompose: the client sits in fgets until its arguments have been  *)
(* typed, and does not look at the server meanwhile.  What it cannot take  *)
(* for an argument is dropped and the command with it.                     *)
CommandCompose(c) ==
    /\ cpc[c] = "compose"
    /\ \/ \E l \in NextEntries(c) :
            IF l \in ComposeReq THEN ReadAndSend(c, l)
            ELSE ReadAndGoto(c, l, "select")
       \/ /\ EndOfInput(c)
          /\ Goto(c, "select")
          /\ UNCHANGED <<request, inputVars>>
          /\ Offline

(* commandQuit does not wait.                                              *)
QuitExit(c) == cpc[c] = "quit" /\ Exit(c)

(* The type of message each command expects besides a General message.     *)
AnswerType(r) ==
    CASE r.type = "SHOW_INBOX" -> {"SHOW_INBOX_RES", "GENERAL"}
      [] r.type = "GET_MAIL" -> {"GET_MAIL_RES", "GENERAL"}
      [] r.type = "SHOW_ONLINE_USERS" -> {"SHOW_ONLINE_USERS_RES", "GENERAL"}
      [] OTHER -> {"GENERAL"}

(* Every status of the login answer taken for success.                     *)
LoginAnyStatus_Bug(r, m) ==
    /\ m.type \in AnswerType(r)
    /\ m.type = "GENERAL" => m.status \in GoOnStatus

(* Whether the command handlers return true: login only on SUCCESS, the    *)
(* others on every answer they understand.                                 *)
GoesOnAnswered(r, m) ==
    /\ m.type \in AnswerType(r)
    /\ m.type = "GENERAL" =>
         m.status \in IF r.type = "LOGIN" THEN {"SUCCESS"} ELSE GoOnStatus

RecvAnswer(c) ==
    /\ cpc[c] = "await"
    /\ outq[c] # <<>>
    /\ IF GoesOnAnswered(request[c], Head(outq[c]))
       THEN /\ Receive(c)
            /\ Goto(c, "select")
            /\ request' = [request EXCEPT ![c] = BadLine]
            /\ UNCHANGED inputVars
       ELSE Exit(c)

(* recvMessage fails: on the end of file, or on a message of which TCP has *)
(* delivered a part only, since each part is read with one ::recv.         *)
RecvFails(c) ==
    /\ cpc[c] \in {"welcome", "await", "server"}
    /\ outq[c] # <<>> \/ ServerGone(c)
    /\ Exit(c)

-----------------------------------------------------------------------------
(* The user types, closes stdin, or kills the process.                     *)
Type(c, l) ==
    /\ cpc[c] # "off" /\ ~stdinEof[c]
    /\ typed' = [typed EXCEPT ![c] = Append(@, l)]
    /\ UNCHANGED <<cpc, request, buffered, stdinEof>>
    /\ Offline

CloseStdin(c) ==
    /\ cpc[c] # "off" /\ ~stdinEof[c]
    /\ stdinEof' = [stdinEof EXCEPT ![c] = TRUE]
    /\ UNCHANGED <<cpc, request, typed, buffered>>
    /\ Offline

Killed(c) == cpc[c] # "off" /\ Exit(c)

ProgramStep(c) ==
    \/ RecvWelcome(c) \/ CommandLogin(c) \/ ClientSelect(c)
    \/ HandleServerRequest(c) \/ HandleUserRequest(c) \/ CommandCompose(c)
    \/ QuitExit(c) \/ RecvAnswer(c) \/ RecvFails(c)

UserStep(c) == StartClient(c) \/ CloseStdin(c) \/ Killed(c)
=============================================================================
