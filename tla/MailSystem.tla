----------------------------- MODULE MailSystem -----------------------------
(***************************************************************************)
(* The whole system: the server of MailServer and, at the other end of     *)
(* every connection, the client program of MailClient.                     *)
(***************************************************************************)
EXTENDS MailClient, MailServerProps

systemVars == <<vars, clientVars>>

SystemInit == Init /\ ClientInit

SystemStep(c) ==
    \/ ProgramStep(c) \/ UserStep(c)
    \/ \E l \in Entry : Type(c, l)

SystemNext ==
    \/ ServerStep /\ UNCHANGED clientVars
    \/ \E c \in Conn : SystemStep(c)
    \/ Terminated /\ UNCHANGED clientVars

SystemSpec == SystemInit /\ [][SystemNext]_systemVars

(* The user who has announced a mail types what he is asked for, or closes *)
(* stdin.                                                                  *)
GoesOnWithMail(c) ==
    cpc[c] = "compose" /\ (CloseStdin(c) \/ \E l \in Entry : Type(c, l))

(* The operating system runs every process that can take a step.  Nobody   *)
(* has to start a client, to type a command or to kill a client, but the   *)
(* users do not leave theirs in the middle of a COMPOSE: there it reads    *)
(* nothing, the server blocks once its buffer is full, and with the server *)
(* everybody else.                                                         *)
SystemFairness ==
    /\ WF_systemVars(ServerStep /\ UNCHANGED clientVars)
    /\ \A c \in Conn : WF_systemVars(ProgramStep(c))
    /\ \A c \in Conn : WF_systemVars(GoesOnWithMail(c))

-----------------------------------------------------------------------------
ClientTypeOK ==
    /\ cpc \in [Conn -> {"off", "welcome", "login", "select", "server", "stdin",
                         "compose", "await", "quit"}]
    /\ request \in [Conn -> ClientRequests \union {BadLine}]
    /\ typed \in [Conn -> Seq(Entry)]
    /\ buffered \in [Conn -> Seq(Entry)]
    /\ stdinEof \in [Conn -> BOOLEAN]

(* The composition only restricts what clients do, so what holds of the    *)
(* server with any clients holds of it with these.                         *)
ServerSpec == Spec

(* What the client believes agrees with what the server holds: once it has *)
(* been told that it is logged in, the server's session is logged in until *)
(* the server lets go of the connection, so NOT_LOGGED_IN cannot happen.   *)
ClientLoggedIn ==
    \A c \in Conn :
      \/ cpc[c] \in {"select", "server", "stdin", "compose"}
      \/ cpc[c] \in {"await", "quit"} /\ request[c].type # "LOGIN"
      => sessionState[c] = "STATE_LOGEDON" \/ ServerGone(c)

Answers(c) == {i \in DOMAIN outq[c] : outq[c][i] \notin Chat}

(* The listing of this inbox exceeds a message, and is never sent.         *)
Oversize(c) ==
    /\ request[c].type = "SHOW_INBOX"
    /\ m_inbox[c] # NoInbox
    /\ Len(m_mails[m_inbox[c]]) > ShowInboxLimit

(* A client that waits for an answer does not wait in vain: its request is *)
(* the last one unread, or an answer is on its way, or the connection is   *)
(* closed.  Only a listing that does not fit into a message is never sent. *)
AnswerOnTheWay ==
    \A c \in Conn : cpc[c] = "await" =>
      \/ inq[c] # <<>> /\ Last(inq[c]) = request[c]
      \/ Answers(c) # {}
      \/ ServerGone(c)
      \/ inq[c] = <<>> /\ Oversize(c)

(* Requests and answers alternate.  A client that waits has one request    *)
(* unread or one answer to that very request unread, and one that does not *)
(* wait has neither.  (Between clients that do not chat.)                  *)
ClientInLockstep ==
    \A c \in Conn :
      ~ServerGone(c) /\ Connected(c) =>
        CASE cpc[c] = "await" ->
               \/ inq[c] = <<request[c]>> /\ outq[c] = <<>>
               \/ /\ inq[c] = <<>> /\ Len(outq[c]) = 1
                  /\ outq[c][1].type \in AnswerType(request[c])
          [] cpc[c] = "quit" -> inq[c] = <<request[c]>> /\ outq[c] = <<>>
          [] cpc[c] = "welcome" -> inq[c] = <<>> /\ outq[c] \in {<<>>, <<Welcome>>}
          [] OTHER -> inq[c] = <<>> /\ outq[c] = <<>>

(* Under SystemFairness.  Every command comes to an end, whatever chats    *)
(* arrive and however full the buffers are: the client is answered or      *)
(* leaves.  Only a listing too long for a message may never be answered.   *)
CommandsComplete ==
    \A c \in Conn :
      cpc[c] = "await" ~> cpc[c] # "await" \/ Oversize(c)

(* ... and a client whose server has gone does not stay in its loop.       *)
ClientsLeaveDeadServer ==
    \A c \in Conn : cpc[c] = "select" /\ ServerGone(c) ~> cpc[c] = "off"

-----------------------------------------------------------------------------
(* What a comment and a test say, and the code does not do in every case.  *)

(* Server.cpp:360-364: the response is sent before the chat, because who   *)
(* chats with himself first expects the response and just then the chat.   *)
(* So a client that awaits a response does not find a chat before it.      *)
ResponseBeforeChat ==
    \A c \in Conn : cpc[c] = "await" /\ outq[c] # <<>> => Head(outq[c]) \notin Chat

(* pytests/mail_server_test.py:180-186: a command that was typed is        *)
(* carried out, also when it follows another one at once.                  *)
TypedIsRead ==
    \A c \in Conn :
      buffered[c] # <<>> /\ cpc[c] = "select" ~> cpc[c] # "select"
=============================================================================
