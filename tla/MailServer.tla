----------------------------- MODULE MailServer -----------------------------
(***************************************************************************)
(* The mail and chat server: mainServer.cpp, Server.cpp, Inbox.cpp and     *)
(* ServerSessionSocket.cpp over the socket layer they use.                 *)
(*                                                                         *)
(* The server is one thread.  Server::start builds an fd set, blocks in    *)
(* select, accepts at most one connection and then walks the session list, *)
(* handling one message of every session whose descriptor select reported. *)
(* Each handler is one action; the clients act between any two of them.    *)
(*                                                                         *)
(* A member of Conn is one TCP connection and, once it is accepted, the    *)
(* ServerSessionSocket that owns it.  Inboxes are numbered by their place  *)
(* in m_all_inbox.                                                         *)
(*                                                                         *)
(* Operators whose names end in _Bug are faulty variants of the definition *)
(* that follows them.  No behaviour of Spec uses them; they are put in its *)
(* place to see that a property notices.                                   *)
(***************************************************************************)
EXTENDS Protocol, Integers, FiniteSets, SequencesExt, FiniteSetsExt

CONSTANTS Conn,            \* connections
          NoSession,       \* nullptr for Inbox::m_session
          UsersFile,       \* the lines of the users file: [user, pass]
          MaxFd,           \* descriptors 1..MaxFd are left for sessions
          SockBuf,         \* messages a connection holds towards the client
          ShowInboxLimit,  \* rows that fit in one MAX_PACKET_LENGTH message
          LongSubject,     \* subjects whose row of a listing exceeds a field
          LongChat,        \* texts that exceed a field once the server has
                           \* put its own words in front
          OnlineLimit,     \* names that fit in the field of online users
          ClientRequests   \* the requests the clients of this instance send

ASSUME SessionAssumption == NoSession \notin Conn
ASSUME FileAssumption ==
    UsersFile \in Seq([user : Name, pass : Password])
ASSUME BoundAssumption ==
    MaxFd \in Nat /\ SockBuf \in Nat /\ ShowInboxLimit \in Nat /\ OnlineLimit \in Nat
(* A frame without a type has two answers, which go out in one step.       *)
ASSUME RoomAssumption == [type |-> "NO_TYPE"] \in ClientRequests => SockBuf >= 2
ASSUME RequestAssumption == ClientRequests \subseteq Request

VARIABLES
    serverState,     \* Server::m_state
    pc,              \* where main and Server::start are
    cursor,          \* the iterator of the scan, as a list position
    ready,           \* the FDSet as select left it (Listener and fds)
    forward,         \* a chat accepted but not yet sent on: at most one
    m_sessions,      \* Server::m_sessions
    sessionState,    \* ServerSessionSocket::m_state
    m_inbox,         \* ServerSessionSocket::m_inbox
    m_socketfd,      \* Socket::m_socketfd
    m_all_inbox,     \* the live members of Server::m_all_inbox
    m_loggedIn,      \* Inbox::m_loggedIn
    m_session,       \* Inbox::m_session
    m_mails,         \* Inbox::m_mails
    m_idOfLastMail,  \* Inbox::m_idOfLastMail
    peer,            \* the client's end of each connection
    backlog,         \* connections the kernel has queued for accept
    inq,             \* messages sent by the client and not yet read
    outq             \* messages sent by the server and not yet read

serverVars  == <<serverState, pc, cursor, ready, forward>>
sessionVars == <<m_sessions, sessionState, m_inbox, m_socketfd>>
inboxVars   == <<m_all_inbox, m_loggedIn, m_session, m_mails, m_idOfLastMail>>
netVars     == <<peer, backlog, inq, outq>>
vars        == <<serverVars, sessionVars, inboxVars, netVars>>

-----------------------------------------------------------------------------
(* Users and inboxes.  createInboxList empties the user list from its end, *)
(* so m_all_inbox is the file in reverse.                                  *)
InboxId == 1..Len(UsersFile)
NoInbox == 0
UserOf(k) == UsersFile[Len(UsersFile) - k + 1]

(* getInboxFromUserString: the first inbox of the list with that name.     *)
GetInbox(user) ==
    LET found == {k \in m_all_inbox : UserOf(k).user = user}
    IN  IF found = {} THEN NoInbox ELSE Min(found)

-----------------------------------------------------------------------------
(* Sockets.  SOCKET_INVALID_DEFAULT marks a closed one; the listener is a  *)
(* descriptor of its own.                                                  *)
SOCKET_INVALID_DEFAULT == -1
Listener == 0

Connected(c) == peer[c] = "connected"
InServer(c) == \E i \in DOMAIN m_sessions : m_sessions[i] = c
InBacklog(c) == \E i \in DOMAIN backlog : backlog[i] = c

(* A session's descriptor is readable when a message or the peer's end of  *)
(* file is waiting.                                                        *)
Readable(c) == inq[c] # <<>> \/ peer[c] = "closed"

FreeFds == {fd \in 1..MaxFd : \A c \in Conn : m_socketfd[c] # fd}

(* sendMessage blocks in ::send while a live peer's buffer is full; what   *)
(* is sent to a peer that is gone is lost.                                 *)
CanSend(c, msgs) == Connected(c) => Len(outq[c]) + Len(msgs) <= SockBuf
Sent(c, msgs) == IF Connected(c) THEN [outq EXCEPT ![c] = @ \o msgs] ELSE outq

-----------------------------------------------------------------------------
Init ==
    /\ serverState \in {"SERVER_INITIATED", "SERVER_LISTEN_SOCKET_ERROR"}
    /\ pc = "main"
    /\ cursor = 1
    /\ ready = {}
    /\ forward = <<>>
    /\ m_sessions = <<>>
    /\ sessionState = [c \in Conn |-> "STATE_NON_AUTH"]
    /\ m_inbox = [c \in Conn |-> NoInbox]
    /\ m_socketfd = [c \in Conn |-> SOCKET_INVALID_DEFAULT]
    /\ m_all_inbox = {}
    /\ m_loggedIn = [k \in InboxId |-> FALSE]
    /\ m_session = [k \in InboxId |-> NoSession]
    /\ m_mails = [k \in InboxId |-> <<>>]
    /\ m_idOfLastMail = [k \in InboxId |-> 0]
    /\ peer = [c \in Conn |-> "idle"]
    /\ backlog = <<>>
    /\ inq = [c \in Conn |-> <<>>]
    /\ outq = [c \in Conn |-> <<>>]

(* Server::loadUsersFromFile: the file opens and every line becomes an     *)
(* inbox, or it does not open.                                             *)
LoadUsersFromFile ==
    /\ pc = "main"
    /\ serverState = "SERVER_INITIATED"
    /\ \/ /\ m_all_inbox' = InboxId
          /\ serverState' = "SERVER_READY_TO_LISTEN"
       \/ /\ serverState' = "SERVER_USERFILE_ERROR"
          /\ UNCHANGED m_all_inbox
    /\ UNCHANGED <<pc, cursor, ready, forward, sessionVars, m_loggedIn,
                   m_session, m_mails, m_idOfLastMail, netVars>>

(* Server::start up to its loop: listen succeeds or the server gives up.   *)
Start ==
    /\ pc = "main"
    /\ serverState = "SERVER_READY_TO_LISTEN"
    /\ \/ pc' = "select" /\ UNCHANGED serverState
       \/ pc' = "exit" /\ serverState' = "SERVER_LISTEN_SOCKET_ERROR"
    /\ UNCHANGED <<cursor, ready, forward, sessionVars, inboxVars, netVars>>

(* main returns EXIT_FAILURE without calling start.                        *)
MainReturns ==
    /\ pc = "main"
    /\ serverState \in {"SERVER_LISTEN_SOCKET_ERROR", "SERVER_USERFILE_ERROR"}
    /\ pc' = "exit"
    /\ UNCHANGED <<serverState, cursor, ready, forward, sessionVars, inboxVars,
                   netVars>>

-----------------------------------------------------------------------------
(* One round of the loop of Server::start.                                 *)

(* The set as it was filled, as if select had failed and nobody looked.    *)
ReadyUnselected_Bug ==
    {Listener} \union {m_socketfd[m_sessions[i]] : i \in DOMAIN m_sessions}

SessionFds == {m_socketfd[m_sessions[i]] :
                 i \in {j \in DOMAIN m_sessions : Readable(m_sessions[j])}}

(* Only the first ready session is served, and only when no session is     *)
(* ready is the listener looked at.                                        *)
ReadyOneSession_Bug ==
    (IF backlog = <<>> THEN {} ELSE {Listener})
      \union {m_socketfd[m_sessions[i]] :
                i \in {j \in DOMAIN m_sessions :
                         /\ Readable(m_sessions[j])
                         /\ \A h \in 1..(j - 1) : ~Readable(m_sessions[h])}}
ReadySessionsFirst_Bug ==
    IF SessionFds # {} \/ backlog = <<>> THEN SessionFds ELSE {Listener}

(* The fd set is filled from m_sessions and select blocks until one of its *)
(* members is readable; it leaves exactly the readable ones in the set.    *)
ReadyFds ==
    (IF backlog = <<>> THEN {} ELSE {Listener}) \union SessionFds

Select ==
    /\ pc = "select"
    /\ ReadyFds # {}
    /\ ready' = ReadyFds
    /\ pc' = "accept"
    /\ UNCHANGED <<serverState, cursor, forward, sessionVars, inboxVars, netVars>>

(* The listener is not in the set: straight to the scan.                   *)
NoNewConnection ==
    /\ pc = "accept"
    /\ Listener \notin ready
    /\ pc' = "scan"
    /\ cursor' = 1
    /\ UNCHANGED <<serverState, ready, forward, sessionVars, inboxVars, netVars>>

(* accept gives the lowest free descriptor; the session joins the end of   *)
(* the list and is sent the welcome message.                               *)
Accept ==
    /\ pc = "accept"
    /\ Listener \in ready
    /\ backlog # <<>>
    /\ LET c == Head(backlog) IN
       /\ CanSend(c, <<Welcome>>)
       /\ \E fd \in FreeFds :
            /\ \A other \in FreeFds : fd <= other
            /\ m_socketfd' = [m_socketfd EXCEPT ![c] = fd]
       /\ sessionState' = [sessionState EXCEPT ![c] = "STATE_NON_AUTH"]
       /\ m_inbox' = [m_inbox EXCEPT ![c] = NoInbox]
       /\ m_sessions' = Append(m_sessions, c)
       /\ outq' = Sent(c, <<Welcome>>)
    /\ backlog' = Tail(backlog)
    /\ pc' = "scan"
    /\ cursor' = 1
    /\ UNCHANGED <<serverState, ready, forward, inboxVars, peer, inq>>

(* accept fails, because no descriptor is left or because the connection   *)
(* was aborted while it waited: start returns.                             *)
AcceptFails ==
    /\ pc = "accept"
    /\ Listener \in ready
    /\ backlog # <<>>
    /\ FreeFds = {} \/ peer[Head(backlog)] = "closed"
    /\ serverState' = "SERVER_LISTEN_SOCKET_ERROR"
    /\ pc' = "exit"
    /\ UNCHANGED <<cursor, ready, forward, sessionVars, inboxVars, netVars>>

Scanning == pc = "scan" /\ forward = <<>>

ScanSkip ==
    /\ Scanning
    /\ cursor <= Len(m_sessions)
    /\ m_socketfd[m_sessions[cursor]] \notin ready
    /\ cursor' = cursor + 1
    /\ UNCHANGED <<serverState, pc, ready, forward, sessionVars, inboxVars, netVars>>

ScanEnd ==
    /\ Scanning
    /\ cursor > Len(m_sessions)
    /\ pc' = "select"
    /\ cursor' = 1
    /\ ready' = {}
    /\ UNCHANGED <<serverState, forward, sessionVars, inboxVars, netVars>>

-----------------------------------------------------------------------------
(* processRequset: the session under the iterator, when select reported    *)
(* it.  Its state picks sessionLogin or sessionCommandRequest.             *)
Current(c) ==
    /\ Scanning
    /\ cursor <= Len(m_sessions)
    /\ c = m_sessions[cursor]
    /\ m_socketfd[c] \in ready

HasRequest(c, state, types) ==
    /\ Current(c)
    /\ sessionState[c] = state
    /\ inq[c] # <<>>
    /\ Head(inq[c]).type \in types

(* The handler answers with msgs and the iterator moves on.                *)
Answer(c, msgs) ==
    /\ CanSend(c, msgs)
    /\ outq' = Sent(c, msgs)
    /\ inq' = [inq EXCEPT ![c] = Tail(@)]
    /\ cursor' = cursor + 1
    /\ UNCHANGED <<serverState, pc, ready, forward, m_sessions, m_socketfd,
                   m_all_inbox, peer, backlog>>

(* getMessageAndType answers a frame without a type itself, and its caller *)
(* then answers the COMMANDTYPE_UNVALID_REQ it got back once more.         *)
TypeReplies(r) ==
    IF r.type = "NO_TYPE" THEN <<General("UNVALID_MESSAGE")>> ELSE <<>>

(* ServerSessionSocket::close, and what the end of the connection leaves   *)
(* of it.  The inbox, if there is one, is free again.                      *)
LoginAfterClose(c) ==
    IF m_inbox[c] = NoInbox THEN m_loggedIn
    ELSE [m_loggedIn EXCEPT ![m_inbox[c]] = FALSE]
SessionKept_Bug(c) == m_session
SessionAfterClose(c) ==
    IF m_inbox[c] = NoInbox THEN m_session
    ELSE [m_session EXCEPT ![m_inbox[c]] = NoSession]

CloseSessionOnly_Bug(c) ==
    /\ m_inbox' = [m_inbox EXCEPT ![c] = NoInbox]
    /\ m_socketfd' = [m_socketfd EXCEPT ![c] = SOCKET_INVALID_DEFAULT]
    /\ sessionState' = [sessionState EXCEPT ![c] = "STATE_NON_AUTH"]
    /\ inq' = [inq EXCEPT ![c] = <<>>]
    /\ peer' = IF Connected(c) THEN peer ELSE [peer EXCEPT ![c] = "idle"]
    /\ UNCHANGED <<m_loggedIn, m_session>>

CloseSession(c) ==
    /\ m_loggedIn' = LoginAfterClose(c)
    /\ m_session' = SessionAfterClose(c)
    /\ m_inbox' = [m_inbox EXCEPT ![c] = NoInbox]
    /\ m_socketfd' = [m_socketfd EXCEPT ![c] = SOCKET_INVALID_DEFAULT]
    /\ sessionState' = [sessionState EXCEPT ![c] = "STATE_NON_AUTH"]
    /\ inq' = [inq EXCEPT ![c] = <<>>]
    /\ peer' = IF Connected(c) THEN peer ELSE [peer EXCEPT ![c] = "idle"]

EraseLast_Bug == m_sessions' = Front(m_sessions)

(* start deletes a session its handler has closed; erase returns the       *)
(* position of the next one.                                               *)
Erase == m_sessions' = RemoveAt(m_sessions, cursor)

(* Part of a message has arrived, whose rest the client may still send.    *)
BegunOnly(c) == inq[c] # <<>> /\ Last(inq[c]) = HalfFrame

(* recvMessage fails: on the end of file, on a bad frame, or on any frame  *)
(* of which TCP has delivered a part only, since each part is read with    *)
(* one ::recv.  The session is told, closed and deleted.  A length field   *)
(* alone does not fail: ::recv blocks, and with it the server, until the   *)
(* client sends more or goes.                                              *)
SessionFailure(c) ==
    /\ Current(c)
    /\ \/ peer[c] = "closed"
       \/ inq[c] # <<>> /\ Head(inq[c]) # HalfFrame
    /\ CanSend(c, <<General("SESSION_FAILURE")>>)
    /\ outq' = Sent(c, <<General("SESSION_FAILURE")>>)
    /\ CloseSession(c)
    /\ Erase
    /\ UNCHANGED <<serverVars, m_all_inbox, m_mails, m_idOfLastMail, backlog>>

-----------------------------------------------------------------------------
LoginTwice_Bug(r) ==
    IF r.type # "LOGIN" THEN "NOT_LOGGED_IN"
    ELSE LET k == GetInbox(r.user) IN
         IF k = NoInbox THEN "UNKNOWN_USER"
         ELSE IF UserOf(k).pass # r.pass THEN "WRONG_PASS"
         ELSE "SUCCESS"

(* sessionLogin, in the order of its checks.                               *)
LoginStatus(r) ==
    IF r.type = "BAD_LOGIN" THEN "UNVALID_MESSAGE"
    ELSE IF r.type # "LOGIN" THEN "NOT_LOGGED_IN"
    ELSE LET k == GetInbox(r.user) IN
         IF k = NoInbox THEN "UNKNOWN_USER"
         ELSE IF UserOf(k).pass # r.pass THEN "WRONG_PASS"
         ELSE IF m_loggedIn[k] THEN "USER_ALREADY_LOGGEDON"
         ELSE "SUCCESS"

NonAuthTypes ==
    {"LOGIN", "SHOW_INBOX", "SHOW_ONLINE_USERS", "QUIT", "UNKNOWN", "NO_TYPE",
     "BAD_LOGIN", "BAD_COMMAND", "GET_MAIL", "DELETE_MAIL", "COMPOSE",
     "SEND_CHAT"}

(* On success setInbox points the session and the inbox at each other.     *)
SessionLogin(c) ==
    /\ HasRequest(c, "STATE_NON_AUTH", NonAuthTypes)
    /\ LET r == Head(inq[c])
           status == LoginStatus(r)
           k == IF r.type = "LOGIN" THEN GetInbox(r.user) ELSE NoInbox
       IN
       /\ Answer(c, TypeReplies(r) \o <<General(status)>>)
       /\ IF status = "SUCCESS"
          THEN /\ m_inbox' = [m_inbox EXCEPT ![c] = k]
               /\ m_loggedIn' = [m_loggedIn EXCEPT ![k] = TRUE]
               /\ m_session' = [m_session EXCEPT ![k] = c]
               /\ sessionState' = [sessionState EXCEPT ![c] = "STATE_LOGEDON"]
          ELSE UNCHANGED <<m_inbox, m_loggedIn, m_session, sessionState>>
    /\ UNCHANGED <<m_mails, m_idOfLastMail>>

-----------------------------------------------------------------------------
(* sessionCommandRequest: one handler per message type.                    *)
AnswerOnly(c, msgs) ==
    /\ Answer(c, msgs)
    /\ UNCHANGED <<sessionState, m_inbox, m_loggedIn, m_session, m_mails,
                   m_idOfLastMail>>

InvalidRequest(c) ==
    /\ HasRequest(c, "STATE_LOGEDON",
                  {"LOGIN", "BAD_LOGIN", "BAD_COMMAND", "UNKNOWN", "NO_TYPE"})
    /\ AnswerOnly(c, TypeReplies(Head(inq[c])) \o <<General("UNVALID_MESSAGE")>>)

(* setShowInboxMails gives up on a mail whose line exceeds a field; the    *)
(* result of sending the listing is ignored, also when it is               *)
(* RES_PACKET_TOO_LONG and nothing is sent.                                *)
RowNoSubject_Bug(mail) == [m_id |-> mail.m_id, m_from |-> mail.m_from]
RowOf(mail) ==
    [m_id |-> mail.m_id, m_from |-> mail.m_from, m_subject |-> mail.m_subject]
InboxRepliesNone_Bug(mails) ==
    IF mails = <<>> THEN <<>>
    ELSE <<ShowInboxRes([i \in DOMAIN mails |-> RowOf(mails[i])])>>
InboxReplies(mails) ==
    IF \E i \in DOMAIN mails : mails[i].m_subject \in LongSubject
    THEN <<General("INTERNAL_FAILURE")>>
    ELSE IF Len(mails) > ShowInboxLimit THEN <<>>
    ELSE <<ShowInboxRes([i \in DOMAIN mails |-> RowOf(mails[i])])>>

ShowInbox(c) ==
    /\ HasRequest(c, "STATE_LOGEDON", {"SHOW_INBOX"})
    /\ AnswerOnly(c, InboxReplies(m_mails[m_inbox[c]]))

(* getMailByID and removeMail: the first mail with that id.                *)
MailAt(mails, id) == {i \in DOMAIN mails : mails[i].m_id = id}

MailReply(mails, id) ==
    IF MailAt(mails, id) = {} THEN General("UNKNOWN_MAIL_ID")
    ELSE GetMailRes(mails[Min(MailAt(mails, id))])

GetMail(c) ==
    /\ HasRequest(c, "STATE_LOGEDON", {"GET_MAIL"})
    /\ AnswerOnly(c, <<MailReply(m_mails[m_inbox[c]], Head(inq[c]).id)>>)

RemovePosition_Bug(mails, id) ==
    IF id \in DOMAIN mails THEN RemoveAt(mails, id) ELSE mails

RemoveMail(mails, id) ==
    IF MailAt(mails, id) = {} THEN mails
    ELSE RemoveAt(mails, Min(MailAt(mails, id)))
DeleteStatus(mails, id) ==
    IF MailAt(mails, id) = {} THEN "UNKNOWN_MAIL_ID" ELSE "SUCCESS"

DeleteMail(c) ==
    /\ HasRequest(c, "STATE_LOGEDON", {"DELETE_MAIL"})
    /\ LET k == m_inbox[c]
           id == Head(inq[c]).id
       IN
       /\ m_mails' = [m_mails EXCEPT ![k] = RemoveMail(@, id)]
       /\ Answer(c, <<General(DeleteStatus(m_mails[k], id))>>)
    /\ UNCHANGED <<sessionState, m_inbox, m_loggedIn, m_session, m_idOfLastMail>>

CopiesOneId_Bug(last, n, to, from, subject, body) ==
    [j \in 1..n |-> [m_id |-> last + 1, m_to |-> to, m_from |-> from,
                     m_subject |-> subject, m_body |-> body]]

(* Inbox::addMail, done n times with copies of one mail: each copy takes   *)
(* the next id of the inbox.                                               *)
Copies(last, n, to, from, subject, body) ==
    [j \in 1..n |-> [m_id |-> last + j, m_to |-> to, m_from |-> from,
                     m_subject |-> subject, m_body |-> body]]

(* Every user once, however often he is named.                             *)
DeliveriesOnce_Bug(to, k) == IF \E i \in DOMAIN to : GetInbox(to[i]) = k THEN 1 ELSE 0

(* How often the walk over the "To" field reaches inbox k; names without   *)
(* an inbox are passed over.                                               *)
Deliveries(to, k) == Cardinality({i \in DOMAIN to : GetInbox(to[i]) = k})

(* Ids taken from the length of the list.                                  *)
AddMailsByLength_Bug(to, from, subject, body) ==
    /\ m_mails' = [k \in InboxId |->
           m_mails[k] \o Copies(Len(m_mails[k]), Deliveries(to, k),
                                to, from, subject, body)]
    /\ m_idOfLastMail' =
           [k \in InboxId |-> Len(m_mails[k]) + Deliveries(to, k)]

AddMails(to, from, subject, body) ==
    /\ m_mails' = [k \in InboxId |->
           m_mails[k] \o Copies(m_idOfLastMail[k], Deliveries(to, k),
                                to, from, subject, body)]
    /\ m_idOfLastMail' =
           [k \in InboxId |-> m_idOfLastMail[k] + Deliveries(to, k)]

Compose(c) ==
    /\ HasRequest(c, "STATE_LOGEDON", {"COMPOSE"})
    /\ LET r == Head(inq[c]) IN
       AddMails(r.to, UserOf(m_inbox[c]).user, r.subject, r.body)
    /\ Answer(c, <<General("SUCCESS")>>)
    /\ UNCHANGED <<sessionState, m_inbox, m_loggedIn, m_session>>

(* COMMANDTYPE_QUIT_REQ: the session is closed without an answer.          *)
Quit(c) ==
    /\ HasRequest(c, "STATE_LOGEDON", {"QUIT"})
    /\ CloseSession(c)
    /\ Erase
    /\ UNCHANGED <<serverVars, m_all_inbox, m_mails, m_idOfLastMail, backlog, outq>>

(* sessionWriteOnlineUsers gives up on the first session that has no       *)
(* inbox.  That a long list cannot be written is not noticed: the answer   *)
(* goes out with its type alone, here a list of no names.                  *)
OnlineReply ==
    IF \E i \in DOMAIN m_sessions : m_inbox[m_sessions[i]] = NoInbox
    THEN General("INTERNAL_FAILURE")
    ELSE IF Len(m_sessions) > OnlineLimit THEN OnlineRes(<<>>)
    ELSE OnlineRes([i \in DOMAIN m_sessions |->
                      UserOf(m_inbox[m_sessions[i]]).user])

ShowOnlineUsers(c) ==
    /\ HasRequest(c, "STATE_LOGEDON", {"SHOW_ONLINE_USERS"})
    /\ AnswerOnly(c, <<OnlineReply>>)

-----------------------------------------------------------------------------
(* sessionRequestSendChatMessage.  The answer goes out before the chat is  *)
(* sent on to the addressee's session; the two sends are two steps.        *)
Online(k) == m_loggedIn[k] /\ m_session[k] # NoSession

ChatUnknownUser(c) ==
    /\ HasRequest(c, "STATE_LOGEDON", {"SEND_CHAT"})
    /\ GetInbox(Head(inq[c]).to) = NoInbox
    /\ AnswerOnly(c, <<General("UNKNOWN_USER_CHAT")>>)

(* The text with "New message from ..." in front exceeds a field.          *)
ChatTooLong(c) ==
    /\ HasRequest(c, "STATE_LOGEDON", {"SEND_CHAT"})
    /\ LET k == GetInbox(Head(inq[c]).to) IN k # NoInbox /\ Online(k)
    /\ Head(inq[c]).text \in LongChat
    /\ AnswerOnly(c, <<General("INTERNAL_FAILURE")>>)

ChatOnline(c) ==
    /\ HasRequest(c, "STATE_LOGEDON", {"SEND_CHAT"})
    /\ LET r == Head(inq[c])
           k == GetInbox(r.to)
       IN
       /\ k # NoInbox /\ Online(k)
       /\ r.text \notin LongChat
       /\ forward' = <<[from |-> c, to |-> m_session[k],
                        chat |-> ChatMessage(UserOf(m_inbox[c]).user, r.text)]>>
    /\ CanSend(c, <<General("SUCCESS")>>)
    /\ outq' = Sent(c, <<General("SUCCESS")>>)
    /\ inq' = [inq EXCEPT ![c] = Tail(@)]
    /\ UNCHANGED <<serverState, pc, cursor, ready, sessionVars, inboxVars,
                   peer, backlog>>

(* The addressee is not logged in: the chat is stored as a mail.           *)
ChatOffline(c) ==
    /\ HasRequest(c, "STATE_LOGEDON", {"SEND_CHAT"})
    /\ LET r == Head(inq[c])
           k == GetInbox(r.to)
       IN
       /\ k # NoInbox /\ ~Online(k)
       /\ AddMails(<<r.to>>, UserOf(m_inbox[c]).user, OfflineSubject, r.text)
    /\ Answer(c, <<General("SUCCESS")>>)
    /\ UNCHANGED <<sessionState, m_inbox, m_loggedIn, m_session>>

(* The second send.  To a peer that has gone it succeeds, and the chat is  *)
(* lost, or fails; then the sender is told after all.                      *)
ForwardDone ==
    /\ forward' = <<>>
    /\ cursor' = cursor + 1
    /\ UNCHANGED <<serverState, pc, ready, sessionVars, inboxVars, peer,
                   backlog, inq>>

ForwardChat ==
    /\ pc = "scan" /\ forward # <<>>
    /\ LET f == Head(forward) IN
       /\ CanSend(f.to, <<f.chat>>)
       /\ outq' = Sent(f.to, <<f.chat>>)
    /\ ForwardDone

ForwardFails ==
    /\ pc = "scan" /\ forward # <<>>
    /\ LET f == Head(forward) IN
       /\ ~Connected(f.to)
       /\ CanSend(f.from, <<General("INTERNAL_FAILURE")>>)
       /\ outq' = Sent(f.from, <<General("INTERNAL_FAILURE")>>)
    /\ ForwardDone

-----------------------------------------------------------------------------
(* The end of the program.  The destructor of Server empties the session   *)
(* list from its end, each session letting go of its inbox, and only then  *)
(* deletes the inboxes.                                                    *)
DestroySession ==
    /\ pc = "exit"
    /\ m_sessions # <<>>
    /\ CloseSession(Last(m_sessions))
    /\ m_sessions' = Front(m_sessions)
    /\ UNCHANGED <<serverVars, m_all_inbox, m_mails, m_idOfLastMail, backlog, outq>>

(* Every object is gone and the kernel closes what is still open.          *)
ProcessEnds ==
    /\ pc' = "done"
    /\ cursor' = 1 /\ ready' = {} /\ forward' = <<>>
    /\ m_sessions' = <<>>
    /\ sessionState' = [c \in Conn |-> "STATE_NON_AUTH"]
    /\ m_inbox' = [c \in Conn |-> NoInbox]
    /\ m_socketfd' = [c \in Conn |-> SOCKET_INVALID_DEFAULT]
    /\ m_all_inbox' = {}
    /\ m_loggedIn' = [k \in InboxId |-> FALSE]
    /\ m_session' = [k \in InboxId |-> NoSession]
    /\ m_mails' = [k \in InboxId |-> <<>>]
    /\ m_idOfLastMail' = [k \in InboxId |-> 0]
    /\ peer' = [c \in Conn |-> IF Connected(c) THEN "connected" ELSE "idle"]
    /\ backlog' = <<>>
    /\ inq' = [c \in Conn |-> <<>>]
    /\ UNCHANGED <<serverState, outq>>

DestroyInboxesFirst_Bug ==
    /\ pc = "exit"
    /\ m_all_inbox # {}
    /\ m_all_inbox' = {}
    /\ UNCHANGED <<serverVars, sessionVars, m_loggedIn, m_session, m_mails,
                   m_idOfLastMail, netVars>>

DestroyInboxes ==
    /\ pc = "exit"
    /\ m_sessions = <<>>
    /\ m_all_inbox # {}
    /\ m_all_inbox' = {}
    /\ UNCHANGED <<serverVars, sessionVars, m_loggedIn, m_session, m_mails,
                   m_idOfLastMail, netVars>>

ProcessExit ==
    /\ pc = "exit"
    /\ m_sessions = <<>> /\ m_all_inbox = {}
    /\ ProcessEnds

(* Socket::recv hands the -1 of a failed ::recv to writeForward as an      *)
(* unsigned length.  It can only fail when the peer resets the connection  *)
(* inside a frame, whatever frame that was to be; the copy of 2^32 - 1     *)
(* bytes then ends the process.                                            *)
RecvUndefined(c) ==
    /\ Current(c)
    /\ inq[c] # <<>> /\ peer[c] = "closed"
    /\ ProcessEnds

-----------------------------------------------------------------------------
(* The clients.  A client may send before the server has accepted it, send *)
(* without waiting for answers, stop inside a message after its length     *)
(* field, and disconnect at any moment.                                    *)

Listening == pc \in {"select", "accept", "scan"}

Connect(c) ==
    /\ Listening
    /\ peer[c] = "idle"
    /\ ~InServer(c) /\ ~InBacklog(c)
    /\ peer' = [peer EXCEPT ![c] = "connected"]
    /\ backlog' = Append(backlog, c)
    /\ UNCHANGED <<serverVars, sessionVars, inboxVars, inq, outq>>

Send(c, r) ==
    /\ Connected(c)
    /\ InServer(c) \/ InBacklog(c)
    /\ ~BegunOnly(c)
    /\ inq' = [inq EXCEPT ![c] = Append(@, r)]
    /\ UNCHANGED <<serverVars, sessionVars, inboxVars, peer, backlog, outq>>

(* The rest of a message whose length field was sent before.               *)
FinishFrame(c, r) ==
    /\ Connected(c)
    /\ BegunOnly(c) /\ r # HalfFrame
    /\ inq' = [inq EXCEPT ![c] = Append(Front(@), r)]
    /\ UNCHANGED <<serverVars, sessionVars, inboxVars, peer, backlog, outq>>

Receive(c) ==
    /\ Connected(c)
    /\ outq[c] # <<>>
    /\ outq' = [outq EXCEPT ![c] = Tail(@)]
    /\ UNCHANGED <<serverVars, sessionVars, inboxVars, peer, backlog, inq>>

Disconnect(c) ==
    /\ Connected(c)
    /\ peer' = [peer EXCEPT ![c] =
                  IF InServer(c) \/ InBacklog(c) THEN "closed" ELSE "idle"]
    /\ outq' = [outq EXCEPT ![c] = <<>>]
    /\ UNCHANGED <<serverVars, sessionVars, inboxVars, backlog, inq>>

-----------------------------------------------------------------------------
SessionStep(c) ==
    \/ SessionFailure(c) \/ SessionLogin(c) \/ InvalidRequest(c)
    \/ ShowInbox(c) \/ GetMail(c) \/ DeleteMail(c) \/ Compose(c) \/ Quit(c)
    \/ ShowOnlineUsers(c) \/ ChatUnknownUser(c) \/ ChatTooLong(c)
    \/ ChatOnline(c) \/ ChatOffline(c) \/ RecvUndefined(c)

ServerStep ==
    \/ LoadUsersFromFile \/ Start \/ MainReturns
    \/ Select \/ NoNewConnection \/ Accept \/ AcceptFails
    \/ ScanSkip \/ ScanEnd \/ ForwardChat \/ ForwardFails
    \/ DestroySession \/ DestroyInboxes \/ ProcessExit
    \/ \E c \in Conn : SessionStep(c)

ClientStep(c) ==
    \/ Connect(c) \/ Receive(c) \/ Disconnect(c)
    \/ \E r \in ClientRequests : Send(c, r) \/ FinishFrame(c, r)

(* The process has ended and its clients have gone.                        *)
Terminated ==
    /\ pc = "done"
    /\ \A c \in Conn : peer[c] = "idle"
    /\ UNCHANGED vars

Next == ServerStep \/ (\E c \in Conn : ClientStep(c)) \/ Terminated

Spec == Init /\ [][Next]_vars

(* The process is scheduled, and clients read what they are sent.          *)
Fairness == WF_vars(ServerStep) /\ \A c \in Conn : WF_vars(Receive(c))

(* A client that has begun a message goes on with it, or goes.  Nothing in *)
(* the server enforces it: it waits in ::recv without a limit of time.     *)
FinishOrGo(c) ==
    BegunOnly(c) /\ (Disconnect(c) \/ \E r \in ClientRequests : FinishFrame(c, r))
FrameFairness == \A c \in Conn : WF_vars(FinishOrGo(c))
=============================================================================
