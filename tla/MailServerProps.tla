--------------------------- MODULE MailServerProps ---------------------------
(***************************************************************************)
(* What the server promises, as formulas over the state of MailServer.     *)
(***************************************************************************)
EXTENDS MailServer

(* The types of the server's loop, of the sessions, of the inboxes and of  *)
(* the network.                                                            *)
ServerTypeOK ==
    /\ serverState \in {"SERVER_INITIATED", "SERVER_LISTEN_SOCKET_ERROR",
                        "SERVER_USERFILE_ERROR", "SERVER_READY_TO_LISTEN"}
    /\ pc \in {"main", "select", "accept", "scan", "exit", "done"}
    /\ cursor \in Nat \ {0}
    /\ ready \in SUBSET (SOCKET_INVALID_DEFAULT..MaxFd)
    /\ forward \in Seq([from : Conn, to : Conn, chat : Chat])
SessionTypeOK ==
    /\ m_sessions \in Seq(Conn)
    /\ sessionState \in [Conn -> {"STATE_NON_AUTH", "STATE_LOGEDON"}]
    /\ m_inbox \in [Conn -> InboxId \union {NoInbox}]
    /\ m_socketfd \in [Conn -> (1..MaxFd) \union {SOCKET_INVALID_DEFAULT}]
InboxTypeOK ==
    /\ m_all_inbox \in SUBSET InboxId
    /\ m_loggedIn \in [InboxId -> BOOLEAN]
    /\ m_session \in [InboxId -> Conn \union {NoSession}]
    /\ m_mails \in [InboxId -> Seq(Mail)]
    /\ m_idOfLastMail \in [InboxId -> Nat]
NetTypeOK ==
    /\ peer \in [Conn -> {"idle", "connected", "closed"}]
    /\ backlog \in Seq(Conn)
    /\ inq \in [Conn -> Seq(Request)]
    /\ outq \in [Conn -> Seq(Reply)]
TypeOK == ServerTypeOK /\ SessionTypeOK /\ InboxTypeOK /\ NetTypeOK

-----------------------------------------------------------------------------
(* Sessions and inboxes hold raw pointers to each other, set by setInbox   *)
(* and cleared by ServerSessionSocket::close.  The two sides always agree: *)
(* a session is logged in exactly when it has an inbox, that inbox points  *)
(* back, and m_loggedIn says whether the back pointer is set.              *)
LoggedInHasInbox ==
    \A c \in Conn : sessionState[c] = "STATE_LOGEDON" <=> m_inbox[c] # NoInbox
InboxPointsBack ==
    \A c \in Conn : m_inbox[c] # NoInbox => m_session[m_inbox[c]] = c
SessionPointsBack ==
    \A k \in InboxId : m_session[k] # NoSession => m_inbox[m_session[k]] = k
LoggedInFlag ==
    \A k \in InboxId : m_loggedIn[k] <=> m_session[k] # NoSession
SessionInboxAgree ==
    /\ LoggedInHasInbox
    /\ InboxPointsBack
    /\ SessionPointsBack
    /\ LoggedInFlag

(* No pointer outlives its object: not while sessions are erased under the *)
(* iterator of the scan, not between the two sends of a chat, and not      *)
(* while the destructor of Server empties its two lists.                   *)
InboxesLive ==
    \A c \in Conn : m_inbox[c] # NoInbox => m_inbox[c] \in m_all_inbox
SessionsLive ==
    \A k \in InboxId : m_session[k] # NoSession => InServer(m_session[k])
ForwardLive ==
    \A i \in DOMAIN forward : InServer(forward[i].from) /\ InServer(forward[i].to)
NoDanglingPointers == InboxesLive /\ SessionsLive /\ ForwardLive

(* A user has at most one session, even when the users file names him      *)
(* twice (USER_ALREADY_LOGGEDON).                                          *)
OneSessionPerUser ==
    \A c, d \in Conn :
      /\ m_inbox[c] # NoInbox /\ m_inbox[d] # NoInbox
      /\ UserOf(m_inbox[c]).user = UserOf(m_inbox[d]).user
      => c = d

(* Sessions own their descriptors: each listed session once, with a valid  *)
(* descriptor nobody shares; a deleted session has none.                   *)
DescriptorsOwned ==
    /\ \A i, j \in DOMAIN m_sessions :
         m_socketfd[m_sessions[i]] = m_socketfd[m_sessions[j]] => i = j
    /\ \A c \in Conn : InServer(c) <=> m_socketfd[c] # SOCKET_INVALID_DEFAULT

(* What the agreement of pointers rests on: a connection waiting for       *)
(* accept waits once and has no session yet; inboxes come into being       *)
(* once, before any session; a chat is pending only in the scan; and a     *)
(* logged-in user always holds the inbox a lookup of his name finds.       *)
BacklogWaits ==
    /\ \A i \in DOMAIN backlog : ~InServer(backlog[i])
    /\ \A i, j \in DOMAIN backlog : backlog[i] = backlog[j] => i = j
UsersLoadedOnce == serverState = "SERVER_INITIATED" => m_all_inbox = {}
ForwardInScan == forward # <<>> => pc = "scan"
InboxIsFirst ==
    \A k \in InboxId : m_session[k] # NoSession => GetInbox(UserOf(k).user) = k
IInv ==
    /\ TypeOK
    /\ SessionInboxAgree
    /\ NoDanglingPointers
    /\ BacklogWaits
    /\ UsersLoadedOnce
    /\ ForwardInScan
    /\ InboxIsFirst

(* The single thread begins to read only where something waits: what       *)
(* select reported is still readable when the scan or accept gets to it,   *)
(* although sessions were accepted, closed and erased (and descriptors     *)
(* reused) in between.  (Inside a frame it may block: see BegunOnly.)      *)
ReadsNeverBlock ==
    /\ pc = "accept" /\ Listener \in ready => backlog # <<>>
    /\ pc = "scan" /\ forward = <<>> =>
         \A i \in DOMAIN m_sessions :
           i >= cursor /\ m_socketfd[m_sessions[i]] \in ready
             => Readable(m_sessions[i])

-----------------------------------------------------------------------------
(* Mail ids identify mails: within an inbox they ascend with the time of   *)
(* arrival and stay within what m_idOfLastMail has handed out, whatever    *)
(* was deleted in between.                                                 *)
MailIdsAscend ==
    \A k \in InboxId :
      /\ \A i \in DOMAIN m_mails[k] : m_mails[k][i].m_id \in 1..m_idOfLastMail[k]
      /\ \A i, j \in DOMAIN m_mails[k] :
           i < j => m_mails[k][i].m_id < m_mails[k][j].m_id

Stored(mails) == {mails[i] : i \in DOMAIN mails}

(* A stored mail stays, unchanged and under its id, until the inbox's own  *)
(* session asks to delete that id (or the inbox is destroyed).             *)
MailKeptStep ==
    \A k \in m_all_inbox' : \A m \in Stored(m_mails[k]) \ Stored(m_mails'[k]) :
      \E c \in Conn :
        /\ m_inbox[c] = k
        /\ Current(c)
        /\ Head(inq[c]) = [type |-> "DELETE_MAIL", id |-> m.m_id]
MailKeptUntilDeleted == [][MailKeptStep]_vars

(* An id is never given to a second mail, also not after its first mail    *)
(* has been deleted: a client's GET_MAIL or DELETE_MAIL with an id it was  *)
(* shown earlier never meets another mail.                                 *)
IdsFreshStep ==
    \A k \in m_all_inbox' : \A m \in Stored(m_mails'[k]) \ Stored(m_mails[k]) :
      m.m_id > m_idOfLastMail[k]
IdsNeverReused == [][IdsFreshStep]_vars

(* The server never speaks to a client out of turn: a step that appends to *)
(* a connection's stream is the welcome, an answer to that connection's    *)
(* own request, or one chat to a logged-in user.                           *)
SpeaksInTurnStep ==
    \A c \in Conn : Len(outq'[c]) > Len(outq[c]) =>
      \/ ~InServer(c) /\ outq'[c] = outq[c] \o <<Welcome>>
      \/ Current(c) /\ inq'[c] # inq[c]
      \/ forward # <<>> /\ Head(forward).from = c /\ ~Connected(Head(forward).to)
      \/ /\ sessionState[c] = "STATE_LOGEDON"
         /\ \E chat \in Chat : outq'[c] = Append(outq[c], chat)
SpeaksInTurn == [][SpeaksInTurnStep]_vars

-----------------------------------------------------------------------------
(* Under Fairness and FrameFairness.  Every request that reaches the       *)
(* server is read, however many other clients connect, chat, leave, and    *)
(* pause inside a message meanwhile, as long as none of them pauses for    *)
(* ever.                                                                   *)
RequestsAreServed == \A c \in Conn : inq[c] # <<>> ~> inq[c] = <<>>

(* A connection does not wait in the listen queue for ever.                *)
ConnectionsAreAccepted == \A c \in Conn : InBacklog(c) ~> ~InBacklog(c)

(* When a logged-in client disappears without QUIT its user can log in     *)
(* again eventually.                                                       *)
GoneUsersAreLoggedOut ==
    \A k \in InboxId :
      (\E c \in Conn : m_session[k] = c /\ peer[c] = "closed")
        ~> (m_session[k] = NoSession)

-----------------------------------------------------------------------------
(* What docs/readme.docx and a comment say, and the code does not do in    *)
(* every case.                                                             *)

(* docs/readme.docx, paragraph 158: a chat whose addressee is not          *)
(* connected is kept in his inbox.  So what the server takes from a client *)
(* to send it to a session has a client at the other end.                  *)
ChatsAreKeptStep ==
    forward = <<>> /\ forward' # <<>> =>
      (Connected(Head(forward').from) => Connected(Head(forward').to))
ChatsAreKept == [][ChatsAreKeptStep]_vars

(* Every request has one answer.  Server.h:139-141: for a message that     *)
(* cannot be read "the appropriate general respond has been sent" when the *)
(* caller learns of it; docs/readme.docx, paragraphs 47-48: SHOW_INBOX is  *)
(* answered by a listing or by a suitable General message; paragraph 163:  *)
(* a chat is answered by a General message.  So nobody gets more than one  *)
(* answer to a request, or any without a request, and one that is handled, *)
(* its client still being there and its session kept, gets one.            *)
NewAnswers(c) ==
    {i \in (Len(outq[c]) + 1)..Len(outq'[c]) : outq'[c][i] \notin Chat \union {Welcome}}
Handled(c) ==
    inq[c] # <<>> /\ inq'[c] = Tail(inq[c]) /\ Connected(c) /\ InServer(c)'
AnsweredOnceStep ==
    \A c \in Conn :
      /\ Cardinality(NewAnswers(c)) <= IF inq'[c] = inq[c] THEN 0 ELSE 1
      /\ Handled(c) => NewAnswers(c) # {}
AnsweredOnce == [][AnsweredOnceStep]_vars
=============================================================================
