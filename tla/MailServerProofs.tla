-------------------------- MODULE MailServerProofs --------------------------
(***************************************************************************)
(* Proofs about MailServer for every value of its constants: the types of  *)
(* its variables, the agreement of the pointers between sessions and       *)
(* inboxes, that a user has one session, and what happens to mails and     *)
(* their ids; and about the loop around them: each listed session owns a   *)
(* descriptor of its own, what select reported is still readable when the  *)
(* loop reads it, although sessions are accepted, closed and erased and    *)
(* descriptors reused in between, and the loop speaks to a client in turn  *)
(* only.                                                                   *)
(***************************************************************************)
EXTENDS MailServerProps, SeqLemmas, FiniteSetTheorems

(* Inboxes and their users.                                                *)
LEMMA InboxTypes ==
  /\ Len(UsersFile) \in Nat
  /\ InboxId \subseteq Nat
  /\ NoInbox \notin InboxId
  /\ \A k \in InboxId : UserOf(k).user \in Name
<1>1. Len(UsersFile) \in Nat
      /\ \A i \in 1..Len(UsersFile) :
           UsersFile[i] \in [user : Name, pass : Password]
  BY FileAssumption, LenProperties, ElementOfSeq
<1>2. ASSUME NEW k \in InboxId
      PROVE  UserOf(k).user \in Name
  <2>1. Len(UsersFile) - k + 1 \in 1..Len(UsersFile)
    BY <1>1 DEF InboxId
  <2> QED
    BY <1>1, <2>1 DEF UserOf
<1> QED
  BY <1>1, <1>2 DEF InboxId, NoInbox

(* getInboxFromUserString returns a live inbox of that user, or nullptr.   *)
LEMMA GetInboxLive ==
  ASSUME NEW user, m_all_inbox \subseteq InboxId, GetInbox(user) # NoInbox
  PROVE  GetInbox(user) \in m_all_inbox /\ UserOf(GetInbox(user)).user = user
<1> DEFINE found == {k \in m_all_inbox : UserOf(k).user = user}
<1>1. found # {} /\ GetInbox(user) = Min(found)
  BY DEF GetInbox
<1>2. found \subseteq Nat
  BY InboxTypes
<1>3. Min(found) \in found
  BY <1>1, <1>2, MinIsLeast
<1> QED
  BY <1>1, <1>3

LEMMA GetInboxType ==
  ASSUME NEW user, m_all_inbox \subseteq InboxId
  PROVE  GetInbox(user) \in InboxId \union {NoInbox}
BY GetInboxLive

-----------------------------------------------------------------------------
(* Types of the messages the server builds.                                *)
LEMMA GeneralType ==
  ASSUME NEW status \in Status
  PROVE  General(status) \in Reply
BY DEF General, Reply

LEMMA WelcomeType == Welcome \in Reply
BY DEF Reply

LEMMA OneMessage ==
  ASSUME NEW S, NEW m \in S
  PROVE  <<m>> \in Seq(S)
OBVIOUS

LEMMA TypeRepliesType ==
  ASSUME NEW r
  PROVE  TypeReplies(r) \in Seq(Reply)
<1>1. <<General("UNVALID_MESSAGE")>> \in Seq(Reply)
  BY GeneralType, OneMessage DEF Status
<1>2. <<>> \in Seq(Reply)
  OBVIOUS
<1> QED
  BY <1>1, <1>2 DEF TypeReplies

LEMMA RowType ==
  ASSUME NEW m \in Mail
  PROVE  RowOf(m) \in Row
BY DEF RowOf, Row, Mail

LEMMA InboxRepliesType ==
  ASSUME NEW mails \in Seq(Mail)
  PROVE  InboxReplies(mails) \in Seq(Reply)
<1> DEFINE rows == [i \in DOMAIN mails |-> RowOf(mails[i])]
<1>1. Len(mails) \in Nat /\ DOMAIN mails = 1..Len(mails)
      /\ \A i \in 1..Len(mails) : mails[i] \in Mail
  BY LenProperties, ElementOfSeq
<1>2. \A i \in 1..Len(mails) : RowOf(mails[i]) \in Row
  BY <1>1, RowType
<1>3. rows \in Seq(Row)
  BY <1>1, <1>2
<1>4. ShowInboxRes(rows) \in Reply
  <2> HIDE DEF rows
  <2> QED
    BY <1>3 DEF ShowInboxRes, Reply
<1>5. <<ShowInboxRes(rows)>> \in Seq(Reply)
  BY <1>4, OneMessage
<1>6. <<General("INTERNAL_FAILURE")>> \in Seq(Reply)
  BY GeneralType, OneMessage DEF Status
<1>7. <<>> \in Seq(Reply)
  OBVIOUS
<1> QED
  BY <1>5, <1>6, <1>7 DEF InboxReplies

LEMMA MailAtProperties ==
  ASSUME NEW mails \in Seq(Mail), NEW id, MailAt(mails, id) # {}
  PROVE  Min(MailAt(mails, id)) \in 1..Len(mails)
         /\ mails[Min(MailAt(mails, id))] \in Mail
<1>1. Len(mails) \in Nat /\ DOMAIN mails = 1..Len(mails)
  BY LenProperties
<1>2. MailAt(mails, id) \subseteq 1..Len(mails)
  BY <1>1 DEF MailAt
<1>3. MailAt(mails, id) \subseteq Nat
  BY <1>1, <1>2
<1>4. Min(MailAt(mails, id)) \in MailAt(mails, id)
  BY <1>3, MinIsLeast
<1> QED
  BY <1>2, <1>4, ElementOfSeq

LEMMA MailReplyType ==
  ASSUME NEW mails \in Seq(Mail), NEW id
  PROVE  MailReply(mails, id) \in Reply
<1>1. CASE MailAt(mails, id) = {}
  BY <1>1, GeneralType DEF MailReply, Status
<1>2. CASE MailAt(mails, id) # {}
  <2>1. mails[Min(MailAt(mails, id))] \in Mail
    BY <1>2, MailAtProperties
  <2>2. GetMailRes(mails[Min(MailAt(mails, id))]) \in Reply
    BY <2>1 DEF GetMailRes, Reply
  <2> QED
    BY <1>2, <2>2 DEF MailReply
<1> QED
  BY <1>1, <1>2

LEMMA RemoveMailType ==
  ASSUME NEW mails \in Seq(Mail), NEW id
  PROVE  RemoveMail(mails, id) \in Seq(Mail)
BY MailAtProperties, RemoveAtProperties DEF RemoveMail

LEMMA DeliveriesType ==
  ASSUME NEW to \in Seq(Name), NEW k
  PROVE  Deliveries(to, k) \in Nat
<1> DEFINE D == {i \in DOMAIN to : GetInbox(to[i]) = k}
<1>1. Len(to) \in Nat /\ DOMAIN to = 1..Len(to)
  BY LenProperties
<1>2. IsFiniteSet(1..Len(to))
  BY <1>1, FS_Interval
<1>3. IsFiniteSet(D)
  BY <1>1, <1>2, FS_Subset
<1>4. Cardinality(D) \in Nat
  BY <1>3, FS_CardinalityType
<1> QED
  BY <1>4 DEF Deliveries

LEMMA CopiesType ==
  ASSUME NEW last \in Nat, NEW n \in Nat, NEW to \in Seq(Name), NEW from \in Name,
         NEW subject \in Text \union {OfflineSubject}, NEW body \in Text
  PROVE  Copies(last, n, to, from, subject, body) \in Seq(Mail)
<1>1. \A j \in 1..n : [m_id |-> last + j, m_to |-> to, m_from |-> from,
                       m_subject |-> subject, m_body |-> body] \in Mail
  BY DEF Mail
<1> QED
  BY <1>1 DEF Copies

(* addMail keeps the inboxes well typed.                                   *)
LEMMA AddMailsType ==
  ASSUME InboxTypeOK, NEW to \in Seq(Name), NEW from \in Name,
         NEW subject \in Text \union {OfflineSubject}, NEW body \in Text,
         AddMails(to, from, subject, body)
  PROVE  m_mails' \in [InboxId -> Seq(Mail)] /\ m_idOfLastMail' \in [InboxId -> Nat]
<1>1. ASSUME NEW k \in InboxId
      PROVE  /\ m_mails[k] \o Copies(m_idOfLastMail[k], Deliveries(to, k),
                                     to, from, subject, body) \in Seq(Mail)
             /\ m_idOfLastMail[k] + Deliveries(to, k) \in Nat
  <2>1. m_mails[k] \in Seq(Mail) /\ m_idOfLastMail[k] \in Nat
    BY DEF InboxTypeOK
  <2>2. Deliveries(to, k) \in Nat
    BY DeliveriesType
  <2>3. Copies(m_idOfLastMail[k], Deliveries(to, k), to, from, subject, body) \in Seq(Mail)
    BY <2>1, <2>2, CopiesType
  <2> QED
    BY <2>1, <2>2, <2>3, ConcatProperties
<1> QED
  BY <1>1 DEF AddMails

(* The fields of a request, by its type.                                   *)
LEMMA RequestFields ==
  ASSUME NEW r \in Request
  PROVE  /\ r.type = "COMPOSE" => r.to \in Seq(Name) /\ r.subject \in Text /\ r.body \in Text
         /\ r.type = "SEND_CHAT" => r.to \in Name /\ r.text \in Text
BY DEF Request, LoginReq, PlainReq, MailIdReq, ComposeReq, ChatReq

(* What is queued for a client stays a sequence of replies.                *)
LEMMA SentType ==
  ASSUME NetTypeOK, NEW c \in Conn, NEW msgs \in Seq(Reply)
  PROVE  Sent(c, msgs) \in [Conn -> Seq(Reply)]
<1>1. outq[c] \o msgs \in Seq(Reply)
  BY ConcatProperties DEF NetTypeOK
<1> QED
  BY <1>1 DEF Sent, NetTypeOK

LEMMA HeadType ==
  ASSUME NetTypeOK, NEW c \in Conn, inq[c] # <<>>
  PROVE  Head(inq[c]) \in Request /\ Tail(inq[c]) \in Seq(Request)
BY HeadTailProperties DEF NetTypeOK

(* The session under the iterator is a connection of the list.             *)
LEMMA CurrentType ==
  ASSUME ServerTypeOK, SessionTypeOK, NEW c, Current(c)
  PROVE  c \in Conn /\ cursor \in 1..Len(m_sessions) /\ InServer(c)
<1>1. Len(m_sessions) \in Nat /\ DOMAIN m_sessions = 1..Len(m_sessions)
  BY LenProperties DEF SessionTypeOK
<1>2. cursor \in 1..Len(m_sessions)
  BY <1>1 DEF Current, ServerTypeOK
<1>3. m_sessions[cursor] \in Conn
  BY <1>2, ElementOfSeq DEF SessionTypeOK
<1> QED
  BY <1>1, <1>2, <1>3 DEF Current, InServer

-----------------------------------------------------------------------------
(* Each kind of step keeps the types.                                      *)
LEMMA AnswerTypes ==
  ASSUME TypeOK, NEW c \in Conn, inq[c] # <<>>, NEW msgs \in Seq(Reply),
         Answer(c, msgs)
  PROVE  /\ ServerTypeOK' /\ NetTypeOK'
         /\ m_sessions' = m_sessions /\ m_socketfd' = m_socketfd
         /\ m_all_inbox' = m_all_inbox
<1>1. outq' \in [Conn -> Seq(Reply)]
  BY SentType DEF Answer, TypeOK
<1>2. inq' \in [Conn -> Seq(Request)]
  BY HeadType DEF Answer, TypeOK, NetTypeOK
<1>3. cursor' \in Nat \ {0}
  BY DEF Answer, TypeOK, ServerTypeOK
<1> QED
  BY <1>1, <1>2, <1>3 DEF Answer, TypeOK, ServerTypeOK, NetTypeOK

LEMMA AnswerOnlyTypes ==
  ASSUME TypeOK, NEW c \in Conn, inq[c] # <<>>, NEW msgs \in Seq(Reply),
         AnswerOnly(c, msgs)
  PROVE  TypeOK'
<1>1. ServerTypeOK' /\ NetTypeOK'
      /\ m_sessions' = m_sessions /\ m_socketfd' = m_socketfd
      /\ m_all_inbox' = m_all_inbox
  BY AnswerTypes DEF AnswerOnly
<1> QED
  BY <1>1 DEF AnswerOnly, TypeOK, SessionTypeOK, InboxTypeOK

LEMMA CloseTypes ==
  ASSUME TypeOK, NEW c \in Conn, CloseSession(c)
  PROVE  /\ m_loggedIn' \in [InboxId -> BOOLEAN]
         /\ m_session' \in [InboxId -> Conn \union {NoSession}]
         /\ m_inbox' \in [Conn -> InboxId \union {NoInbox}]
         /\ m_socketfd' \in [Conn -> (1..MaxFd) \union {SOCKET_INVALID_DEFAULT}]
         /\ sessionState' \in [Conn -> {"STATE_NON_AUTH", "STATE_LOGEDON"}]
         /\ inq' \in [Conn -> Seq(Request)]
         /\ peer' \in [Conn -> {"idle", "connected", "closed"}]
<1>1. m_loggedIn' \in [InboxId -> BOOLEAN]
  BY DEF CloseSession, LoginAfterClose, TypeOK, InboxTypeOK
<1>2. m_session' \in [InboxId -> Conn \union {NoSession}]
  BY DEF CloseSession, SessionAfterClose, TypeOK, InboxTypeOK
<1>3. /\ m_inbox' \in [Conn -> InboxId \union {NoInbox}]
      /\ m_socketfd' \in [Conn -> (1..MaxFd) \union {SOCKET_INVALID_DEFAULT}]
      /\ sessionState' \in [Conn -> {"STATE_NON_AUTH", "STATE_LOGEDON"}]
  BY DEF CloseSession, TypeOK, SessionTypeOK
<1>4. /\ inq' \in [Conn -> Seq(Request)]
      /\ peer' \in [Conn -> {"idle", "connected", "closed"}]
  BY DEF CloseSession, TypeOK, NetTypeOK
<1> QED
  BY <1>1, <1>2, <1>3, <1>4

LEMMA OnlineReplyType ==
  ASSUME TypeOK
  PROVE  OnlineReply \in Reply
<1>1. CASE \E i \in DOMAIN m_sessions : m_inbox[m_sessions[i]] = NoInbox
  BY <1>1, GeneralType DEF OnlineReply, Status
<1>2. CASE \A i \in DOMAIN m_sessions : m_inbox[m_sessions[i]] # NoInbox
  <2> DEFINE users == [i \in DOMAIN m_sessions |->
                         UserOf(m_inbox[m_sessions[i]]).user]
  <2>1. Len(m_sessions) \in Nat /\ DOMAIN m_sessions = 1..Len(m_sessions)
    BY LenProperties DEF TypeOK, SessionTypeOK
  <2>2. ASSUME NEW i \in 1..Len(m_sessions)
        PROVE  UserOf(m_inbox[m_sessions[i]]).user \in Name
    <3>1. m_sessions[i] \in Conn
      BY ElementOfSeq DEF TypeOK, SessionTypeOK
    <3>2. m_inbox[m_sessions[i]] \in InboxId
      BY <1>2, <2>1, <3>1 DEF TypeOK, SessionTypeOK
    <3> QED
      BY <3>2, InboxTypes
  <2>3. users \in Seq(Name)
    BY <2>1, <2>2
  <2>4. OnlineReply \in {OnlineRes(users), OnlineRes(<<>>)}
    BY <1>2 DEF OnlineReply
  <2> HIDE DEF users
  <2>5. ASSUME NEW names \in Seq(Name)
        PROVE  OnlineRes(names) \in Reply
    BY DEF OnlineRes, Reply
  <2>6. OnlineRes(users) \in Reply
    BY <2>3, <2>5
  <2>7. \A names : names = <<>> => names \in Seq(Name)
    OBVIOUS
  <2>8. OnlineRes(<<>>) \in Reply
    BY <2>5, <2>7
  <2> QED
    BY <2>4, <2>6, <2>8
<1> QED
  BY <1>1, <1>2

LEMMA ReadyType ==
  ASSUME TypeOK
  PROVE  ReadyFds \in SUBSET (SOCKET_INVALID_DEFAULT..MaxFd)
<1>1. \A i \in DOMAIN m_sessions :
        m_socketfd[m_sessions[i]] \in (1..MaxFd) \union {SOCKET_INVALID_DEFAULT}
  BY LenProperties, ElementOfSeq DEF TypeOK, SessionTypeOK
<1>2. (1..MaxFd) \union {SOCKET_INVALID_DEFAULT, Listener}
        \subseteq SOCKET_INVALID_DEFAULT..MaxFd
  BY BoundAssumption DEF SOCKET_INVALID_DEFAULT, Listener
<1> QED
  BY <1>1, <1>2 DEF ReadyFds, SessionFds

LEMMA EraseTypes ==
  ASSUME TypeOK, NEW c, Current(c), Erase
  PROVE  m_sessions' \in Seq(Conn)
<1>1. cursor \in 1..Len(m_sessions)
  BY CurrentType DEF TypeOK
<1>2. m_sessions \in Seq(Conn)
  BY DEF TypeOK, SessionTypeOK
<1> QED
  BY <1>1, <1>2, RemoveAtProperties DEF Erase

LEMMA ProcessEndsTypes ==
  ASSUME TypeOK, ProcessEnds
  PROVE  TypeOK'
<1>1. ServerTypeOK'
  BY DEF ProcessEnds, TypeOK, ServerTypeOK
<1>2. SessionTypeOK'
  BY DEF ProcessEnds, TypeOK, SessionTypeOK
<1>3. InboxTypeOK'
  BY DEF ProcessEnds, TypeOK, InboxTypeOK
<1>4. NetTypeOK'
  BY DEF ProcessEnds, TypeOK, NetTypeOK
<1> QED
  BY <1>1, <1>2, <1>3, <1>4 DEF TypeOK

(* The messages of the session handlers.                                   *)
LEMMA OneGeneral ==
  ASSUME NEW status \in Status
  PROVE  <<General(status)>> \in Seq(Reply)
BY GeneralType, OneMessage

LEMMA LoginStatusType ==
  ASSUME NEW r
  PROVE  LoginStatus(r) \in Status
BY DEF LoginStatus, Status

-----------------------------------------------------------------------------
(* The steps of one session keep the types; that a logged-in session has   *)
(* an inbox is what the handlers rely on when they use it.                 *)
LEMMA SessionStepTypes ==
  ASSUME TypeOK, LoggedInHasInbox, NEW c \in Conn, SessionStep(c)
  PROVE  TypeOK'
<1> DEFINE r == Head(inq[c])
<1>0. /\ inq[c] # <<>> => r \in Request
      /\ sessionState[c] = "STATE_LOGEDON" =>
           /\ m_inbox[c] \in InboxId
           /\ UserOf(m_inbox[c]).user \in Name
           /\ m_mails[m_inbox[c]] \in Seq(Mail)
  BY HeadType, InboxTypes DEF TypeOK, SessionTypeOK, InboxTypeOK, LoggedInHasInbox
<1>1. CASE SessionFailure(c)
  <2>1. m_sessions' \in Seq(Conn)
    BY <1>1, EraseTypes DEF SessionFailure
  <2>2. outq' \in [Conn -> Seq(Reply)]
    BY <1>1, OneGeneral, SentType DEF SessionFailure, Status, TypeOK
  <2> QED
    BY <1>1, <2>1, <2>2, CloseTypes
    DEF SessionFailure, TypeOK, ServerTypeOK, SessionTypeOK, InboxTypeOK,
        NetTypeOK, serverVars
<1>2. CASE SessionLogin(c)
  <2> DEFINE status == LoginStatus(r)
             k == IF r.type = "LOGIN" THEN GetInbox(r.user) ELSE NoInbox
  <2>1. TypeReplies(r) \o <<General(status)>> \in Seq(Reply)
    BY TypeRepliesType, LoginStatusType, OneGeneral, ConcatProperties
  <2>2. inq[c] # <<>> /\ Answer(c, TypeReplies(r) \o <<General(status)>>)
    BY <1>2 DEF SessionLogin, HasRequest
  <2>3. /\ ServerTypeOK' /\ NetTypeOK'
        /\ m_sessions' = m_sessions /\ m_socketfd' = m_socketfd
        /\ m_all_inbox' = m_all_inbox
    <3> HIDE DEF status
    <3> QED
      BY <2>1, <2>2, AnswerTypes
  <2>4. k \in InboxId \union {NoInbox}
    BY GetInboxType DEF TypeOK, InboxTypeOK
  <2>5. /\ m_inbox' \in [Conn -> InboxId \union {NoInbox}]
        /\ sessionState' \in [Conn -> {"STATE_NON_AUTH", "STATE_LOGEDON"}]
        /\ m_loggedIn' \in [InboxId -> BOOLEAN]
        /\ m_session' \in [InboxId -> Conn \union {NoSession}]
    <3>1. CASE status = "SUCCESS"
      <4>1. /\ m_inbox' = [m_inbox EXCEPT ![c] = k]
            /\ m_loggedIn' = [m_loggedIn EXCEPT ![k] = TRUE]
            /\ m_session' = [m_session EXCEPT ![k] = c]
            /\ sessionState' = [sessionState EXCEPT ![c] = "STATE_LOGEDON"]
        BY <1>2, <3>1 DEF SessionLogin
      <4> HIDE DEF k, status
      <4> QED
        BY <2>4, <4>1 DEF TypeOK, SessionTypeOK, InboxTypeOK
    <3>2. CASE status # "SUCCESS"
      BY <1>2, <3>2 DEF SessionLogin, TypeOK, SessionTypeOK, InboxTypeOK
    <3> QED
      BY <3>1, <3>2
  <2> QED
    BY <1>2, <2>3, <2>5 DEF SessionLogin, TypeOK, SessionTypeOK, InboxTypeOK
<1>3. CASE InvalidRequest(c)
  <2>1. TypeReplies(r) \o <<General("UNVALID_MESSAGE")>> \in Seq(Reply)
    BY TypeRepliesType, OneGeneral, ConcatProperties DEF Status
  <2> QED
    BY <1>3, <2>1, AnswerOnlyTypes DEF InvalidRequest, HasRequest
<1>4. CASE ShowInbox(c)
  BY <1>0, <1>4, InboxRepliesType, AnswerOnlyTypes DEF ShowInbox, HasRequest
<1>5. CASE GetMail(c)
  <2>1. <<MailReply(m_mails[m_inbox[c]], r.id)>> \in Seq(Reply)
    BY <1>0, <1>5, MailReplyType, OneMessage DEF GetMail, HasRequest
  <2> QED
    BY <1>5, <2>1, AnswerOnlyTypes DEF GetMail, HasRequest
<1>6. CASE DeleteMail(c)
  <2> DEFINE k == m_inbox[c]
             mails == m_mails[k]
  <2>1. k \in InboxId /\ mails \in Seq(Mail) /\ inq[c] # <<>>
    BY <1>0, <1>6 DEF DeleteMail, HasRequest
  <2>2. DeleteStatus(mails, r.id) \in Status
    BY DEF DeleteStatus, Status
  <2>3. /\ ServerTypeOK' /\ NetTypeOK'
        /\ m_sessions' = m_sessions /\ m_socketfd' = m_socketfd
        /\ m_all_inbox' = m_all_inbox
    BY <1>6, <2>1, <2>2, OneGeneral, AnswerTypes DEF DeleteMail
  <2>4. RemoveMail(mails, r.id) \in Seq(Mail)
    BY <2>1, RemoveMailType
  <2>5. m_mails' \in [InboxId -> Seq(Mail)]
    BY <1>6, <2>1, <2>4 DEF DeleteMail, TypeOK, InboxTypeOK
  <2> QED
    BY <1>6, <2>3, <2>5 DEF DeleteMail, TypeOK, SessionTypeOK, InboxTypeOK
<1>7. CASE Compose(c)
  <2>1. /\ inq[c] # <<>> /\ UserOf(m_inbox[c]).user \in Name
        /\ r.to \in Seq(Name) /\ r.subject \in Text /\ r.body \in Text
    BY <1>0, <1>7, RequestFields DEF Compose, HasRequest
  <2>2. m_mails' \in [InboxId -> Seq(Mail)] /\ m_idOfLastMail' \in [InboxId -> Nat]
    BY <1>7, <2>1, AddMailsType DEF Compose, TypeOK
  <2>3. /\ ServerTypeOK' /\ NetTypeOK'
        /\ m_sessions' = m_sessions /\ m_socketfd' = m_socketfd
        /\ m_all_inbox' = m_all_inbox
    BY <1>7, <2>1, OneGeneral, AnswerTypes DEF Compose, Status
  <2> QED
    BY <1>7, <2>2, <2>3 DEF Compose, TypeOK, SessionTypeOK, InboxTypeOK
<1>8. CASE Quit(c)
  <2>1. m_sessions' \in Seq(Conn)
    BY <1>8, EraseTypes DEF Quit, HasRequest
  <2> QED
    BY <1>8, <2>1, CloseTypes
    DEF Quit, TypeOK, ServerTypeOK, SessionTypeOK, InboxTypeOK, NetTypeOK,
        serverVars
<1>9. CASE ShowOnlineUsers(c)
  <2>1. <<OnlineReply>> \in Seq(Reply)
    BY OnlineReplyType, OneMessage
  <2> QED
    BY <1>9, <2>1, AnswerOnlyTypes DEF ShowOnlineUsers, HasRequest
<1>10. CASE ChatUnknownUser(c)
  BY <1>10, OneGeneral, AnswerOnlyTypes DEF ChatUnknownUser, HasRequest, Status
<1>11. CASE ChatTooLong(c)
  BY <1>11, OneGeneral, AnswerOnlyTypes DEF ChatTooLong, HasRequest, Status
<1>12. CASE ChatOnline(c)
  <2> DEFINE k == GetInbox(r.to)
             f == [from |-> c, to |-> m_session[k],
                   chat |-> ChatMessage(UserOf(m_inbox[c]).user, r.text)]
  <2>1. /\ inq[c] # <<>> /\ UserOf(m_inbox[c]).user \in Name
        /\ r.to \in Name /\ r.text \in Text
    BY <1>0, <1>12, RequestFields DEF ChatOnline, HasRequest
  <2>2. k \in InboxId /\ m_session[k] \in Conn
    BY <1>12, GetInboxType DEF ChatOnline, Online, TypeOK, InboxTypeOK
  <2>3. f \in [from : Conn, to : Conn, chat : Chat]
    BY <2>1, <2>2 DEF ChatMessage, Chat
  <2>4. forward' = <<f>>
    BY <1>12 DEF ChatOnline
  <2>5. outq' \in [Conn -> Seq(Reply)]
    BY <1>12, OneGeneral, SentType DEF ChatOnline, Status, TypeOK
  <2>6. inq' \in [Conn -> Seq(Request)]
    BY <1>12, <2>1, HeadType DEF ChatOnline, TypeOK, NetTypeOK
  <2> HIDE DEF f
  <2>7. forward' \in Seq([from : Conn, to : Conn, chat : Chat])
    BY <2>3, <2>4, OneMessage
  <2> QED
    BY <1>12, <2>5, <2>6, <2>7
    DEF ChatOnline, TypeOK, ServerTypeOK, SessionTypeOK, InboxTypeOK, NetTypeOK,
        sessionVars, inboxVars
<1>13. CASE ChatOffline(c)
  <2>1. /\ inq[c] # <<>> /\ UserOf(m_inbox[c]).user \in Name
        /\ r.to \in Name /\ r.text \in Text
    BY <1>0, <1>13, RequestFields DEF ChatOffline, HasRequest
  <2>2. <<r.to>> \in Seq(Name)
    BY <2>1, OneMessage
  <2>3. m_mails' \in [InboxId -> Seq(Mail)] /\ m_idOfLastMail' \in [InboxId -> Nat]
    BY <1>13, <2>1, <2>2, AddMailsType DEF ChatOffline, TypeOK
  <2>4. /\ ServerTypeOK' /\ NetTypeOK'
        /\ m_sessions' = m_sessions /\ m_socketfd' = m_socketfd
        /\ m_all_inbox' = m_all_inbox
    BY <1>13, <2>1, OneGeneral, AnswerTypes DEF ChatOffline, Status
  <2> QED
    BY <1>13, <2>3, <2>4 DEF ChatOffline, TypeOK, SessionTypeOK, InboxTypeOK
<1>14. CASE RecvUndefined(c)
  BY <1>14, ProcessEndsTypes DEF RecvUndefined
<1> QED
  BY <1>1, <1>2, <1>3, <1>4, <1>5, <1>6, <1>7, <1>8, <1>9, <1>10, <1>11,
     <1>12, <1>13, <1>14 DEF SessionStep

-----------------------------------------------------------------------------
(* So does every other step.                                               *)
LEMMA ForwardType ==
  ASSUME ServerTypeOK, forward # <<>>
  PROVE  /\ Head(forward).from \in Conn /\ Head(forward).to \in Conn
         /\ <<Head(forward).chat>> \in Seq(Reply)
<1>1. Head(forward) \in [from : Conn, to : Conn, chat : Chat]
  BY HeadTailProperties DEF ServerTypeOK
<1>2. Head(forward).chat \in Reply
  BY <1>1 DEF Reply
<1> QED
  BY <1>1, <1>2, OneMessage

(* Joining the session list.                                               *)
LEMMA AcceptTypes ==
  ASSUME TypeOK, Accept
  PROVE  TypeOK'
<1> DEFINE c == Head(backlog)
<1>1. c \in Conn /\ Tail(backlog) \in Seq(Conn)
  BY HeadTailProperties DEF Accept, TypeOK, NetTypeOK
<1>2. outq' \in [Conn -> Seq(Reply)]
  <2>1. <<Welcome>> \in Seq(Reply)
    BY WelcomeType, OneMessage
  <2>2. outq' = Sent(c, <<Welcome>>)
    BY DEF Accept
  <2> QED
    BY <1>1, <2>1, <2>2, SentType DEF TypeOK
<1>3. m_socketfd' \in [Conn -> (1..MaxFd) \union {SOCKET_INVALID_DEFAULT}]
  BY <1>1 DEF Accept, FreeFds, TypeOK, SessionTypeOK
<1>4. /\ sessionState' \in [Conn -> {"STATE_NON_AUTH", "STATE_LOGEDON"}]
      /\ m_inbox' \in [Conn -> InboxId \union {NoInbox}]
  BY <1>1 DEF Accept, TypeOK, SessionTypeOK
<1>5. m_sessions' \in Seq(Conn)
  BY <1>1, AppendProperties DEF Accept, TypeOK, SessionTypeOK
<1>6. ServerTypeOK' /\ InboxTypeOK'
  BY DEF Accept, TypeOK, ServerTypeOK, InboxTypeOK, inboxVars
<1>7. SessionTypeOK'
  BY <1>3, <1>4, <1>5 DEF SessionTypeOK
<1>8. NetTypeOK'
  <2>1. backlog' = Tail(backlog) /\ UNCHANGED <<peer, inq>>
    BY DEF Accept
  <2> QED
    BY <1>1, <1>2, <2>1 DEF TypeOK, NetTypeOK
<1> QED
  BY <1>6, <1>7, <1>8 DEF TypeOK

(* Sending a chat on.                                                      *)
LEMMA ForwardTypes ==
  ASSUME TypeOK, ForwardChat \/ ForwardFails
  PROVE  TypeOK'
<1>1. ForwardDone /\ forward # <<>>
  BY DEF ForwardChat, ForwardFails
<1>2. outq' \in [Conn -> Seq(Reply)]
  <2>1. CASE ForwardChat
    <3>1. outq' = Sent(Head(forward).to, <<Head(forward).chat>>)
      BY <2>1 DEF ForwardChat
    <3> QED
      BY <1>1, <3>1, ForwardType, SentType DEF TypeOK
  <2>2. CASE ForwardFails
    <3>1. outq' = Sent(Head(forward).from, <<General("INTERNAL_FAILURE")>>)
      BY <2>2 DEF ForwardFails
    <3>2. <<General("INTERNAL_FAILURE")>> \in Seq(Reply)
      BY OneGeneral DEF Status
    <3> QED
      BY <1>1, <3>1, <3>2, ForwardType, SentType DEF TypeOK
  <2> QED
    BY <2>1, <2>2
<1>3. ServerTypeOK'
  BY <1>1 DEF ForwardDone, TypeOK, ServerTypeOK
<1> QED
  BY <1>1, <1>2, <1>3
  DEF ForwardDone, TypeOK, SessionTypeOK, InboxTypeOK, NetTypeOK, sessionVars,
      inboxVars

LEMMA LoopStepTypes ==
  ASSUME TypeOK,
         \/ LoadUsersFromFile \/ Start \/ MainReturns \/ Select
         \/ NoNewConnection \/ Accept \/ AcceptFails \/ ScanSkip \/ ScanEnd
         \/ ForwardChat \/ ForwardFails \/ DestroySession \/ DestroyInboxes
         \/ ProcessExit
  PROVE  TypeOK'
<1>1. CASE LoadUsersFromFile \/ DestroyInboxes
  BY <1>1
  DEF LoadUsersFromFile, DestroyInboxes, TypeOK, ServerTypeOK, SessionTypeOK,
      InboxTypeOK, NetTypeOK, serverVars, sessionVars, netVars
<1>2. CASE \/ Start \/ MainReturns \/ NoNewConnection \/ AcceptFails
           \/ ScanSkip \/ ScanEnd
  <2>1. ServerTypeOK'
    BY <1>2 DEF Start, MainReturns, NoNewConnection, AcceptFails, ScanSkip,
                ScanEnd, TypeOK, ServerTypeOK
  <2>2. UNCHANGED <<sessionVars, inboxVars, netVars>>
    BY <1>2 DEF Start, MainReturns, NoNewConnection, AcceptFails, ScanSkip,
                ScanEnd
  <2> QED
    BY <2>1, <2>2 DEF TypeOK, SessionTypeOK, InboxTypeOK, NetTypeOK,
                      sessionVars, inboxVars, netVars
<1>3. CASE Select
  BY <1>3, ReadyType
  DEF Select, TypeOK, ServerTypeOK, SessionTypeOK, InboxTypeOK, NetTypeOK,
      sessionVars, inboxVars, netVars
<1>4. CASE DestroySession
  <2>1. Last(m_sessions) \in Conn /\ Front(m_sessions) \in Seq(Conn)
    BY <1>4, FrontProperties DEF DestroySession, TypeOK, SessionTypeOK
  <2> QED
    BY <1>4, <2>1, CloseTypes
    DEF DestroySession, TypeOK, ServerTypeOK, SessionTypeOK, InboxTypeOK,
        NetTypeOK, serverVars
<1> QED
  BY <1>1, <1>2, <1>3, <1>4, AcceptTypes, ForwardTypes, ProcessEndsTypes
  DEF ProcessExit

LEMMA ClientStepTypes ==
  ASSUME TypeOK, NEW c \in Conn, ClientStep(c)
  PROVE  TypeOK'
<1> USE DEF TypeOK, ServerTypeOK, SessionTypeOK, InboxTypeOK, NetTypeOK,
            serverVars, sessionVars, inboxVars, netVars
<1>1. CASE Connect(c)
  BY <1>1 DEF Connect
<1>2. CASE Receive(c)
  <2>1. Tail(outq[c]) \in Seq(Reply)
    BY <1>2, HeadTailProperties DEF Receive
  <2> QED
    BY <1>2, <2>1 DEF Receive
<1>3. CASE Disconnect(c)
  BY <1>3 DEF Disconnect
<1>4. ASSUME NEW r \in ClientRequests, Send(c, r)
      PROVE  TypeOK'
  <2>1. Append(inq[c], r) \in Seq(Request)
    BY RequestAssumption, AppendProperties
  <2> QED
    BY <1>4, <2>1 DEF Send
<1>5. ASSUME NEW r \in ClientRequests, FinishFrame(c, r)
      PROVE  TypeOK'
  <2>1. Append(Front(inq[c]), r) \in Seq(Request)
    BY <1>5, RequestAssumption, FrontProperties, AppendProperties DEF FinishFrame, BegunOnly
  <2> QED
    BY <1>5, <2>1 DEF FinishFrame
<1> QED
  BY <1>1, <1>2, <1>3, <1>4, <1>5 DEF ClientStep

LEMMA TypeStep ==
  ASSUME TypeOK, LoggedInHasInbox, [Next]_vars
  PROVE  TypeOK'
<1>1. CASE \E c \in Conn : SessionStep(c)
  BY <1>1, SessionStepTypes
<1>2. CASE ServerStep /\ ~ \E c \in Conn : SessionStep(c)
  BY <1>2, LoopStepTypes DEF ServerStep
<1>3. CASE \E c \in Conn : ClientStep(c)
  BY <1>3, ClientStepTypes
<1>4. CASE UNCHANGED vars
  BY <1>4 DEF vars, serverVars, sessionVars, inboxVars, netVars, TypeOK,
              ServerTypeOK, SessionTypeOK, InboxTypeOK, NetTypeOK
<1> QED
  BY <1>1, <1>2, <1>3, <1>4 DEF Next, Terminated

-----------------------------------------------------------------------------
(* The pointers between sessions and inboxes, step by kind of step.        *)
PointersOK ==
    SessionInboxAgree /\ InboxesLive /\ SessionsLive /\ InboxIsFirst

PointerDefs ==
    <<sessionState, m_inbox, m_loggedIn, m_session, m_all_inbox>>

(* The lookup of a name depends on the list of inboxes only.               *)
LEMMA GetInboxSame ==
  ASSUME m_all_inbox' = m_all_inbox, NEW k
  PROVE  GetInbox(UserOf(k).user)' = GetInbox(UserOf(k).user)
BY DEF GetInbox, UserOf

(* Steps that leave the pointers alone and drop no session.                *)
LEMMA PointersKept ==
  ASSUME PointersOK, UNCHANGED PointerDefs, TypeOK,
         \A d \in Conn : InServer(d) => InServer(d)'
  PROVE  PointersOK'
<1>1. SessionInboxAgree'
  BY DEF PointersOK, PointerDefs, SessionInboxAgree, LoggedInHasInbox,
         InboxPointsBack, SessionPointsBack, LoggedInFlag
<1>2. InboxesLive'
  BY DEF PointersOK, PointerDefs, InboxesLive
<1>3. SessionsLive'
  BY DEF PointersOK, PointerDefs, SessionsLive, TypeOK, InboxTypeOK
<1>4. InboxIsFirst'
  BY GetInboxSame DEF PointersOK, PointerDefs, InboxIsFirst
<1> QED
  BY <1>1, <1>2, <1>3, <1>4 DEF PointersOK

(* Closing a session frees its inbox, and only that one.                   *)
LEMMA PointersClosed ==
  ASSUME PointersOK, TypeOK, NEW c \in Conn, CloseSession(c),
         m_all_inbox' = m_all_inbox,
         \A d \in Conn : d # c /\ InServer(d) => InServer(d)'
  PROVE  PointersOK'
<1>1. /\ m_inbox' = [m_inbox EXCEPT ![c] = NoInbox]
      /\ sessionState' = [sessionState EXCEPT ![c] = "STATE_NON_AUTH"]
      /\ \A k \in InboxId :
           /\ m_loggedIn'[k] = IF k = m_inbox[c] THEN FALSE ELSE m_loggedIn[k]
           /\ m_session'[k] = IF k = m_inbox[c] THEN NoSession ELSE m_session[k]
  <2>1. NoInbox \notin InboxId
    BY InboxTypes
  <2> QED
    BY <2>1 DEF CloseSession, LoginAfterClose, SessionAfterClose, TypeOK, InboxTypeOK
<1>2. \A k \in InboxId : m_session'[k] # NoSession =>
        /\ m_session'[k] = m_session[k]
        /\ m_session[k] \in Conn \ {c}
  BY ZenonT(60), <1>1 DEF PointersOK, SessionInboxAgree, SessionPointsBack, TypeOK, InboxTypeOK
<1>3. LoggedInHasInbox' /\ InboxPointsBack'
  <2>1. ASSUME NEW d \in Conn, m_inbox'[d] # NoInbox
        PROVE  m_session'[m_inbox'[d]] = d
    <3>1. d # c /\ m_inbox'[d] = m_inbox[d]
      BY <1>1, <2>1 DEF TypeOK, SessionTypeOK
    <3>2. m_inbox[d] \in InboxId /\ m_session[m_inbox[d]] = d
      BY <2>1, <3>1
      DEF PointersOK, SessionInboxAgree, InboxPointsBack, TypeOK, SessionTypeOK
    <3>3. m_inbox[d] # m_inbox[c]
      BY <2>1, <3>1, <3>2 DEF PointersOK, SessionInboxAgree, InboxPointsBack
    <3> QED
      BY <1>1, <3>1, <3>2, <3>3
  <2>2. LoggedInHasInbox'
    BY <1>1 DEF PointersOK, SessionInboxAgree, LoggedInHasInbox, TypeOK, SessionTypeOK
  <2> QED
    BY <2>1, <2>2 DEF InboxPointsBack
<1>4. SessionPointsBack'
  BY <1>1, <1>2 DEF PointersOK, SessionInboxAgree, SessionPointsBack, TypeOK, SessionTypeOK
<1>5. LoggedInFlag'
  BY <1>1 DEF PointersOK, SessionInboxAgree, LoggedInFlag
<1>6. InboxesLive'
  BY <1>1 DEF PointersOK, InboxesLive, TypeOK, SessionTypeOK
<1>7. SessionsLive'
  BY <1>2 DEF PointersOK, SessionsLive
<1>8. InboxIsFirst'
  BY <1>2, GetInboxSame DEF PointersOK, InboxIsFirst
<1> QED
  BY <1>3, <1>4, <1>5, <1>6, <1>7, <1>8 DEF PointersOK, SessionInboxAgree

(* A successful login points a session without an inbox and a free inbox   *)
(* at each other.                                                          *)
LEMMA PointersPaired ==
  ASSUME PointersOK, TypeOK, NEW c \in Conn, SessionLogin(c)
  PROVE  PointersOK'
<1> DEFINE r == Head(inq[c])
           status == LoginStatus(r)
           k == IF r.type = "LOGIN" THEN GetInbox(r.user) ELSE NoInbox
<1>1. /\ m_sessions' = m_sessions /\ m_all_inbox' = m_all_inbox
      /\ InServer(c)
      /\ sessionState[c] = "STATE_NON_AUTH"
  BY CurrentType DEF SessionLogin, Answer, HasRequest, TypeOK
<1>2. \A d \in Conn : InServer(d)' <=> InServer(d)
  BY <1>1 DEF InServer
<1>3. CASE status # "SUCCESS"
  BY <1>1, <1>2, <1>3, PointersKept DEF SessionLogin, PointerDefs
<1>4. CASE status = "SUCCESS"
  <2>1. /\ m_inbox' = [m_inbox EXCEPT ![c] = k]
        /\ m_loggedIn' = [m_loggedIn EXCEPT ![k] = TRUE]
        /\ m_session' = [m_session EXCEPT ![k] = c]
        /\ sessionState' = [sessionState EXCEPT ![c] = "STATE_LOGEDON"]
    BY <1>4 DEF SessionLogin
  <2>2. r.type = "LOGIN" /\ k = GetInbox(r.user) /\ k # NoInbox /\ ~m_loggedIn[k]
    BY <1>4 DEF LoginStatus
  <2>3. k \in m_all_inbox /\ k \in InboxId /\ UserOf(k).user = r.user
    BY <2>2, GetInboxLive DEF TypeOK, InboxTypeOK
  <2>4. GetInbox(UserOf(k).user) = k
    BY <2>2, <2>3
  <2>5. m_session[k] = NoSession /\ m_inbox[c] = NoInbox
    BY <1>1, <2>2, <2>3
    DEF PointersOK, SessionInboxAgree, LoggedInFlag, LoggedInHasInbox
  <2>6. \A d \in Conn : m_inbox[d] # k
    BY <2>2, <2>5, SessionAssumption
    DEF PointersOK, SessionInboxAgree, InboxPointsBack
  <2>7. \A j \in InboxId : m_session[j] # c
    BY <2>5, InboxTypes, SessionAssumption
    DEF PointersOK, SessionInboxAgree, SessionPointsBack
  <2> HIDE DEF k, status, r
  <2>8. LoggedInHasInbox' /\ InboxPointsBack' /\ InboxesLive'
    BY <1>1, <2>1, <2>2, <2>3, <2>6
    DEF PointersOK, SessionInboxAgree, LoggedInHasInbox, InboxPointsBack,
        InboxesLive, TypeOK, SessionTypeOK, InboxTypeOK
  <2>9. SessionPointsBack' /\ LoggedInFlag'
    BY <2>1, <2>3, <2>7, SessionAssumption
    DEF PointersOK, SessionInboxAgree, SessionPointsBack, LoggedInFlag,
        TypeOK, SessionTypeOK, InboxTypeOK
  <2>10. SessionsLive'
    BY <1>1, <1>2, <2>1, <2>3 DEF PointersOK, SessionsLive, TypeOK, InboxTypeOK
  <2>11. \A j \in InboxId : GetInbox(UserOf(j).user)' = GetInbox(UserOf(j).user)
    BY <1>1, GetInboxSame
  <2>12. InboxIsFirst'
    BY <2>1, <2>3, <2>4, <2>11 DEF PointersOK, InboxIsFirst, TypeOK, InboxTypeOK
  <2> QED
    BY <2>8, <2>9, <2>10, <2>12 DEF PointersOK, SessionInboxAgree
<1> QED
  BY <1>3, <1>4

-----------------------------------------------------------------------------
(* How the session list changes.                                           *)
LEMMA SessionsSame ==
  ASSUME m_sessions' = m_sessions
  PROVE  \A d : InServer(d)' <=> InServer(d)
BY DEF InServer

(* erase takes the current session off the list; the others stay.          *)
LEMMA SessionsErased ==
  ASSUME TypeOK, NEW c, Current(c), Erase
  PROVE  /\ \A d : d # c /\ InServer(d) => InServer(d)'
         /\ \A d : InServer(d)' => InServer(d)
<1>1. cursor \in 1..Len(m_sessions) /\ m_sessions[cursor] = c
      /\ m_sessions \in Seq(Conn) /\ m_sessions' = RemoveAt(m_sessions, cursor)
  BY CurrentType DEF Current, Erase, TypeOK, SessionTypeOK
<1>2. DOMAIN m_sessions = 1..Len(m_sessions)
      /\ DOMAIN m_sessions' = 1..Len(m_sessions')
  BY <1>1, EraseTypes, LenProperties
<1>3. /\ \A j \in 1..Len(m_sessions) : j # cursor =>
           \E h \in 1..Len(m_sessions') : m_sessions'[h] = m_sessions[j]
      /\ \A h \in 1..Len(m_sessions') :
           \E j \in 1..Len(m_sessions) : m_sessions'[h] = m_sessions[j]
  BY ZenonT(60), <1>1, RemoveAtKeeps
<1>4. ASSUME NEW d, d # c, InServer(d)
      PROVE  InServer(d)'
  <2>1. PICK j \in 1..Len(m_sessions) : m_sessions[j] = d
    BY <1>2, <1>4 DEF InServer
  <2>2. j # cursor
    BY <1>1, <1>4, <2>1
  <2>3. \E h \in 1..Len(m_sessions') : m_sessions'[h] = d
    BY <1>3, <2>1, <2>2
  <2> QED
    BY <1>2, <2>3 DEF InServer
<1>5. ASSUME NEW d, InServer(d)'
      PROVE  InServer(d)
  BY <1>2, <1>3, <1>5 DEF InServer
<1> QED
  BY <1>4, <1>5

(* pop_back in clearSessionList takes the last one.                        *)
LEMMA SessionsPopped ==
  ASSUME TypeOK, m_sessions # <<>>, m_sessions' = Front(m_sessions)
  PROVE  /\ \A d : d # Last(m_sessions) /\ InServer(d) => InServer(d)'
         /\ \A d : InServer(d)' => InServer(d)
<1>1. m_sessions \in Seq(Conn)
  BY DEF TypeOK, SessionTypeOK
<1>2. /\ Len(m_sessions) \in Nat \ {0}
      /\ m_sessions' \in Seq(Conn)
      /\ Len(m_sessions') = Len(m_sessions) - 1
      /\ \A j \in 1..(Len(m_sessions) - 1) : m_sessions'[j] = m_sessions[j]
  BY <1>1, FrontProperties
<1>3. DOMAIN m_sessions = 1..Len(m_sessions)
      /\ DOMAIN m_sessions' = 1..(Len(m_sessions) - 1)
  BY <1>1, <1>2, LenProperties
<1>4. \A j \in 1..Len(m_sessions) :
        j \in 1..(Len(m_sessions) - 1) \/ m_sessions[j] = Last(m_sessions)
  BY <1>2 DEF Last
<1>5. 1..(Len(m_sessions) - 1) \subseteq 1..Len(m_sessions)
  BY <1>2
<1> QED
  BY <1>2, <1>3, <1>4, <1>5 DEF InServer

(* push_back in start adds one.                                            *)
LEMMA SessionsAppended ==
  ASSUME TypeOK, NEW c \in Conn, m_sessions' = Append(m_sessions, c)
  PROVE  /\ \A d : InServer(d) => InServer(d)'
         /\ \A d : InServer(d)' => InServer(d) \/ d = c
<1>1. m_sessions \in Seq(Conn)
  BY DEF TypeOK, SessionTypeOK
<1>2. /\ DOMAIN m_sessions = 1..Len(m_sessions)
      /\ DOMAIN m_sessions' = 1..(Len(m_sessions) + 1)
      /\ Len(m_sessions) \in Nat
      /\ \A i \in 1..Len(m_sessions) : m_sessions'[i] = m_sessions[i]
      /\ m_sessions'[Len(m_sessions) + 1] = c
  BY <1>1, LenProperties, AppendProperties
<1>3. \A j \in 1..(Len(m_sessions) + 1) :
        j \in 1..Len(m_sessions) \/ j = Len(m_sessions) + 1
  BY <1>2
<1>4. 1..Len(m_sessions) \subseteq 1..(Len(m_sessions) + 1)
  BY <1>2
<1> QED
  BY <1>2, <1>3, <1>4 DEF InServer

-----------------------------------------------------------------------------
(* What remains of the inductive invariant once the pointers are settled.  *)
RestOK == ForwardLive /\ BacklogWaits /\ UsersLoadedOnce /\ ForwardInScan

(* Steps with no chat pending before or after that add nobody to a list.   *)
LEMMA RestKept ==
  ASSUME RestOK, forward = <<>>, forward' = <<>>, backlog' = backlog,
         \A d : InServer(d)' => InServer(d),
         serverState' = "SERVER_INITIATED" =>
           serverState = "SERVER_INITIATED" /\ m_all_inbox' = m_all_inbox
  PROVE  RestOK'
BY DEF RestOK, ForwardLive, BacklogWaits, UsersLoadedOnce, ForwardInScan

(* When the process ends every object is gone.                             *)
LEMMA EndsInv ==
  ASSUME ProcessEnds
  PROVE  PointersOK' /\ RestOK'
<1>1. SessionInboxAgree'
  BY DEF ProcessEnds, SessionInboxAgree, LoggedInHasInbox, InboxPointsBack,
         SessionPointsBack, LoggedInFlag
<1>2. InboxesLive' /\ SessionsLive' /\ InboxIsFirst'
  BY DEF ProcessEnds, InboxesLive, SessionsLive, InboxIsFirst
<1>3. RestOK'
  BY DEF ProcessEnds, RestOK, ForwardLive, BacklogWaits, UsersLoadedOnce,
         ForwardInScan
<1> QED
  BY <1>1, <1>2, <1>3 DEF PointersOK

(* A session is served only while no chat is pending.                      *)
LEMMA CurrentQuiet ==
  ASSUME NEW c, Current(c)
  PROVE  pc = "scan" /\ forward = <<>>
BY DEF Current, Scanning

(* A step that answers and leaves the pointers alone keeps both.           *)
LEMMA AnswerInv ==
  ASSUME TypeOK, PointersOK, RestOK, NEW c \in Conn, NEW msgs, Current(c),
         Answer(c, msgs), UNCHANGED <<sessionState, m_inbox, m_loggedIn, m_session>>
  PROVE  PointersOK' /\ RestOK'
<1>1. /\ m_sessions' = m_sessions /\ m_all_inbox' = m_all_inbox
      /\ forward' = forward /\ backlog' = backlog
      /\ serverState' = serverState
  BY DEF Answer
<1>2. \A d : InServer(d)' <=> InServer(d)
  BY <1>1, SessionsSame
<1>3. PointersOK'
  BY <1>1, <1>2, PointersKept DEF PointerDefs
<1>4. RestOK'
  BY <1>1, <1>2, CurrentQuiet, RestKept
<1> QED
  BY <1>3, <1>4

(* Steps of one session.                                                   *)
LEMMA SessionStepInv ==
  ASSUME TypeOK, PointersOK, RestOK, NEW c \in Conn, SessionStep(c)
  PROVE  PointersOK' /\ RestOK'
<1>1. CASE SessionFailure(c) \/ Quit(c)
  <2>1. Current(c) /\ CloseSession(c) /\ Erase
        /\ UNCHANGED <<serverVars, m_all_inbox, backlog>>
    BY <1>1 DEF SessionFailure, Quit, HasRequest
  <2>2. /\ \A d : d # c /\ InServer(d) => InServer(d)'
        /\ \A d : InServer(d)' => InServer(d)
    BY <2>1, SessionsErased
  <2>3. PointersOK'
    BY <2>1, <2>2, PointersClosed
  <2>4. RestOK'
    BY <2>1, <2>2, CurrentQuiet, RestKept DEF serverVars
  <2> QED
    BY <2>3, <2>4
<1>2. CASE SessionLogin(c)
  <2>1. Current(c) /\ m_sessions' = m_sessions /\ m_all_inbox' = m_all_inbox
        /\ forward' = forward /\ backlog' = backlog /\ serverState' = serverState
    BY <1>2 DEF SessionLogin, HasRequest, Answer
  <2>2. RestOK'
    BY <2>1, SessionsSame, CurrentQuiet, RestKept
  <2> QED
    BY <1>2, <2>2, PointersPaired
<1>3. CASE \/ InvalidRequest(c) \/ ShowInbox(c) \/ GetMail(c)
           \/ ShowOnlineUsers(c) \/ ChatUnknownUser(c) \/ ChatTooLong(c)
  <2>1. Current(c) /\ \E msgs : AnswerOnly(c, msgs)
    BY <1>3 DEF InvalidRequest, ShowInbox, GetMail, ShowOnlineUsers,
                ChatUnknownUser, ChatTooLong, HasRequest
  <2> QED
    BY <2>1, AnswerInv DEF AnswerOnly
<1>4. CASE DeleteMail(c) \/ Compose(c) \/ ChatOffline(c)
  <2>1. Current(c) /\ UNCHANGED <<sessionState, m_inbox, m_loggedIn, m_session>>
    BY <1>4 DEF DeleteMail, Compose, ChatOffline, HasRequest
  <2>2. \E msgs : Answer(c, msgs)
    BY <1>4 DEF DeleteMail, Compose, ChatOffline
  <2> QED
    BY <2>1, <2>2, AnswerInv
<1>5. CASE ChatOnline(c)
  <2> DEFINE k == GetInbox(Head(inq[c]).to)
             f == [from |-> c, to |-> m_session[k],
                   chat |-> ChatMessage(UserOf(m_inbox[c]).user, Head(inq[c]).text)]
  <2>1. /\ Current(c)
        /\ UNCHANGED <<serverState, pc, sessionVars, inboxVars, backlog>>
        /\ k # NoInbox /\ m_session[k] # NoSession
        /\ forward' = <<f>>
    BY <1>5 DEF ChatOnline, HasRequest, Online
  <2>2. k \in InboxId
    BY <2>1, GetInboxType DEF TypeOK, InboxTypeOK
  <2>3. InServer(c) /\ InServer(m_session[k])
    BY <2>1, <2>2, CurrentType DEF PointersOK, SessionsLive, TypeOK
  <2>4. \A d : InServer(d)' <=> InServer(d)
    BY <2>1, SessionsSame DEF sessionVars
  <2>5. PointersOK'
    BY <2>1, <2>4, PointersKept DEF PointerDefs, sessionVars, inboxVars
  <2>6. ForwardLive'
    <3>1. \A i \in DOMAIN forward' :
            forward'[i].from = c /\ forward'[i].to = m_session[k]
      BY <2>1
    <3> QED
      BY <2>3, <2>4, <3>1 DEF ForwardLive
  <2>7. BacklogWaits' /\ UsersLoadedOnce' /\ ForwardInScan'
    BY <2>1, <2>4, CurrentQuiet
    DEF RestOK, BacklogWaits, UsersLoadedOnce, ForwardInScan, inboxVars
  <2> QED
    BY <2>5, <2>6, <2>7 DEF RestOK
<1>6. CASE RecvUndefined(c)
  BY <1>6, EndsInv DEF RecvUndefined
<1> QED
  BY <1>1, <1>2, <1>3, <1>4, <1>5, <1>6 DEF SessionStep

-----------------------------------------------------------------------------
(* A connection in the listen queue has no session, so nothing points to   *)
(* it and accepting it moves no pointer.                                   *)
LEMMA AcceptInv ==
  ASSUME TypeOK, PointersOK, RestOK, ForwardInScan, Accept
  PROVE  PointersOK' /\ RestOK'
<1> DEFINE c == Head(backlog)
<1>1. /\ backlog \in Seq(Conn) /\ backlog # <<>>
      /\ c \in Conn
      /\ Len(backlog) \in Nat \ {0} /\ DOMAIN backlog = 1..Len(backlog)
      /\ c = backlog[1]
  <2>1. backlog \in Seq(Conn) /\ backlog # <<>>
    BY DEF Accept, TypeOK, NetTypeOK
  <2> QED
    BY <2>1, HeadTailProperties, EmptySeq, LenProperties
<1>2. ~InServer(c)
  BY <1>1 DEF RestOK, BacklogWaits
<1>3. m_inbox[c] = NoInbox /\ sessionState[c] = "STATE_NON_AUTH"
  <2>1. m_inbox[c] # NoInbox => m_inbox[c] \in InboxId /\ m_session[m_inbox[c]] = c
    BY <1>1 DEF PointersOK, SessionInboxAgree, InboxPointsBack, TypeOK, SessionTypeOK
  <2>2. m_inbox[c] = NoInbox
    BY <1>1, <1>2, <2>1, SessionAssumption DEF PointersOK, SessionsLive
  <2> QED
    BY <1>1, <2>2
    DEF PointersOK, SessionInboxAgree, LoggedInHasInbox, TypeOK, SessionTypeOK
<1>4. UNCHANGED PointerDefs
  BY <1>3 DEF Accept, PointerDefs, inboxVars, TypeOK, SessionTypeOK
<1>5. /\ \A d : InServer(d) => InServer(d)'
      /\ \A d : InServer(d)' => InServer(d) \/ d = c
  BY <1>1, SessionsAppended DEF Accept
<1>6. PointersOK'
  BY <1>4, <1>5, PointersKept
<1>7. BacklogWaits'
  <2>1. backlog' = Tail(backlog)
    BY DEF Accept
  <2>2. /\ Tail(backlog) \in Seq(Conn)
        /\ Len(Tail(backlog)) = Len(backlog) - 1
        /\ \A i \in 1..Len(Tail(backlog)) : Tail(backlog)[i] = backlog[i + 1]
    BY <1>1, HeadTailProperties
  <2>3. DOMAIN backlog' = 1..(Len(backlog) - 1)
        /\ \A i \in 1..(Len(backlog) - 1) :
             i + 1 \in 1..Len(backlog) /\ backlog'[i] = backlog[i + 1]
    BY <1>1, <2>1, <2>2, LenProperties
  <2>4. ASSUME NEW i \in DOMAIN backlog'
        PROVE  ~InServer(backlog[i])'
    <3>1. backlog'[i] = backlog[i + 1] /\ i + 1 \in DOMAIN backlog /\ i + 1 # 1
      BY <1>1, <2>3
    <3>2. ~InServer(backlog[i + 1]) /\ backlog[i + 1] # c
      BY <1>1, <3>1 DEF RestOK, BacklogWaits
    <3>3. ~ \E j \in DOMAIN m_sessions' : m_sessions'[j] = backlog[i + 1]
      BY <1>5, <3>2 DEF InServer
    <3> QED
      BY <3>1, <3>3 DEF InServer
  <2>5. ASSUME NEW i \in DOMAIN backlog', NEW j \in DOMAIN backlog',
               backlog'[i] = backlog'[j]
        PROVE  i = j
    <3>1. i + 1 = j + 1
      BY <1>1, <2>3, <2>5 DEF RestOK, BacklogWaits
    <3> QED
      BY <1>1, <2>3, <3>1
  <2> QED
    BY <2>4, <2>5 DEF BacklogWaits
<1>8. ForwardLive' /\ UsersLoadedOnce' /\ ForwardInScan'
  BY DEF Accept, RestOK, ForwardLive, UsersLoadedOnce, ForwardInScan, inboxVars
<1> QED
  BY <1>6, <1>7, <1>8 DEF RestOK

(* Without inboxes, or without sessions, there are no pointers at all.     *)
LEMMA NoPointers ==
  ASSUME TypeOK, PointersOK, m_all_inbox = {} \/ m_sessions = <<>>
  PROVE  /\ \A c \in Conn : m_inbox[c] = NoInbox
         /\ \A k \in InboxId : m_session[k] = NoSession
<1>1. CASE m_all_inbox = {}
  <2>1. \A c \in Conn : m_inbox[c] = NoInbox
    BY <1>1 DEF PointersOK, InboxesLive
  <2>2. ASSUME NEW k \in InboxId, m_session[k] # NoSession
        PROVE  FALSE
    <3>1. m_session[k] \in Conn /\ m_inbox[m_session[k]] = k
      BY <2>2 DEF PointersOK, SessionInboxAgree, SessionPointsBack, TypeOK, InboxTypeOK
    <3> QED
      BY <2>1, <3>1, InboxTypes
  <2> QED
    BY <2>1, <2>2
<1>2. CASE m_sessions = <<>>
  <2>1. \A d : ~InServer(d)
    BY <1>2 DEF InServer
  <2>2. \A k \in InboxId : m_session[k] = NoSession
    BY <2>1 DEF PointersOK, SessionsLive
  <2>3. \A c \in Conn : m_inbox[c] = NoInbox
    BY <2>2, SessionAssumption
    DEF PointersOK, SessionInboxAgree, InboxPointsBack, TypeOK, SessionTypeOK
  <2> QED
    BY <2>2, <2>3
<1> QED
  BY <1>1, <1>2

(* Creating and deleting the inboxes.                                      *)
LEMMA InboxListInv ==
  ASSUME TypeOK, PointersOK, RestOK, LoadUsersFromFile \/ DestroyInboxes
  PROVE  PointersOK' /\ RestOK'
<1>1. UNCHANGED <<pc, forward, sessionVars, m_loggedIn, m_session, backlog>>
  BY DEF LoadUsersFromFile, DestroyInboxes, serverVars, netVars
<1>2. m_all_inbox = {} \/ m_sessions = <<>>
  BY DEF LoadUsersFromFile, DestroyInboxes, RestOK, UsersLoadedOnce
<1>3. /\ \A c \in Conn : m_inbox'[c] = NoInbox
      /\ \A k \in InboxId : m_session'[k] = NoSession
      /\ UNCHANGED <<sessionState, m_inbox, m_loggedIn, m_session>>
  BY <1>1, <1>2, NoPointers DEF sessionVars
<1>4. PointersOK'
  BY <1>3
  DEF PointersOK, SessionInboxAgree, LoggedInHasInbox, InboxPointsBack,
      SessionPointsBack, LoggedInFlag, InboxesLive, SessionsLive, InboxIsFirst
<1>5. \A d : InServer(d)' <=> InServer(d)
  BY <1>1, SessionsSame DEF sessionVars
<1>6. UsersLoadedOnce'
  BY DEF LoadUsersFromFile, DestroyInboxes, RestOK, UsersLoadedOnce, serverVars
<1> QED
  BY <1>1, <1>4, <1>5, <1>6
  DEF RestOK, ForwardLive, BacklogWaits, ForwardInScan

(* The steps of main, of start and of the destructor.                      *)
LEMMA LoopStepInv ==
  ASSUME TypeOK, PointersOK, RestOK,
         \/ LoadUsersFromFile \/ Start \/ MainReturns \/ Select
         \/ NoNewConnection \/ Accept \/ AcceptFails \/ ScanSkip \/ ScanEnd
         \/ ForwardChat \/ ForwardFails \/ DestroySession \/ DestroyInboxes
         \/ ProcessExit
  PROVE  PointersOK' /\ RestOK'
<1>1. CASE LoadUsersFromFile \/ DestroyInboxes
  BY <1>1, InboxListInv
<1>2. CASE \/ Start \/ MainReturns \/ Select \/ NoNewConnection \/ AcceptFails
           \/ ScanSkip \/ ScanEnd
  <2>1. /\ UNCHANGED <<forward, sessionVars, inboxVars, netVars>>
        /\ serverState' = "SERVER_INITIATED" => serverState = "SERVER_INITIATED"
        /\ pc # "scan" \/ forward = <<>>
    BY <1>2 DEF Start, MainReturns, Select, NoNewConnection, AcceptFails,
                ScanSkip, ScanEnd, Scanning
  <2>2. forward = <<>>
    BY <2>1 DEF RestOK, ForwardInScan
  <2>3. \A d : InServer(d)' <=> InServer(d)
    BY <2>1, SessionsSame DEF sessionVars
  <2>4. PointersOK'
    BY <2>1, <2>3, PointersKept DEF PointerDefs, sessionVars, inboxVars
  <2>5. RestOK'
    BY <2>1, <2>2, <2>3, RestKept DEF inboxVars, netVars
  <2> QED
    BY <2>4, <2>5
<1>3. CASE Accept
  BY <1>3, AcceptInv DEF RestOK
<1>4. CASE ForwardChat \/ ForwardFails
  <2>1. ForwardDone
    BY <1>4 DEF ForwardChat, ForwardFails
  <2>2. \A d : InServer(d)' <=> InServer(d)
    BY <2>1, SessionsSame DEF ForwardDone, sessionVars
  <2>3. PointersOK'
    BY <2>1, <2>2, PointersKept DEF ForwardDone, PointerDefs, sessionVars, inboxVars
  <2>4. RestOK'
    BY <2>1, <2>2
    DEF ForwardDone, RestOK, ForwardLive, BacklogWaits, UsersLoadedOnce,
        ForwardInScan, inboxVars
  <2> QED
    BY <2>3, <2>4
<1>5. CASE DestroySession
  <2> DEFINE c == Last(m_sessions)
  <2>1. /\ CloseSession(c) /\ m_all_inbox' = m_all_inbox /\ backlog' = backlog
        /\ forward' = forward /\ serverState' = serverState
        /\ m_sessions # <<>> /\ m_sessions' = Front(m_sessions)
        /\ pc = "exit"
    BY <1>5 DEF DestroySession, serverVars
  <2>2. /\ \A d : d # c /\ InServer(d) => InServer(d)'
        /\ \A d : InServer(d)' => InServer(d)
    BY <2>1, SessionsPopped
  <2>3. c \in Conn
    BY <2>1, FrontProperties DEF TypeOK, SessionTypeOK
  <2>4. PointersOK'
    BY <2>1, <2>2, <2>3, PointersClosed
  <2>5. forward = <<>>
    BY <2>1 DEF RestOK, ForwardInScan
  <2>6. RestOK'
    BY <2>1, <2>2, <2>5, RestKept
  <2> QED
    BY <2>4, <2>6
<1>6. CASE ProcessExit
  BY <1>6, EndsInv DEF ProcessExit
<1> QED
  BY <1>1, <1>2, <1>3, <1>4, <1>5, <1>6

(* What the clients do moves no pointer.                                   *)
LEMMA ClientStepInv ==
  ASSUME TypeOK, PointersOK, RestOK, NEW c \in Conn, ClientStep(c)
  PROVE  PointersOK' /\ RestOK'
<1>1. UNCHANGED <<serverVars, sessionVars, inboxVars>>
  BY DEF ClientStep, Connect, Receive, Disconnect, Send, FinishFrame
<1>2. \A d : InServer(d)' <=> InServer(d)
  BY <1>1, SessionsSame DEF sessionVars
<1>3. PointersOK'
  BY <1>1, <1>2, PointersKept DEF PointerDefs, sessionVars, inboxVars
<1>4. BacklogWaits'
  <2>1. CASE backlog' = backlog
    BY <1>2, <2>1 DEF RestOK, BacklogWaits
  <2>2. CASE Connect(c)
    <3>1. ~InServer(c) /\ ~InBacklog(c) /\ backlog' = Append(backlog, c)
      BY <2>2 DEF Connect
    <3>2. /\ Len(backlog) \in Nat /\ DOMAIN backlog = 1..Len(backlog)
          /\ DOMAIN backlog' = 1..(Len(backlog) + 1)
          /\ \A i \in 1..Len(backlog) : backlog'[i] = backlog[i]
          /\ backlog'[Len(backlog) + 1] = c
      BY <3>1, AppendProperties, LenProperties DEF TypeOK, NetTypeOK
    <3>3. \A i \in DOMAIN backlog' : i \in DOMAIN backlog \/ i = Len(backlog) + 1
      BY <3>2
    <3>4. \A i \in DOMAIN backlog : backlog[i] # c
      BY <3>1 DEF InBacklog
    <3>5. ASSUME NEW i \in DOMAIN backlog'
          PROVE  ~InServer(backlog[i])'
      <4>1. ~InServer(c) /\ \A j \in DOMAIN backlog : ~InServer(backlog[j])
        BY <3>1 DEF RestOK, BacklogWaits
      <4>2. m_sessions' = m_sessions
        BY <1>1 DEF sessionVars
      <4>3. backlog'[i] = c \/ \E j \in DOMAIN backlog : backlog'[i] = backlog[j]
        BY <3>2, <3>3
      <4> QED
        BY <4>1, <4>2, <4>3 DEF InServer
    <3>6. \A i, j \in DOMAIN backlog' : backlog'[i] = backlog'[j] => i = j
      BY <3>2, <3>3, <3>4 DEF RestOK, BacklogWaits
    <3> QED
      BY <3>5, <3>6 DEF BacklogWaits
  <2> QED
    BY <2>1, <2>2 DEF ClientStep, Receive, Disconnect, Send, FinishFrame
<1>5. ForwardLive' /\ UsersLoadedOnce' /\ ForwardInScan'
  BY <1>1, <1>2
  DEF RestOK, ForwardLive, UsersLoadedOnce, ForwardInScan, serverVars, inboxVars
<1> QED
  BY <1>3, <1>4, <1>5 DEF RestOK

-----------------------------------------------------------------------------
(* IInv is inductive.                                                      *)
LEMMA InitInv ==
  ASSUME Init
  PROVE  IInv
<1>1. ServerTypeOK /\ SessionTypeOK /\ InboxTypeOK /\ NetTypeOK
  BY DEF Init, ServerTypeOK, SessionTypeOK, InboxTypeOK, NetTypeOK,
         SOCKET_INVALID_DEFAULT, NoInbox
<1>2. SessionInboxAgree /\ InboxIsFirst
  BY DEF Init, SessionInboxAgree, LoggedInHasInbox, InboxPointsBack,
         SessionPointsBack, LoggedInFlag, InboxIsFirst
<1>3. NoDanglingPointers
  BY DEF Init, NoDanglingPointers, InboxesLive, SessionsLive, ForwardLive
<1>4. BacklogWaits /\ UsersLoadedOnce /\ ForwardInScan
  BY DEF Init, BacklogWaits, UsersLoadedOnce, ForwardInScan
<1> QED
  BY <1>1, <1>2, <1>3, <1>4 DEF IInv, TypeOK

LEMMA StepInv ==
  ASSUME IInv, [Next]_vars
  PROVE  IInv'
<1>1. TypeOK /\ PointersOK /\ RestOK /\ LoggedInHasInbox
  BY DEF IInv, PointersOK, RestOK, NoDanglingPointers, SessionInboxAgree
<1>2. TypeOK'
  BY <1>1, TypeStep
<1>3. PointersOK' /\ RestOK'
  <2>1. CASE \E c \in Conn : SessionStep(c)
    BY <1>1, <2>1, SessionStepInv
  <2>2. CASE ServerStep /\ ~ \E c \in Conn : SessionStep(c)
    BY <1>1, <2>2, LoopStepInv DEF ServerStep
  <2>3. CASE \E c \in Conn : ClientStep(c)
    BY <1>1, <2>3, ClientStepInv
  <2>4. CASE UNCHANGED vars
    <3>1. UNCHANGED <<serverVars, sessionVars, inboxVars, backlog>>
      BY <2>4 DEF vars, netVars
    <3>2. \A d : InServer(d)' <=> InServer(d)
      BY <3>1, SessionsSame DEF sessionVars
    <3>3. PointersOK'
      BY <1>1, <3>1, <3>2, PointersKept DEF PointerDefs, sessionVars, inboxVars
    <3>4. RestOK'
      BY <1>1, <3>1, <3>2
      DEF RestOK, ForwardLive, BacklogWaits, UsersLoadedOnce, ForwardInScan,
          serverVars, inboxVars
    <3> QED
      BY <3>3, <3>4
  <2> QED
    BY <2>1, <2>2, <2>3, <2>4 DEF Next, Terminated
<1> QED
  BY <1>2, <1>3 DEF IInv, PointersOK, RestOK, NoDanglingPointers

LEMMA Invariance == Spec => []IInv
<1>1. Init => IInv
  BY InitInv
<1>2. IInv /\ [Next]_vars => IInv'
  BY StepInv
<1> QED
  BY <1>1, <1>2, PTL DEF Spec

(* Every variable of the server keeps its type in every behaviour.         *)
THEOREM TypeCorrect == Spec => []TypeOK
<1>1. IInv => TypeOK
  BY DEF IInv
<1> QED
  BY <1>1, Invariance, PTL

(* Sessions and inboxes always agree on who is logged in: a session is     *)
(* logged in exactly when an inbox points to it and it to that inbox.      *)
THEOREM SessionsAgreeWithInboxes == Spec => []SessionInboxAgree
<1>1. IInv => SessionInboxAgree
  BY DEF IInv
<1> QED
  BY <1>1, Invariance, PTL

(* No session, inbox or pending chat ever refers to a deleted object.      *)
THEOREM PointersStayLive == Spec => []NoDanglingPointers
<1>1. IInv => NoDanglingPointers
  BY DEF IInv
<1> QED
  BY <1>1, Invariance, PTL

(* However many connections log in and however the users file repeats      *)
(* names, a user has at most one session.                                  *)
THEOREM UsersAreLoggedInOnce == Spec => []OneSessionPerUser
<1>1. IInv => OneSessionPerUser
  <2>1. SUFFICES ASSUME IInv, NEW c \in Conn, NEW d \in Conn,
                        m_inbox[c] # NoInbox, m_inbox[d] # NoInbox,
                        UserOf(m_inbox[c]).user = UserOf(m_inbox[d]).user
                 PROVE  c = d
    BY DEF OneSessionPerUser
  <2>2. /\ m_inbox[c] \in InboxId /\ m_session[m_inbox[c]] = c
        /\ m_inbox[d] \in InboxId /\ m_session[m_inbox[d]] = d
    BY <2>1 DEF IInv, SessionInboxAgree, InboxPointsBack, TypeOK, SessionTypeOK
  <2>3. /\ GetInbox(UserOf(m_inbox[c]).user) = m_inbox[c]
        /\ GetInbox(UserOf(m_inbox[d]).user) = m_inbox[d]
    BY <2>1, <2>2, SessionAssumption DEF IInv, InboxIsFirst
  <2> QED
    BY <2>1, <2>2, <2>3
<1> QED
  BY <1>1, Invariance, PTL
-----------------------------------------------------------------------------
(* The mails: ids ascend in an inbox, none is given twice, and a mail      *)
(* leaves its inbox only when the session of that inbox deletes its id.    *)
(* This rests on MailSteps: what any step does to one inbox.               *)
(* MailIdsAscend of one inbox: its mails and the last id it handed out.    *)
AscendTo(mails, last) ==
    /\ \A i \in DOMAIN mails : mails[i].m_id \in 1..last
    /\ \A i, j \in DOMAIN mails : i < j => mails[i].m_id < mails[j].m_id

(* An inbox after n copies of a mail have been added to it.                *)
Grown(mails, last, n, to, from, subject, body) ==
    mails \o Copies(last, n, to, from, subject, body)

(* The old mails where they were, and behind them n with the next ids.     *)
IsGrown(mails, last, n, grown) ==
    /\ Len(mails) \in Nat /\ DOMAIN mails = 1..Len(mails)
    /\ DOMAIN grown = 1..(Len(mails) + n)
    /\ \A i \in 1..Len(mails) : grown[i] = mails[i]
    /\ \A i \in 1..(Len(mails) + n) :
         i > Len(mails) => grown[i].m_id = last + (i - Len(mails))

(* The things a step can do to inbox k: nothing, copies of a mail at its   *)
(* end, one mail removed for its own session, and the end of the program.  *)
InboxSame(k) ==
    m_mails'[k] = m_mails[k] /\ m_idOfLastMail'[k] = m_idOfLastMail[k]
InboxGrows(k) ==
    \E n \in Nat, to \in Seq(Name), from \in Name, subject \in Text \union {OfflineSubject}, body \in Text :
      /\ m_mails'[k] = Grown(m_mails[k], m_idOfLastMail[k], n, to, from, subject, body)
      /\ m_idOfLastMail'[k] = m_idOfLastMail[k] + n
Deletes(c, k) ==
    /\ Current(c)
    /\ inq[c] # <<>>
    /\ m_inbox[c] = k
    /\ Head(inq[c]) \in MailIdReq
    /\ Head(inq[c]).type = "DELETE_MAIL"
    /\ m_mails'[k] = RemoveMail(m_mails[k], Head(inq[c]).id)
    /\ m_idOfLastMail'[k] = m_idOfLastMail[k]
InboxEnds(k) ==
    m_mails'[k] = <<>> /\ m_idOfLastMail'[k] = 0 /\ m_all_inbox' = {}
InboxStep(k) ==
    \/ InboxSame(k) \/ InboxGrows(k) \/ InboxEnds(k)
    \/ \E c \in Conn : Deletes(c, k)

-----------------------------------------------------------------------------
(* What n copies of a mail look like.                                      *)
LEMMA CopiesIds ==
  ASSUME NEW last \in Nat, NEW n \in Nat, NEW to, NEW from, NEW subject, NEW body
  PROVE  \A j \in 1..n : Copies(last, n, to, from, subject, body)[j].m_id = last + j
BY DEF Copies

LEMMA CopiesLen ==
  ASSUME NEW last \in Nat, NEW n \in Nat, NEW to \in Seq(Name), NEW from \in Name,
         NEW subject \in Text \union {OfflineSubject}, NEW body \in Text
  PROVE  Len(Copies(last, n, to, from, subject, body)) = n
<1>1. DOMAIN Copies(last, n, to, from, subject, body) = 1..n
  BY DEF Copies
<1>2. Copies(last, n, to, from, subject, body) \in Seq(Mail)
  BY CopiesType
<1> QED
  BY <1>1, <1>2, LenProperties

(* An inbox with mails added: the old ones where they were, behind them    *)
(* the copies with the ids after the last one.                             *)
LEMMA GrownInbox ==
  ASSUME NEW mails \in Seq(Mail), NEW last \in Nat, NEW n \in Nat,
         NEW to \in Seq(Name), NEW from \in Name, NEW subject \in Text \union {OfflineSubject}, NEW body \in Text
  PROVE  IsGrown(mails, last, n, Grown(mails, last, n, to, from, subject, body))
<1> DEFINE new == Copies(last, n, to, from, subject, body)
           grown == Grown(mails, last, n, to, from, subject, body)
<1>1. new \in Seq(Mail) /\ Len(new) = n
  BY CopiesType, CopiesLen
<1>2. \A j \in 1..n : new[j].m_id = last + j
  BY CopiesIds
<1> HIDE DEF new
<1>3. Len(mails) \in Nat /\ DOMAIN mails = 1..Len(mails)
  BY LenProperties
<1>4. /\ mails \o new \in Seq(Mail)
      /\ Len(mails \o new) = Len(mails) + Len(new)
      /\ \A i \in 1..(Len(mails) + Len(new)) :
           (mails \o new)[i] = IF i <= Len(mails) THEN mails[i]
                               ELSE new[i - Len(mails)]
  BY <1>1, ConcatProperties
<1>5. grown = mails \o new
  BY DEF new, Grown
<1> HIDE DEF grown
<1>6. DOMAIN grown = 1..(Len(mails) + n)
  BY <1>1, <1>4, <1>5, LenProperties
<1>7. \A i \in 1..Len(mails) : grown[i] = mails[i]
  BY <1>1, <1>3, <1>4, <1>5
<1>8. ASSUME NEW i \in 1..(Len(mails) + n), i > Len(mails)
      PROVE  grown[i].m_id = last + (i - Len(mails))
  <2>1. i - Len(mails) \in 1..n /\ ~(i <= Len(mails))
    BY <1>3, <1>8
  <2>2. grown[i] = new[i - Len(mails)]
    BY <1>1, <1>4, <1>5, <2>1
  <2> QED
    BY <1>2, <2>1, <2>2
<1> QED
  BY <1>3, <1>6, <1>7, <1>8 DEF grown, IsGrown

(* addMail keeps the ids of an inbox ascending.                            *)
LEMMA GrownAscends ==
  ASSUME NEW mails \in Seq(Mail), NEW last \in Nat, NEW n \in Nat,
         NEW to \in Seq(Name), NEW from \in Name, NEW subject \in Text \union {OfflineSubject}, NEW body \in Text,
         AscendTo(mails, last)
  PROVE  AscendTo(Grown(mails, last, n, to, from, subject, body), last + n)
<1> DEFINE grown == Grown(mails, last, n, to, from, subject, body)
<1>1. /\ Len(mails) \in Nat /\ DOMAIN mails = 1..Len(mails)
      /\ DOMAIN grown = 1..(Len(mails) + n)
      /\ \A i \in 1..Len(mails) : grown[i] = mails[i]
      /\ \A i \in 1..(Len(mails) + n) :
           i > Len(mails) => grown[i].m_id = last + (i - Len(mails))
  <2>1. IsGrown(mails, last, n, grown)
    BY GrownInbox
  <2> HIDE DEF grown
  <2> QED
    BY <2>1 DEF IsGrown
<1> HIDE DEF grown
<1>2. /\ \A i \in 1..Len(mails) : mails[i].m_id \in 1..last
      /\ \A i, j \in 1..Len(mails) : i < j => mails[i].m_id < mails[j].m_id
  BY <1>1 DEF AscendTo
<1>3. ASSUME NEW i \in DOMAIN grown
      PROVE  grown[i].m_id \in 1..(last + n)
  <2>1. CASE i <= Len(mails)
    <3>1. i \in 1..Len(mails)
      BY <1>1, <1>3, <2>1
    <3>2. grown[i].m_id \in 1..last
      BY <1>1, <1>2, <3>1
    <3> QED
      BY <3>2
  <2>2. CASE i > Len(mails)
    BY <1>1, <1>3, <2>2
  <2> QED
    BY <1>1, <1>3, <2>1, <2>2
<1>4. ASSUME NEW i \in DOMAIN grown, NEW j \in DOMAIN grown, i < j
      PROVE  grown[i].m_id < grown[j].m_id
  <2>0. i \in 1..(Len(mails) + n) /\ j \in 1..(Len(mails) + n)
    BY <1>1
  <2>1. CASE j <= Len(mails)
    <3>1. i \in 1..Len(mails) /\ j \in 1..Len(mails)
      BY <1>1, <1>4, <2>0, <2>1
    <3> QED
      BY <1>1, <1>2, <1>4, <3>1
  <2>2. CASE i <= Len(mails) /\ j > Len(mails)
    <3>1. i \in 1..Len(mails)
      BY <1>1, <2>0, <2>2
    <3>2. grown[i].m_id \in 1..last
      BY <1>1, <1>2, <3>1
    <3>3. grown[j].m_id = last + (j - Len(mails))
      BY <1>1, <2>0, <2>2
    <3> QED
      BY <1>1, <2>0, <2>2, <3>2, <3>3
  <2>3. CASE i > Len(mails) /\ j > Len(mails)
    <3>1. /\ grown[i].m_id = last + (i - Len(mails))
          /\ grown[j].m_id = last + (j - Len(mails))
      BY <1>1, <2>0, <2>3
    <3> QED
      BY <1>1, <1>4, <2>0, <3>1
  <2> QED
    BY <1>1, <1>4, <2>0, <2>1, <2>2, <2>3
<1> QED
  BY <1>3, <1>4 DEF AscendTo, grown

(* removeMail keeps them ascending too.                                    *)
LEMMA RemovedAscends ==
  ASSUME NEW mails \in Seq(Mail), NEW last \in Nat, NEW id, AscendTo(mails, last)
  PROVE  AscendTo(RemoveMail(mails, id), last)
<1>1. CASE MailAt(mails, id) = {}
  BY <1>1 DEF RemoveMail
<1>2. CASE MailAt(mails, id) # {}
  <2> DEFINE at == Min(MailAt(mails, id))
             less == RemoveAt(mails, at)
  <2>1. at \in 1..Len(mails) /\ RemoveMail(mails, id) = less
    BY <1>2, MailAtProperties DEF RemoveMail
  <2>2. Len(mails) \in Nat /\ DOMAIN mails = 1..Len(mails)
    BY LenProperties
  <2> HIDE DEF at
  <2>3. /\ less \in Seq(Mail)
        /\ Len(less) = Len(mails) - 1
        /\ \A j \in 1..(Len(mails) - 1) :
             less[j] = IF j < at THEN mails[j] ELSE mails[j + 1]
    BY <2>1, RemoveAtProperties
  <2>4. DOMAIN less = 1..(Len(mails) - 1)
    BY <2>3, LenProperties
  <2> HIDE DEF less
  <2>5. /\ \A i \in 1..Len(mails) : mails[i].m_id \in 1..last
        /\ \A i, j \in 1..Len(mails) : i < j => mails[i].m_id < mails[j].m_id
    BY <2>2 DEF AscendTo
  <2> DEFINE old(i) == IF i < at THEN i ELSE i + 1
  <2>6. ASSUME NEW i \in DOMAIN less
        PROVE  old(i) \in 1..Len(mails) /\ less[i] = mails[old(i)]
    BY <2>1, <2>2, <2>3, <2>4
  <2>7. ASSUME NEW i \in DOMAIN less, NEW j \in DOMAIN less, i < j
        PROVE  old(i) < old(j)
    BY <2>1, <2>2, <2>4, <2>7
  <2> HIDE DEF old
  <2>8. AscendTo(less, last)
    BY <2>5, <2>6, <2>7 DEF AscendTo
  <2> QED
    BY <2>1, <2>8
<1> QED
  BY <1>1, <1>2

-----------------------------------------------------------------------------
(* A handler that stores mails grows every inbox, some by nothing.         *)
LEMMA AddMailsGrows ==
  ASSUME NEW to \in Seq(Name), NEW from \in Name,
         NEW subject \in Text \union {OfflineSubject}, NEW body \in Text,
         AddMails(to, from, subject, body), NEW k \in InboxId
  PROVE  InboxGrows(k)
<1>1. Deliveries(to, k) \in Nat
  BY DeliveriesType
<1>2. /\ m_mails'[k] = m_mails[k] \o Copies(m_idOfLastMail[k], Deliveries(to, k),
                                            to, from, subject, body)
      /\ m_idOfLastMail'[k] = m_idOfLastMail[k] + Deliveries(to, k)
  BY DEF AddMails
<1> QED
  BY <1>1, <1>2 DEF InboxGrows, Grown

LEMMA DeleteMailDeletes ==
  ASSUME IInv, NEW c \in Conn, DeleteMail(c), NEW k \in InboxId
  PROVE  InboxSame(k) \/ Deletes(c, k)
<1>1. /\ Current(c) /\ inq[c] # <<>> /\ Head(inq[c]).type \in {"DELETE_MAIL"}
      /\ m_mails' = [m_mails EXCEPT ![m_inbox[c]] = RemoveMail(@, Head(inq[c]).id)]
      /\ m_idOfLastMail' = m_idOfLastMail
  BY DEF DeleteMail, HasRequest
<1>2. Head(inq[c]) \in Request
  BY <1>1, HeadType DEF IInv, TypeOK
<1>3. Head(inq[c]) \in MailIdReq
  BY <1>1, <1>2 DEF Request, LoginReq, PlainReq, MailIdReq, ComposeReq, ChatReq
<1>4. DOMAIN m_mails = InboxId
  BY DEF IInv, TypeOK, InboxTypeOK
<1>5. CASE m_inbox[c] = k
  <2>1. m_mails'[k] = RemoveMail(m_mails[k], Head(inq[c]).id)
    BY <1>1, <1>4, <1>5
  <2> QED
    BY <1>1, <1>3, <1>5, <2>1 DEF Deletes
<1>6. CASE m_inbox[c] # k
  BY <1>1, <1>4, <1>6 DEF InboxSame
<1> QED
  BY <1>5, <1>6

(* What any step does to any inbox.                                        *)
LEMMA MailSteps ==
  ASSUME IInv, [Next]_vars, NEW k \in InboxId
  PROVE  InboxStep(k)
<1>1. ASSUME NEW c \in Conn, SessionStep(c)
      PROVE  InboxStep(k)
  <2> DEFINE r == Head(inq[c])
  <2>1. CASE Compose(c) \/ ChatOffline(c)
    <3>1. /\ inq[c] # <<>> /\ sessionState[c] = "STATE_LOGEDON"
          /\ Compose(c) => r.type = "COMPOSE"
          /\ ChatOffline(c) => r.type = "SEND_CHAT"
      BY <2>1 DEF Compose, ChatOffline, HasRequest
    <3>2. r \in Request
      BY <3>1, HeadType DEF IInv, TypeOK
    <3>3. UserOf(m_inbox[c]).user \in Name
      <4>1. m_inbox[c] \in InboxId
        BY <3>1 DEF IInv, SessionInboxAgree, LoggedInHasInbox, TypeOK, SessionTypeOK
      <4> QED
        BY <4>1, InboxTypes
    <3>4. CASE Compose(c)
      <4>1. r.to \in Seq(Name) /\ r.subject \in Text /\ r.body \in Text
        BY <3>1, <3>2, <3>4, RequestFields
      <4>2. AddMails(r.to, UserOf(m_inbox[c]).user, r.subject, r.body)
        BY <3>4 DEF Compose
      <4> QED
        BY <3>3, <4>1, <4>2, AddMailsGrows DEF InboxStep
    <3>5. CASE ChatOffline(c)
      <4>1. r.to \in Name /\ r.text \in Text
        BY <3>1, <3>2, <3>5, RequestFields
      <4>2. <<r.to>> \in Seq(Name)
        BY <4>1, OneMessage
      <4>3. AddMails(<<r.to>>, UserOf(m_inbox[c]).user, OfflineSubject, r.text)
        BY <3>5 DEF ChatOffline
      <4> QED
        BY <3>3, <4>1, <4>2, <4>3, AddMailsGrows DEF InboxStep
    <3> QED
      BY <2>1, <3>4, <3>5
  <2>2. CASE DeleteMail(c)
    BY <2>2, DeleteMailDeletes DEF InboxStep
  <2>3. CASE RecvUndefined(c)
    BY <2>3 DEF RecvUndefined, ProcessEnds, InboxStep, InboxEnds
  <2>4. CASE \/ SessionFailure(c) \/ SessionLogin(c) \/ InvalidRequest(c)
             \/ ShowInbox(c) \/ GetMail(c) \/ Quit(c) \/ ShowOnlineUsers(c)
             \/ ChatUnknownUser(c) \/ ChatTooLong(c) \/ ChatOnline(c)
    <3>1. m_mails' = m_mails /\ m_idOfLastMail' = m_idOfLastMail
      BY <2>4
      DEF SessionFailure, SessionLogin, InvalidRequest, ShowInbox, GetMail, Quit,
          ShowOnlineUsers, ChatUnknownUser, ChatTooLong, ChatOnline, AnswerOnly,
          inboxVars
    <3> QED
      BY <3>1 DEF InboxStep, InboxSame
  <2> QED
    BY <1>1, <2>1, <2>2, <2>3, <2>4 DEF SessionStep
<1>2. CASE ProcessExit
  BY <1>2 DEF ProcessExit, ProcessEnds, InboxStep, InboxEnds
<1>3. CASE \/ LoadUsersFromFile \/ Start \/ MainReturns \/ Select
           \/ NoNewConnection \/ Accept \/ AcceptFails \/ ScanSkip \/ ScanEnd
           \/ ForwardChat \/ ForwardFails \/ DestroySession \/ DestroyInboxes
           \/ (\E c \in Conn : ClientStep(c)) \/ UNCHANGED vars
  <2>1. m_mails' = m_mails /\ m_idOfLastMail' = m_idOfLastMail
    <3>1. CASE \/ LoadUsersFromFile \/ Start \/ MainReturns \/ Select
               \/ NoNewConnection \/ Accept \/ AcceptFails \/ ScanSkip \/ ScanEnd
      BY <3>1
      DEF LoadUsersFromFile, Start, MainReturns, Select, NoNewConnection, Accept,
          AcceptFails, ScanSkip, ScanEnd, inboxVars
    <3>2. CASE ForwardChat \/ ForwardFails \/ DestroySession \/ DestroyInboxes
      BY <3>2
      DEF ForwardChat, ForwardFails, ForwardDone, DestroySession, DestroyInboxes,
          inboxVars
    <3>3. CASE \E c \in Conn : ClientStep(c)
      BY <3>3 DEF ClientStep, Connect, Receive, Disconnect, Send, FinishFrame, inboxVars
    <3>4. CASE UNCHANGED vars
      BY <3>4 DEF vars, inboxVars
    <3> QED
      BY <1>3, <3>1, <3>2, <3>3, <3>4
  <2> QED
    BY <2>1 DEF InboxStep, InboxSame
<1> QED
  BY <1>1, <1>2, <1>3 DEF Next, ServerStep, Terminated

(* The mails of an inbox and its last id have their types.                 *)
LEMMA MailsType ==
  ASSUME IInv, NEW k \in InboxId
  PROVE  m_mails[k] \in Seq(Mail) /\ m_idOfLastMail[k] \in Nat
BY DEF IInv, TypeOK, InboxTypeOK

-----------------------------------------------------------------------------
LEMMA AscendStep ==
  ASSUME IInv, [Next]_vars, NEW k \in InboxId,
         AscendTo(m_mails[k], m_idOfLastMail[k])
  PROVE  AscendTo(m_mails'[k], m_idOfLastMail'[k])
<1>1. CASE InboxSame(k)
  BY <1>1 DEF InboxSame
<1>2. CASE InboxGrows(k)
  BY <1>2, MailsType, GrownAscends DEF InboxGrows
<1>3. CASE InboxEnds(k)
  BY <1>3 DEF InboxEnds, AscendTo
<1>4. CASE \E c \in Conn : Deletes(c, k)
  BY <1>4, MailsType, RemovedAscends DEF Deletes
<1> QED
  BY <1>1, <1>2, <1>3, <1>4, MailSteps DEF InboxStep

(* In every inbox, however mails are sent and deleted, the ids ascend with *)
(* the time of arrival and never exceed the last one handed out.           *)
THEOREM MailIdsAlwaysAscend == Spec => []MailIdsAscend
<1>1. Init => MailIdsAscend
  BY DEF Init, MailIdsAscend
<1>2. IInv /\ MailIdsAscend /\ [Next]_vars => MailIdsAscend'
  <2>1. SUFFICES ASSUME IInv, MailIdsAscend, [Next]_vars, NEW k \in InboxId
                 PROVE  AscendTo(m_mails'[k], m_idOfLastMail'[k])
    BY DEF MailIdsAscend, AscendTo
  <2>2. AscendTo(m_mails[k], m_idOfLastMail[k])
    BY <2>1 DEF MailIdsAscend, AscendTo
  <2> QED
    BY <2>1, <2>2, AscendStep
<1> QED
  BY <1>1, <1>2, Invariance, PTL DEF Spec

-----------------------------------------------------------------------------
(* Only the mail with that id goes when an id is deleted.                  *)
LEMMA RemovedMail ==
  ASSUME NEW mails \in Seq(Mail), NEW id
  PROVE  /\ \A m \in Stored(mails) \ Stored(RemoveMail(mails, id)) : m.m_id = id
         /\ Stored(RemoveMail(mails, id)) \subseteq Stored(mails)
<1>1. CASE MailAt(mails, id) = {}
  BY <1>1 DEF RemoveMail
<1>2. CASE MailAt(mails, id) # {}
  <2> DEFINE at == Min(MailAt(mails, id))
             less == RemoveAt(mails, at)
  <2>1. at \in 1..Len(mails) /\ RemoveMail(mails, id) = less
    BY <1>2, MailAtProperties DEF RemoveMail
  <2>2. mails[at].m_id = id
    <3>1. MailAt(mails, id) \subseteq Nat
      BY LenProperties DEF MailAt
    <3>2. at \in MailAt(mails, id)
      BY <1>2, <3>1, MinIsLeast
    <3> QED
      BY <3>2 DEF MailAt
  <2> HIDE DEF at
  <2>3. /\ \A j \in 1..Len(mails) : j # at =>
             \E h \in 1..Len(less) : less[h] = mails[j]
        /\ \A h \in 1..Len(less) :
             \E j \in 1..Len(mails) : j # at /\ less[h] = mails[j]
    BY <2>1, RemoveAtKeeps
  <2>4. less \in Seq(Mail)
    BY <2>1, RemoveAtProperties
  <2>5. DOMAIN less = 1..Len(less) /\ DOMAIN mails = 1..Len(mails)
    BY <2>4, LenProperties
  <2> HIDE DEF less
  <2>6. \A m \in Stored(mails) \ Stored(less) : m.m_id = id
    <3>1. TAKE m \in Stored(mails) \ Stored(less)
    <3>2. PICK j \in 1..Len(mails) : m = mails[j]
      BY <2>5 DEF Stored
    <3>3. j = at
      BY <2>3, <2>5, <3>2 DEF Stored
    <3> QED
      BY <2>2, <3>2, <3>3
  <2>7. Stored(less) \subseteq Stored(mails)
    <3>1. SUFFICES ASSUME NEW m \in Stored(less)
                   PROVE  m \in Stored(mails)
      OBVIOUS
    <3>2. PICK h \in 1..Len(less) : m = less[h]
      BY <2>5 DEF Stored
    <3>3. PICK j \in 1..Len(mails) : less[h] = mails[j]
      BY <2>3
    <3> QED
      BY <2>5, <3>2, <3>3 DEF Stored
  <2> QED
    BY <2>1, <2>6, <2>7
<1> QED
  BY <1>1, <1>2

(* Added mails leave the others and have fresh ids.                        *)
LEMMA AddedMails ==
  ASSUME NEW mails \in Seq(Mail), NEW last \in Nat, NEW n \in Nat,
         NEW to \in Seq(Name), NEW from \in Name, NEW subject \in Text \union {OfflineSubject}, NEW body \in Text
  PROVE  LET grown == Grown(mails, last, n, to, from, subject, body)
         IN  /\ Stored(mails) \subseteq Stored(grown)
             /\ \A m \in Stored(grown) \ Stored(mails) : m.m_id > last
<1> DEFINE grown == Grown(mails, last, n, to, from, subject, body)
<1>1. /\ Len(mails) \in Nat /\ DOMAIN mails = 1..Len(mails)
      /\ DOMAIN grown = 1..(Len(mails) + n)
      /\ \A i \in 1..Len(mails) : grown[i] = mails[i]
      /\ \A i \in 1..(Len(mails) + n) :
           i > Len(mails) => grown[i].m_id = last + (i - Len(mails))
  <2>1. IsGrown(mails, last, n, grown)
    BY GrownInbox
  <2> HIDE DEF grown
  <2> QED
    BY <2>1 DEF IsGrown
<1> HIDE DEF grown
<1>2. Stored(mails) \subseteq Stored(grown)
  BY <1>1 DEF Stored
<1>3. ASSUME NEW m \in Stored(grown) \ Stored(mails)
      PROVE  m.m_id > last
  <2>1. PICK i \in 1..(Len(mails) + n) : m = grown[i]
    BY <1>1 DEF Stored
  <2>2. i > Len(mails)
    <3>1. SUFFICES ASSUME ~(i > Len(mails))
                   PROVE  FALSE
      OBVIOUS
    <3>2. i \in 1..Len(mails)
      BY <1>1, <3>1
    <3> QED
      BY <1>1, <1>3, <2>1, <3>2 DEF Stored
  <2> QED
    BY <1>1, <2>1, <2>2
<1> QED
  BY <1>2, <1>3 DEF grown

LEMMA KeptStep ==
  ASSUME IInv, [Next]_vars
  PROVE  MailKeptStep /\ IdsFreshStep
<1>1. m_all_inbox' \subseteq InboxId
  BY StepInv DEF IInv, TypeOK, InboxTypeOK
<1>2. SUFFICES ASSUME NEW k \in m_all_inbox'
               PROVE  /\ \A m \in Stored(m_mails[k]) \ Stored(m_mails'[k]) :
                           \E c \in Conn :
                             /\ m_inbox[c] = k
                             /\ Current(c)
                             /\ Head(inq[c]) = [type |-> "DELETE_MAIL", id |-> m.m_id]
                      /\ \A m \in Stored(m_mails'[k]) \ Stored(m_mails[k]) :
                           m.m_id > m_idOfLastMail[k]
  BY DEF MailKeptStep, IdsFreshStep
<1>3. k \in InboxId /\ m_mails[k] \in Seq(Mail) /\ m_idOfLastMail[k] \in Nat
  BY <1>1, MailsType
<1>4. CASE InboxSame(k)
  BY <1>4 DEF InboxSame
<1>5. CASE InboxGrows(k)
  <2>1. /\ Stored(m_mails[k]) \subseteq Stored(m_mails'[k])
        /\ \A m \in Stored(m_mails'[k]) \ Stored(m_mails[k]) : m.m_id > m_idOfLastMail[k]
    BY <1>3, <1>5, AddedMails DEF InboxGrows
  <2> QED
    BY <2>1
<1>6. CASE InboxEnds(k)
  BY <1>6 DEF InboxEnds
<1>7. ASSUME NEW c \in Conn, Deletes(c, k)
      PROVE  /\ \A m \in Stored(m_mails[k]) \ Stored(m_mails'[k]) :
                  /\ m_inbox[c] = k
                  /\ Current(c)
                  /\ Head(inq[c]) = [type |-> "DELETE_MAIL", id |-> m.m_id]
             /\ Stored(m_mails'[k]) \subseteq Stored(m_mails[k])
  <2> DEFINE id == Head(inq[c]).id
  <2>1. m_mails'[k] = RemoveMail(m_mails[k], id)
    BY <1>7 DEF Deletes
  <2>2. Head(inq[c]) = [type |-> "DELETE_MAIL", id |-> id]
    BY <1>7 DEF Deletes, MailIdReq
  <2> HIDE DEF id
  <2>3. /\ \A m \in Stored(m_mails[k]) \ Stored(m_mails'[k]) : m.m_id = id
        /\ Stored(m_mails'[k]) \subseteq Stored(m_mails[k])
    BY <1>3, <2>1, RemovedMail
  <2> QED
    BY <1>7, <2>2, <2>3 DEF Deletes
<1>8. CASE \E c \in Conn : Deletes(c, k)
  BY <1>7, <1>8
<1> QED
  BY <1>3, <1>4, <1>5, <1>6, <1>8, MailSteps DEF InboxStep

(* A mail leaves its inbox only in the step that serves a DELETE_MAIL of   *)
(* its id, sent by the session that holds the inbox.                       *)
THEOREM MailsAreKept == Spec => MailKeptUntilDeleted
<1>1. IInv /\ [Next]_vars => [MailKeptStep]_vars
  BY KeptStep
<1> QED
  BY <1>1, Invariance, PTL DEF Spec, MailKeptUntilDeleted

(* A new mail's id is above every id its inbox has ever handed out.        *)
THEOREM IdsStayFresh == Spec => IdsNeverReused
<1>1. IInv /\ [Next]_vars => [IdsFreshStep]_vars
  BY KeptStep
<1> QED
  BY <1>1, Invariance, PTL DEF Spec, IdsNeverReused

-----------------------------------------------------------------------------
(* Where the list of sessions is defined, and what it holds.               *)
LEMMA SessionList ==
  ASSUME TypeOK
  PROVE  /\ Len(m_sessions) \in Nat
         /\ DOMAIN m_sessions = 1..Len(m_sessions)
         /\ \A i \in DOMAIN m_sessions : m_sessions[i] \in Conn /\ InServer(m_sessions[i])
<1>1. m_sessions \in Seq(Conn)
  BY DEF TypeOK, SessionTypeOK
<1> QED
  BY <1>1, LenProperties, ElementOfSeq DEF InServer

(* A session is listed once.                                               *)
LEMMA ListedOnce ==
  ASSUME DescriptorsOwned, NEW i \in DOMAIN m_sessions, NEW j \in DOMAIN m_sessions,
         m_sessions[i] = m_sessions[j]
  PROVE  i = j
BY DEF DescriptorsOwned

-----------------------------------------------------------------------------
(* The list with the session at position p taken out: the ones behind it   *)
(* have moved up.                                                          *)
TakenOut(p) ==
    /\ DOMAIN m_sessions' = 1..(Len(m_sessions) - 1)
    /\ \A j \in 1..(Len(m_sessions) - 1) :
         m_sessions'[j] = m_sessions[IF j < p THEN j ELSE j + 1]

(* erase and pop_back take one session out.                                *)
LEMMA EraseTakesOut ==
  ASSUME TypeOK, NEW c, Current(c), Erase
  PROVE  TakenOut(cursor) /\ cursor \in DOMAIN m_sessions /\ m_sessions[cursor] = c
<1>1. /\ cursor \in 1..Len(m_sessions)
      /\ m_sessions[cursor] = c
      /\ m_sessions \in Seq(Conn)
      /\ m_sessions' = RemoveAt(m_sessions, cursor)
  BY CurrentType DEF Current, Erase, TypeOK, SessionTypeOK
<1>2. /\ m_sessions' \in Seq(Conn)
      /\ Len(m_sessions') = Len(m_sessions) - 1
      /\ \A j \in 1..(Len(m_sessions) - 1) :
           m_sessions'[j] = IF j < cursor THEN m_sessions[j] ELSE m_sessions[j + 1]
  BY <1>1, RemoveAtProperties
<1>3. DOMAIN m_sessions' = 1..(Len(m_sessions) - 1)
  BY <1>2, LenProperties
<1> QED
  BY <1>1, <1>2, <1>3, SessionList DEF TakenOut

LEMMA PopTakesOut ==
  ASSUME TypeOK, m_sessions # <<>>, m_sessions' = Front(m_sessions)
  PROVE  /\ TakenOut(Len(m_sessions))
         /\ Len(m_sessions) \in DOMAIN m_sessions
         /\ m_sessions[Len(m_sessions)] = Last(m_sessions)
<1>1. m_sessions \in Seq(Conn)
  BY DEF TypeOK, SessionTypeOK
<1>2. /\ Len(m_sessions) \in Nat \ {0}
      /\ m_sessions' \in Seq(Conn)
      /\ Len(m_sessions') = Len(m_sessions) - 1
      /\ \A j \in 1..(Len(m_sessions) - 1) : m_sessions'[j] = m_sessions[j]
  BY <1>1, FrontProperties
<1>3. DOMAIN m_sessions' = 1..(Len(m_sessions) - 1)
  BY <1>2, LenProperties
<1>4. TakenOut(Len(m_sessions))
  BY <1>2, <1>3 DEF TakenOut
<1> QED
  BY <1>2, <1>4, SessionList DEF Last

(* What the positions of the shorter list correspond to.                   *)
LEMMA TakenOutAt ==
  ASSUME TypeOK, DescriptorsOwned, NEW p \in DOMAIN m_sessions, TakenOut(p),
         NEW j \in DOMAIN m_sessions'
  PROVE  \E i \in DOMAIN m_sessions :
           /\ i = IF j < p THEN j ELSE j + 1
           /\ m_sessions'[j] = m_sessions[i]
           /\ m_sessions[i] # m_sessions[p]
<1> DEFINE i == IF j < p THEN j ELSE j + 1
<1>1. Len(m_sessions) \in Nat /\ DOMAIN m_sessions = 1..Len(m_sessions)
  BY SessionList
<1>2. j \in 1..(Len(m_sessions) - 1) /\ m_sessions'[j] = m_sessions[i]
  BY DEF TakenOut
<1>3. i \in DOMAIN m_sessions /\ i # p
  BY <1>1, <1>2
<1> HIDE DEF i
<1>4. m_sessions[i] # m_sessions[p]
  BY <1>3, ListedOnce
<1> QED
  BY <1>2, <1>3, <1>4 DEF i

(* Closing a session and taking it off the list leaves the others with     *)
(* their descriptors.                                                      *)
LEMMA OwnedAfterClose ==
  ASSUME TypeOK, DescriptorsOwned, NEW c \in Conn, CloseSession(c),
         NEW p \in DOMAIN m_sessions, m_sessions[p] = c, TakenOut(p),
         \A d : d # c /\ InServer(d) => InServer(d)'
  PROVE  DescriptorsOwned'
<1>1. m_socketfd' = [m_socketfd EXCEPT ![c] = SOCKET_INVALID_DEFAULT]
      /\ DOMAIN m_socketfd = Conn
  BY DEF CloseSession, TypeOK, SessionTypeOK
<1>2. \A d \in Conn : d # c => m_socketfd'[d] = m_socketfd[d]
  BY <1>1
<1>3. ASSUME NEW i \in DOMAIN m_sessions', NEW j \in DOMAIN m_sessions',
             m_socketfd'[m_sessions'[i]] = m_socketfd'[m_sessions'[j]]
      PROVE  i = j
  <2>1. PICK x \in DOMAIN m_sessions :
          /\ x = IF i < p THEN i ELSE i + 1
          /\ m_sessions'[i] = m_sessions[x] /\ m_sessions[x] # c
    BY TakenOutAt
  <2>2. PICK y \in DOMAIN m_sessions :
          /\ y = IF j < p THEN j ELSE j + 1
          /\ m_sessions'[j] = m_sessions[y] /\ m_sessions[y] # c
    BY TakenOutAt
  <2>3. m_socketfd[m_sessions[x]] = m_socketfd[m_sessions[y]]
    BY <1>2, <1>3, <2>1, <2>2, SessionList
  <2>4. x = y
    BY <2>3 DEF DescriptorsOwned
  <2>5. i \in Nat /\ j \in Nat /\ p \in Nat
    BY SessionList DEF TakenOut
  <2> QED
    BY <2>1, <2>2, <2>4, <2>5
<1>4. ASSUME NEW d \in Conn
      PROVE  InServer(d)' <=> m_socketfd'[d] # SOCKET_INVALID_DEFAULT
  <2>1. ASSUME InServer(d)'
        PROVE  d # c /\ InServer(d)
    <3>1. PICK j \in DOMAIN m_sessions' : m_sessions'[j] = d
      BY <2>1 DEF InServer
    <3>2. \E i \in DOMAIN m_sessions : m_sessions'[j] = m_sessions[i] /\ m_sessions[i] # c
      BY TakenOutAt
    <3> QED
      BY <3>1, <3>2 DEF InServer
  <2>2. CASE d = c
    BY <1>1, <2>1, <2>2
  <2>3. CASE d # c
    BY <1>2, <2>1, <2>3 DEF DescriptorsOwned
  <2> QED
    BY <2>2, <2>3
<1> QED
  BY <1>3, <1>4 DEF DescriptorsOwned

(* accept gives the new session a descriptor that nobody has.              *)
LEMMA OwnedAfterAccept ==
  ASSUME TypeOK, BacklogWaits, DescriptorsOwned, Accept
  PROVE  DescriptorsOwned'
<1>0. PICK c : c = Head(backlog)
  OBVIOUS
<1>1. PICK fd \in FreeFds : m_socketfd' = [m_socketfd EXCEPT ![c] = fd]
  BY <1>0 DEF Accept
<1>2. /\ c \in Conn /\ ~InServer(c)
      /\ m_sessions' = Append(m_sessions, c)
  <2>1. backlog \in Seq(Conn) /\ backlog # <<>> /\ m_sessions' = Append(m_sessions, c)
    BY <1>0 DEF Accept, TypeOK, NetTypeOK
  <2>2. c = backlog[1] /\ 1 \in DOMAIN backlog /\ c \in Conn
    BY <1>0, <2>1
  <2> QED
    BY <2>1, <2>2 DEF BacklogWaits
<1>3. /\ fd \in 1..MaxFd /\ fd # SOCKET_INVALID_DEFAULT
      /\ \A d \in Conn : m_socketfd[d] # fd
  BY BoundAssumption DEF FreeFds, SOCKET_INVALID_DEFAULT
<1>4. /\ DOMAIN m_sessions' = 1..(Len(m_sessions) + 1)
      /\ \A i \in 1..Len(m_sessions) : m_sessions'[i] = m_sessions[i]
      /\ m_sessions'[Len(m_sessions) + 1] = c
  BY <1>2, AppendProperties, LenProperties DEF TypeOK, SessionTypeOK
<1>5. Len(m_sessions) \in Nat /\ DOMAIN m_sessions = 1..Len(m_sessions)
  BY SessionList
<1>6. \A i \in DOMAIN m_sessions' : i \in DOMAIN m_sessions \/ i = Len(m_sessions) + 1
  BY <1>4, <1>5
<1>7. DOMAIN m_socketfd = Conn /\ m_socketfd'[c] = fd
      /\ \A d \in Conn : d # c => m_socketfd'[d] = m_socketfd[d]
  BY <1>1, <1>2 DEF TypeOK, SessionTypeOK
<1>8. \A i \in DOMAIN m_sessions :
        m_sessions[i] \in Conn /\ m_sessions[i] # c /\ m_sessions'[i] = m_sessions[i]
  BY <1>2, <1>4, <1>5, SessionList DEF InServer
<1>9. ASSUME NEW i \in DOMAIN m_sessions', NEW j \in DOMAIN m_sessions',
             m_socketfd'[m_sessions'[i]] = m_socketfd'[m_sessions'[j]]
      PROVE  i = j
  <2>1. CASE i \in DOMAIN m_sessions /\ j \in DOMAIN m_sessions
    <3>1. m_socketfd[m_sessions[i]] = m_socketfd[m_sessions[j]]
      BY <1>7, <1>8, <1>9, <2>1
    <3> QED
      BY <2>1, <3>1 DEF DescriptorsOwned
  <2>2. CASE i \in DOMAIN m_sessions /\ j = Len(m_sessions) + 1
    BY <1>3, <1>4, <1>7, <1>8, <1>9, <2>2
  <2>3. CASE i = Len(m_sessions) + 1 /\ j \in DOMAIN m_sessions
    BY <1>3, <1>4, <1>7, <1>8, <1>9, <2>3
  <2> QED
    BY <1>6, <2>1, <2>2, <2>3
<1>10. ASSUME NEW d \in Conn
       PROVE  InServer(d)' <=> m_socketfd'[d] # SOCKET_INVALID_DEFAULT
  <2>1. InServer(d)' <=> InServer(d) \/ d = c
    <3>1. InServer(c)'
      <4>1. Len(m_sessions) + 1 \in DOMAIN m_sessions'
        BY <1>4, <1>5
      <4> QED
        BY <1>4, <4>1 DEF InServer
    <3>2. /\ InServer(d) => InServer(d)'
          /\ InServer(d)' => InServer(d) \/ d = c
      BY <1>2, SessionsAppended
    <3> QED
      BY <3>1, <3>2
  <2>2. CASE d = c
    BY <1>3, <1>7, <2>1, <2>2
  <2>3. CASE d # c
    BY <1>7, <2>1, <2>3 DEF DescriptorsOwned
  <2> QED
    BY <2>2, <2>3
<1> QED
  BY <1>9, <1>10 DEF DescriptorsOwned

LEMMA OwnedKept ==
  ASSUME DescriptorsOwned, UNCHANGED <<m_sessions, m_socketfd>>
  PROVE  DescriptorsOwned'
BY SessionsSame DEF DescriptorsOwned

LEMMA OwnedAtEnd ==
  ASSUME ProcessEnds
  PROVE  DescriptorsOwned'
BY DEF ProcessEnds, DescriptorsOwned, InServer

-----------------------------------------------------------------------------
(* The steps by what they do to the list of sessions.                      *)
Closes(c) == Current(c) /\ CloseSession(c) /\ Erase /\ UNCHANGED serverVars
Serves(c) ==
    /\ Current(c)
    /\ inq' = [inq EXCEPT ![c] = Tail(@)]
    /\ UNCHANGED <<pc, ready, m_sessions, m_socketfd, peer>>
    /\ \/ cursor' = cursor + 1
       \/ cursor' = cursor /\ forward' # <<>>

LEMMA SessionStepShape ==
  ASSUME NEW c \in Conn, SessionStep(c)
  PROVE  Closes(c) \/ Serves(c) \/ ProcessEnds
<1>1. CASE SessionFailure(c) \/ Quit(c)
  BY <1>1 DEF SessionFailure, Quit, HasRequest, Closes
<1>2. CASE ChatOnline(c)
  BY <1>2 DEF ChatOnline, HasRequest, Serves, sessionVars
<1>3. CASE RecvUndefined(c)
  BY <1>3 DEF RecvUndefined
<1>4. CASE \/ SessionLogin(c) \/ InvalidRequest(c) \/ ShowInbox(c) \/ GetMail(c)
           \/ DeleteMail(c) \/ Compose(c) \/ ShowOnlineUsers(c)
           \/ ChatUnknownUser(c) \/ ChatTooLong(c) \/ ChatOffline(c)
  <2>1. Current(c)
    BY <1>4 DEF SessionLogin, InvalidRequest, ShowInbox, GetMail, DeleteMail,
                Compose, ShowOnlineUsers, ChatUnknownUser, ChatTooLong,
                ChatOffline, HasRequest
  <2>2. PICK msgs : Answer(c, msgs)
    BY <1>4 DEF SessionLogin, InvalidRequest, ShowInbox, GetMail, DeleteMail,
                Compose, ShowOnlineUsers, ChatUnknownUser, ChatTooLong,
                ChatOffline, AnswerOnly
  <2>3. /\ inq' = [inq EXCEPT ![c] = Tail(@)]
        /\ UNCHANGED <<pc, ready, m_sessions, m_socketfd, peer>>
        /\ cursor' = cursor + 1
    BY <2>2 DEF Answer
  <2>4. Serves(c)
    BY <2>1, <2>3 DEF Serves
  <2> QED
    BY <2>4
<1> QED
  BY <1>1, <1>2, <1>3, <1>4 DEF SessionStep

LEMMA OwnedStep ==
  ASSUME IInv, DescriptorsOwned, [Next]_vars
  PROVE  DescriptorsOwned'
<1>0. TypeOK /\ BacklogWaits
  BY DEF IInv
<1>1. ASSUME NEW c \in Conn, SessionStep(c)
      PROVE  DescriptorsOwned'
  <2>1. CASE Closes(c)
    <3>1. Current(c) /\ CloseSession(c) /\ Erase
      BY <2>1 DEF Closes
    <3> QED
      BY <1>0, <3>1, EraseTakesOut, SessionsErased, OwnedAfterClose
  <2>2. CASE Serves(c)
    BY <2>2, OwnedKept DEF Serves
  <2>3. CASE ProcessEnds
    BY <2>3, OwnedAtEnd
  <2> QED
    BY <1>1, <2>1, <2>2, <2>3, SessionStepShape
<1>2. CASE DestroySession
  <2> DEFINE c == Last(m_sessions)
  <2>1. CloseSession(c) /\ m_sessions # <<>> /\ m_sessions' = Front(m_sessions)
    BY <1>2 DEF DestroySession
  <2>2. c \in Conn
    BY <1>0, <2>1, PopTakesOut, SessionList
  <2> QED
    BY <1>0, <2>1, <2>2, PopTakesOut, SessionsPopped, OwnedAfterClose
<1>3. CASE Accept
  BY <1>0, <1>3, OwnedAfterAccept
<1>4. CASE ProcessExit
  BY <1>4, OwnedAtEnd DEF ProcessExit
<1>5. CASE \/ LoadUsersFromFile \/ Start \/ MainReturns \/ Select
           \/ NoNewConnection \/ AcceptFails \/ ScanSkip \/ ScanEnd
           \/ ForwardChat \/ ForwardFails \/ DestroyInboxes
  <2>1. UNCHANGED <<m_sessions, m_socketfd>>
    BY <1>5
    DEF LoadUsersFromFile, Start, MainReturns, Select, NoNewConnection,
        AcceptFails, ScanSkip, ScanEnd, ForwardChat, ForwardFails, ForwardDone,
        DestroyInboxes, sessionVars
  <2> QED
    BY <2>1, OwnedKept
<1>6. CASE (\E c \in Conn : ClientStep(c)) \/ UNCHANGED vars
  <2>1. UNCHANGED <<m_sessions, m_socketfd>>
    BY <1>6 DEF ClientStep, Connect, Receive, Disconnect, Send, FinishFrame, vars, sessionVars
  <2> QED
    BY <2>1, OwnedKept
<1> QED
  BY <1>1, <1>2, <1>3, <1>4, <1>5, <1>6 DEF Next, ServerStep, Terminated

(* However sessions come and go, each listed session holds a valid         *)
(* descriptor of its own and a deleted one holds none.                     *)
THEOREM SessionsOwnTheirDescriptors == Spec => []DescriptorsOwned
<1>1. Init => DescriptorsOwned
  BY DEF Init, DescriptorsOwned, InServer
<1>2. IInv /\ DescriptorsOwned /\ [Next]_vars => DescriptorsOwned'
  BY OwnedStep
<1> QED
  BY <1>1, <1>2, Invariance, PTL DEF Spec
-----------------------------------------------------------------------------
(* What ReadsNeverBlock rests on: between select and accept the set holds  *)
(* the listener and sessions' descriptors only, each readable; during the  *)
(* scan every session still ahead of the iterator is readable if the set   *)
(* says so, also while a chat is being sent on.                            *)
AcceptReady ==
    pc = "accept" =>
      /\ Listener \in ready => backlog # <<>>
      /\ \A fd \in ready : fd = Listener \/ \E c \in Conn : m_socketfd[c] = fd
      /\ \A i \in DOMAIN m_sessions :
           m_socketfd[m_sessions[i]] \in ready => Readable(m_sessions[i])
Ahead(i) == i > cursor \/ (i = cursor /\ forward = <<>>)
ScanReady ==
    pc = "scan" =>
      \A i \in DOMAIN m_sessions :
        Ahead(i) /\ m_socketfd[m_sessions[i]] \in ready => Readable(m_sessions[i])
ReadyOK == AcceptReady /\ ScanReady

LEMMA ReadyOKSuffices ==
  ASSUME TypeOK, ReadyOK
  PROVE  ReadsNeverBlock
<1>1. ASSUME pc = "scan", forward = <<>>, NEW i \in DOMAIN m_sessions, i >= cursor,
             m_socketfd[m_sessions[i]] \in ready
      PROVE  Readable(m_sessions[i])
  <2>1. i \in Nat /\ cursor \in Nat
    BY SessionList DEF TypeOK, ServerTypeOK
  <2>2. Ahead(i)
    BY <1>1, <2>1 DEF Ahead
  <2> QED
    BY <1>1, <2>2 DEF ReadyOK, ScanReady
<1> QED
  BY <1>1 DEF ReadsNeverBlock, ReadyOK, AcceptReady

(* A step that takes the loop elsewhere leaves nothing to show.            *)
LEMMA ReadyElsewhere ==
  ASSUME pc' \notin {"accept", "scan"}
  PROVE  ReadyOK'
BY DEF ReadyOK, AcceptReady, ScanReady

(* select reports exactly the readable ones.                               *)
LEMMA ReadySelected ==
  ASSUME TypeOK, DescriptorsOwned, Select
  PROVE  ReadyOK'
<1>1. /\ pc' = "accept" /\ ready' = ReadyFds
      /\ UNCHANGED <<m_sessions, m_socketfd, backlog, inq, peer>>
  BY DEF Select, sessionVars, netVars
<1>2. \A i \in DOMAIN m_sessions :
        m_socketfd[m_sessions[i]] \in (1..MaxFd) \union {SOCKET_INVALID_DEFAULT}
  BY SessionList DEF TypeOK, SessionTypeOK
<1>3. Listener \notin (1..MaxFd) \union {SOCKET_INVALID_DEFAULT}
  BY BoundAssumption DEF Listener, SOCKET_INVALID_DEFAULT
<1>4. Listener \notin SessionFds
  BY <1>2, <1>3 DEF SessionFds
<1>5. Listener \in ReadyFds => backlog # <<>>
  BY <1>4 DEF ReadyFds
<1>6. ASSUME NEW fd \in ReadyFds
      PROVE  fd = Listener \/ \E c \in Conn : m_socketfd[c] = fd
  BY SessionList DEF ReadyFds, SessionFds
<1>7. ASSUME NEW i \in DOMAIN m_sessions, m_socketfd[m_sessions[i]] \in ReadyFds
      PROVE  Readable(m_sessions[i])
  <2>1. m_socketfd[m_sessions[i]] \in SessionFds
    BY <1>2, <1>3, <1>7 DEF ReadyFds
  <2>2. PICK j \in DOMAIN m_sessions :
          Readable(m_sessions[j]) /\ m_socketfd[m_sessions[j]] = m_socketfd[m_sessions[i]]
    BY <2>1 DEF SessionFds
  <2> QED
    BY <2>2 DEF DescriptorsOwned
<1> QED
  BY <1>1, <1>5, <1>6, <1>7 DEF ReadyOK, AcceptReady, ScanReady, Readable

(* The session accepted in this round is not in the set: its descriptor    *)
(* was free when the set was filled.                                       *)
LEMMA ReadyAccepted ==
  ASSUME TypeOK, ReadyOK, Accept
  PROVE  ReadyOK'
<1>0. PICK c : c = Head(backlog)
  OBVIOUS
<1>1. PICK fd \in FreeFds : m_socketfd' = [m_socketfd EXCEPT ![c] = fd]
  BY <1>0 DEF Accept
<1>2. /\ pc = "accept" /\ pc' = "scan"
      /\ m_sessions' = Append(m_sessions, c)
      /\ UNCHANGED <<ready, peer, inq>>
  BY <1>0 DEF Accept
<1>3. c \in Conn
  BY <1>0 DEF Accept, TypeOK, NetTypeOK
<1>4. fd \notin ready
  <2>1. fd # Listener /\ \A d \in Conn : m_socketfd[d] # fd
    BY BoundAssumption DEF FreeFds, Listener
  <2> QED
    BY <1>2, <2>1 DEF ReadyOK, AcceptReady
<1>5. /\ DOMAIN m_sessions' = 1..(Len(m_sessions) + 1)
      /\ \A i \in 1..Len(m_sessions) : m_sessions'[i] = m_sessions[i]
      /\ m_sessions'[Len(m_sessions) + 1] = c
  BY <1>2, <1>3, AppendProperties, LenProperties DEF TypeOK, SessionTypeOK
<1>6. m_socketfd'[c] = fd /\ \A d \in Conn : d # c => m_socketfd'[d] = m_socketfd[d]
  BY <1>1, <1>3 DEF TypeOK, SessionTypeOK
<1>7. ASSUME NEW i \in DOMAIN m_sessions', m_socketfd'[m_sessions'[i]] \in ready
      PROVE  Readable(m_sessions'[i])
  <2>1. m_sessions'[i] # c
    BY <1>4, <1>6, <1>7
  <2>2. i \in DOMAIN m_sessions /\ m_sessions'[i] = m_sessions[i]
    BY <1>5, <2>1, SessionList
  <2>3. m_socketfd[m_sessions[i]] \in ready
    BY <1>6, <1>7, <2>1, <2>2, SessionList
  <2> QED
    BY <1>2, <2>2, <2>3 DEF ReadyOK, AcceptReady
<1> QED
  BY <1>2, <1>7 DEF ReadyOK, AcceptReady, ScanReady, Readable

(* A session that is closed and erased: the ones behind it have moved up   *)
(* and are still readable.                                                 *)
LEMMA ReadyClosed ==
  ASSUME TypeOK, DescriptorsOwned, ReadyOK, NEW c \in Conn, Closes(c)
  PROVE  ReadyOK'
<1>1. /\ Current(c) /\ CloseSession(c) /\ Erase
      /\ UNCHANGED <<pc, cursor, ready, forward>>
      /\ pc = "scan" /\ forward = <<>>
  BY CurrentQuiet DEF Closes, serverVars
<1>2. TakenOut(cursor) /\ cursor \in DOMAIN m_sessions /\ m_sessions[cursor] = c
  BY <1>1, EraseTakesOut
<1>3. \A d \in Conn : d # c =>
        m_socketfd'[d] = m_socketfd[d] /\ (Readable(d) => Readable(d)')
  <2>1. /\ m_socketfd' = [m_socketfd EXCEPT ![c] = SOCKET_INVALID_DEFAULT]
        /\ inq' = [inq EXCEPT ![c] = <<>>]
        /\ peer' = IF Connected(c) THEN peer ELSE [peer EXCEPT ![c] = "idle"]
    BY <1>1 DEF CloseSession
  <2>2. \A d \in Conn : d # c =>
          m_socketfd'[d] = m_socketfd[d] /\ inq'[d] = inq[d] /\ peer'[d] = peer[d]
    BY <2>1 DEF TypeOK, SessionTypeOK, NetTypeOK
  <2> QED
    BY <2>2 DEF Readable
<1>4. ASSUME NEW j \in DOMAIN m_sessions', Ahead(j)',
             m_socketfd'[m_sessions'[j]] \in ready
      PROVE  Readable(m_sessions[j])'
  <2>1. PICK i \in DOMAIN m_sessions :
          /\ i = IF j < cursor THEN j ELSE j + 1
          /\ m_sessions'[j] = m_sessions[i] /\ m_sessions[i] # c
    BY <1>2, TakenOutAt
  <2>2. m_sessions[i] \in Conn
    BY SessionList
  <2>3. j \in Nat /\ cursor \in Nat
    BY <1>2, SessionList DEF TakenOut
  <2>4. j >= cursor
    BY <1>1, <1>4, <2>3 DEF Ahead
  <2>5. Ahead(i)
    BY <2>1, <2>3, <2>4 DEF Ahead
  <2>6. m_socketfd[m_sessions[i]] \in ready
    BY <1>3, <1>4, <2>1, <2>2
  <2>7. Readable(m_sessions[i])
    BY <1>1, <2>5, <2>6 DEF ReadyOK, ScanReady
  <2>8. PICK d \in Conn : d = m_sessions[i]
    BY <2>2
  <2>9. Readable(d)'
    BY <1>3, <2>1, <2>7, <2>8
  <2> QED
    BY <2>1, <2>8, <2>9 DEF Readable
<1> QED
  BY <1>1, <1>4 DEF ReadyOK, AcceptReady, ScanReady

(* A message is read from the session under the iterator only.             *)
LEMMA ReadyServed ==
  ASSUME TypeOK, DescriptorsOwned, ReadyOK, NEW c \in Conn, Serves(c)
  PROVE  ReadyOK'
<1>1. /\ UNCHANGED <<pc, ready, m_sessions, m_socketfd, peer>>
      /\ pc = "scan" /\ forward = <<>>
      /\ c = m_sessions[cursor] /\ cursor \in DOMAIN m_sessions
      /\ inq' = [inq EXCEPT ![c] = Tail(@)]
  BY CurrentQuiet, CurrentType, SessionList DEF Serves, Current, TypeOK
<1>2. cursor \in Nat /\ (cursor' = cursor + 1 \/ (cursor' = cursor /\ forward' # <<>>))
  BY DEF Serves, TypeOK, ServerTypeOK
<1>3. \A d \in Conn : d # c => (Readable(d) => Readable(d)')
  <2>1. \A d \in Conn : d # c => inq'[d] = inq[d] /\ peer'[d] = peer[d]
    BY <1>1 DEF TypeOK, NetTypeOK
  <2> QED
    BY <2>1 DEF Readable
<1>4. ASSUME NEW i \in DOMAIN m_sessions, Ahead(i)', m_socketfd[m_sessions[i]] \in ready
      PROVE  Readable(m_sessions[i])'
  <2>1. i \in Nat
    BY SessionList
  <2>2. i > cursor
    BY <1>2, <1>4, <2>1 DEF Ahead
  <2>3. m_sessions[i] # c
    BY <1>1, <1>2, <2>1, <2>2, ListedOnce
  <2>4. Readable(m_sessions[i])
    BY <1>1, <1>4, <2>2 DEF ReadyOK, ScanReady, Ahead
  <2>5. PICK d \in Conn : d = m_sessions[i]
    BY SessionList
  <2>6. Readable(d)'
    BY <1>3, <2>3, <2>4, <2>5
  <2> QED
    BY <1>1, <2>5, <2>6 DEF Readable
<1> QED
  BY <1>1, <1>4 DEF ReadyOK, AcceptReady, ScanReady, Readable

(* The loop moves on: fewer sessions are ahead.                            *)
LEMMA ReadyMovedOn ==
  ASSUME TypeOK, ReadyOK, NoNewConnection \/ ScanSkip \/ ForwardChat \/ ForwardFails
  PROVE  ReadyOK'
<1>1. UNCHANGED <<ready, m_sessions, m_socketfd, inq, peer>> /\ pc' = "scan"
  BY DEF NoNewConnection, ScanSkip, Scanning, ForwardChat, ForwardFails,
         ForwardDone, sessionVars, netVars
<1>2. \A d : Readable(d)' <=> Readable(d)
  BY <1>1 DEF Readable
<1>3. cursor \in Nat /\ \A i \in DOMAIN m_sessions : i \in Nat
  BY SessionList DEF TypeOK, ServerTypeOK
<1>4. CASE NoNewConnection
  <2>1. pc = "accept"
    BY <1>4 DEF NoNewConnection
  <2> QED
    BY <1>1, <2>1 DEF ReadyOK, AcceptReady, ScanReady, Readable
<1>5. CASE ScanSkip \/ ForwardChat \/ ForwardFails
  <2>1. pc = "scan" /\ cursor' = cursor + 1
    BY <1>5 DEF ScanSkip, Scanning, ForwardChat, ForwardFails, ForwardDone
  <2>2. \A i \in DOMAIN m_sessions : Ahead(i)' => Ahead(i)
    BY <1>3, <2>1 DEF Ahead
  <2> QED
    BY <1>1, <2>1, <2>2 DEF ReadyOK, AcceptReady, ScanReady, Readable
<1> QED
  BY <1>4, <1>5

(* A client can only make more readable.                                   *)
LEMMA ReadyClients ==
  ASSUME TypeOK, ReadyOK, (\E c \in Conn : ClientStep(c)) \/ UNCHANGED vars
  PROVE  ReadyOK'
<1>1. UNCHANGED <<pc, cursor, ready, forward, m_sessions, m_socketfd>>
  BY DEF ClientStep, Connect, Receive, Disconnect, Send, FinishFrame, vars, serverVars, sessionVars
<1>2. ASSUME NEW i \in DOMAIN m_sessions, Readable(m_sessions[i])
      PROVE  Readable(m_sessions[i])'
  <2>1. PICK d \in Conn : d = m_sessions[i] /\ InServer(d)
    BY SessionList
  <2>2. inq[d] # <<>> \/ peer[d] = "closed"
    BY <1>2, <2>1 DEF Readable
  <2>3. inq'[d] # <<>> \/ peer'[d] = "closed"
    <3>1. CASE UNCHANGED vars
      BY <2>2, <3>1 DEF vars, netVars
    <3>2. ASSUME NEW c \in Conn, Connect(c) \/ Receive(c) \/ Disconnect(c)
          PROVE  inq'[d] # <<>> \/ peer'[d] = "closed"
      BY <2>1, <2>2, <3>2
      DEF Connect, Receive, Disconnect, Connected, TypeOK, NetTypeOK
    <3>3. ASSUME NEW c \in Conn, NEW r \in ClientRequests, Send(c, r)
          PROVE  inq'[d] # <<>> \/ peer'[d] = "closed"
      <4>1. /\ inq' = [inq EXCEPT ![c] = Append(@, r)] /\ peer' = peer
            /\ inq[c] \in Seq(Request) /\ DOMAIN inq = Conn
        BY <3>3 DEF Send, TypeOK, NetTypeOK
      <4>2. r \in Request
        BY RequestAssumption
      <4>3. Append(inq[c], r) # <<>>
        BY <4>1, <4>2
      <4> QED
        BY <2>2, <4>1, <4>3
    <3>4. ASSUME NEW c \in Conn, NEW r \in ClientRequests, FinishFrame(c, r)
          PROVE  inq'[d] # <<>> \/ peer'[d] = "closed"
      <4>1. /\ inq' = [inq EXCEPT ![c] = Append(Front(@), r)] /\ peer' = peer
            /\ inq[c] \in Seq(Request) /\ inq[c] # <<>> /\ DOMAIN inq = Conn
        BY <3>4 DEF FinishFrame, BegunOnly, TypeOK, NetTypeOK
      <4>2. r \in Request
        BY RequestAssumption
      <4>3. Front(inq[c]) \in Seq(Request)
        BY <4>1, FrontProperties
      <4>4. Append(Front(inq[c]), r) # <<>>
        BY <4>2, <4>3
      <4> QED
        BY <2>2, <4>1, <4>4
    <3> QED
      BY <3>1, <3>2, <3>3, <3>4 DEF ClientStep
  <2> QED
    BY <1>1, <2>1, <2>3 DEF Readable
<1>3. \A i : Ahead(i)' <=> Ahead(i)
  BY <1>1 DEF Ahead
<1>4. backlog # <<>> => backlog' # <<>>
  BY DEF ClientStep, Connect, Receive, Disconnect, Send, FinishFrame, vars, netVars, TypeOK, NetTypeOK
<1> QED
  BY <1>1, <1>2, <1>3, <1>4 DEF ReadyOK, AcceptReady, ScanReady, Readable

LEMMA ReadyStep ==
  ASSUME IInv, DescriptorsOwned, ReadyOK, [Next]_vars
  PROVE  ReadyOK'
<1>0. TypeOK
  BY DEF IInv
<1>1. ASSUME NEW c \in Conn, SessionStep(c)
      PROVE  ReadyOK'
  <2>1. CASE Closes(c)
    BY <1>0, <2>1, ReadyClosed
  <2>2. CASE Serves(c)
    BY <1>0, <2>2, ReadyServed
  <2>3. CASE ProcessEnds
    BY <2>3, ReadyElsewhere DEF ProcessEnds
  <2> QED
    BY <1>1, <2>1, <2>2, <2>3, SessionStepShape
<1>2. CASE Select
  BY <1>0, <1>2, ReadySelected
<1>3. CASE Accept
  BY <1>0, <1>3, ReadyAccepted
<1>4. CASE NoNewConnection \/ ScanSkip \/ ForwardChat \/ ForwardFails
  BY <1>0, <1>4, ReadyMovedOn
<1>5. CASE \/ LoadUsersFromFile \/ Start \/ MainReturns \/ AcceptFails \/ ScanEnd
           \/ DestroySession \/ DestroyInboxes \/ ProcessExit
  <2>1. pc' \notin {"accept", "scan"}
    BY <1>5
    DEF LoadUsersFromFile, Start, MainReturns, AcceptFails, ScanEnd, DestroySession,
        DestroyInboxes, ProcessExit, ProcessEnds, serverVars
  <2> QED
    BY <2>1, ReadyElsewhere
<1>6. CASE (\E c \in Conn : ClientStep(c)) \/ UNCHANGED vars
  BY <1>0, <1>6, ReadyClients
<1> QED
  BY <1>1, <1>2, <1>3, <1>4, <1>5, <1>6 DEF Next, ServerStep, Terminated

(* The server's only thread never blocks in accept or recv: when it gets   *)
(* to what select reported, it is still there.                             *)
THEOREM ReadsNeverBlockTheLoop == Spec => []ReadsNeverBlock
<1>1. Init => DescriptorsOwned /\ ReadyOK
  BY DEF Init, DescriptorsOwned, InServer, ReadyOK, AcceptReady, ScanReady
<1>2. IInv /\ DescriptorsOwned /\ ReadyOK /\ [Next]_vars => (DescriptorsOwned /\ ReadyOK)'
  BY OwnedStep, ReadyStep
<1>3. IInv /\ ReadyOK => ReadsNeverBlock
  BY ReadyOKSuffices DEF IInv
<1> QED
  BY <1>1, <1>2, <1>3, Invariance, PTL DEF Spec

-----------------------------------------------------------------------------
(* The server speaks in turn.  What its invariants do not say yet: the     *)
(* session a pending chat goes to and the one it comes from are still      *)
(* logged in.                                                              *)
ForwardLoggedIn ==
    forward # <<>> =>
      /\ sessionState[Head(forward).to] = "STATE_LOGEDON"
      /\ sessionState[Head(forward).from] = "STATE_LOGEDON"

LEMMA ChatStarts ==
  ASSUME IInv, NEW c \in Conn, ChatOnline(c)
  PROVE  ForwardLoggedIn'
<1> DEFINE k == GetInbox(Head(inq[c]).to)
<1>1. k \in InboxId /\ m_session[k] # NoSession
  BY GetInboxType DEF ChatOnline, Online, IInv, TypeOK, InboxTypeOK
<1>2. m_session[k] \in Conn /\ m_inbox[m_session[k]] = k /\ k # NoInbox
  BY <1>1, InboxTypes
  DEF IInv, SessionInboxAgree, SessionPointsBack, TypeOK, InboxTypeOK
<1>3. sessionState[m_session[k]] = "STATE_LOGEDON"
  BY <1>2 DEF IInv, SessionInboxAgree, LoggedInHasInbox
<1>4. /\ Head(forward').to = m_session[k] /\ Head(forward').from = c
      /\ sessionState[c] = "STATE_LOGEDON" /\ sessionState' = sessionState
  BY DEF ChatOnline, HasRequest, sessionVars
<1> QED
  BY <1>3, <1>4 DEF ForwardLoggedIn

LEMMA ForwardLoggedInStep ==
  ASSUME IInv, ForwardLoggedIn, [Next]_vars
  PROVE  ForwardLoggedIn'
<1>1. CASE forward' = <<>>
  BY <1>1 DEF ForwardLoggedIn
<1>2. CASE UNCHANGED <<forward, sessionState>>
  BY <1>2 DEF ForwardLoggedIn
<1>3. ASSUME NEW c \in Conn, SessionStep(c)
      PROVE  ForwardLoggedIn'
  <2>1. CASE ChatOnline(c)
    BY <2>1, ChatStarts
  <2>2. CASE ~ChatOnline(c)
    <3>1. forward' = <<>>
      BY <1>3, <2>2
      DEF SessionStep, SessionFailure, SessionLogin, InvalidRequest, ShowInbox,
          GetMail, DeleteMail, Compose, Quit, ShowOnlineUsers, ChatUnknownUser,
          ChatTooLong, ChatOffline, RecvUndefined, ProcessEnds, AnswerOnly,
          Answer, HasRequest, Current, Scanning, serverVars
    <3> QED
      BY <1>1, <3>1
  <2> QED
    BY <2>1, <2>2
<1>4. CASE Accept \/ DestroySession \/ ProcessExit \/ ForwardChat \/ ForwardFails
  <2>1. forward' = <<>>
    BY <1>4
    DEF Accept, DestroySession, ProcessExit, ProcessEnds, ForwardChat, ForwardFails,
        ForwardDone, serverVars, IInv, ForwardInScan
  <2> QED
    BY <1>1, <2>1
<1>5. CASE \/ LoadUsersFromFile \/ Start \/ MainReturns \/ Select \/ NoNewConnection
           \/ AcceptFails \/ ScanSkip \/ ScanEnd \/ DestroyInboxes \/ UNCHANGED vars
           \/ \E c \in Conn : ClientStep(c)
  <2>1. UNCHANGED <<forward, sessionState>>
    BY <1>5
    DEF LoadUsersFromFile, Start, MainReturns, Select, NoNewConnection, AcceptFails,
        ScanSkip, ScanEnd, DestroyInboxes, ClientStep, Connect, Send, FinishFrame, Receive,
        Disconnect, sessionVars, serverVars, vars
  <2> QED
    BY <1>2, <2>1
<1> QED
  BY <1>3, <1>4, <1>5 DEF Next, ServerStep, Terminated

(* Only the one who is sent something has more to read after a send.       *)
LEMMA SentOnlyTo ==
  ASSUME TypeOK, NEW c \in Conn, NEW msgs \in Seq(Reply), outq' = Sent(c, msgs),
         NEW d \in Conn, Len(outq'[d]) > Len(outq[d])
  PROVE  d = c /\ Connected(c) /\ outq'[d] = outq[d] \o msgs
<1>1. \A b \in Conn : Len(outq[b]) \in Nat
  BY LenProperties DEF TypeOK, NetTypeOK
<1>2. outq'[d] # outq[d]
  BY <1>1
<1> QED
  BY <1>2 DEF Sent, TypeOK, NetTypeOK

LEMMA MoreToRead ==
  ASSUME TypeOK, NEW d \in Conn, Len(outq'[d]) > Len(outq[d])
  PROVE  /\ outq'[d] # outq[d] /\ outq'[d] # <<>>
         /\ outq[d] # <<>> => outq'[d] # Tail(outq[d])
<1>1. Len(outq[d]) \in Nat /\ outq[d] \in Seq(Reply)
  BY LenProperties DEF TypeOK, NetTypeOK
<1>2. outq[d] # <<>> => Len(Tail(outq[d])) = Len(outq[d]) - 1
  BY <1>1, HeadTailProperties
<1>3. Len(<<>>) = 0
  OBVIOUS
<1>4. \A s : s = outq'[d] => Len(s) > Len(outq[d])
  OBVIOUS
<1>5. outq'[d] # outq[d] /\ outq'[d] # <<>>
  BY <1>1, <1>3, <1>4
<1>6. ASSUME outq[d] # <<>>, outq'[d] = Tail(outq[d])
      PROVE  FALSE
  <2>1. Len(outq'[d]) = Len(outq[d]) - 1
    BY <1>2, <1>6
  <2> QED
    BY <1>1, <2>1
<1> QED
  BY <1>5, <1>6

(* A handler answers the one whose request it takes.                       *)
LEMMA AnswersInTurn ==
  ASSUME TypeOK, NEW c \in Conn, SessionStep(c),
         NEW d \in Conn, Len(outq'[d]) > Len(outq[d])
  PROVE  Current(d) /\ inq'[d] # inq[d]
<1>1. outq'[d] # outq[d]
  BY MoreToRead
<1>2. \E msgs : outq' = Sent(c, msgs)
  BY <1>1
  DEF SessionStep, SessionFailure, SessionLogin, InvalidRequest, ShowInbox, GetMail,
      DeleteMail, Compose, Quit, ShowOnlineUsers, ChatUnknownUser, ChatTooLong,
      ChatOnline, ChatOffline, RecvUndefined, ProcessEnds, AnswerOnly, Answer
<1>3. d = c /\ Connected(c)
  BY <1>1, <1>2 DEF Sent, TypeOK, NetTypeOK
<1>4. Current(c)
  BY <1>1, SessionStepShape DEF Closes, Serves, ProcessEnds
<1>5. inq[c] # <<>> /\ (inq'[c] = Tail(inq[c]) \/ inq'[c] = <<>>)
  <2>1. inq \in [Conn -> Seq(Request)]
    BY DEF TypeOK, NetTypeOK
  <2>2. inq[c] # <<>>
    BY <1>3
    DEF SessionStep, SessionFailure, SessionLogin, InvalidRequest, ShowInbox,
        GetMail, DeleteMail, Compose, Quit, ShowOnlineUsers, ChatUnknownUser,
        ChatTooLong, ChatOnline, ChatOffline, RecvUndefined, HasRequest, Connected
  <2>3. Closes(c) \/ Serves(c) \/ ProcessEnds
    BY SessionStepShape
  <2> QED
    BY <2>1, <2>2, <2>3 DEF Closes, Serves, ProcessEnds, CloseSession
<1>6. Tail(inq[c]) # inq[c]
  BY <1>5, HeadTailProperties, LenProperties DEF TypeOK, NetTypeOK
<1> QED
  BY <1>3, <1>4, <1>5, <1>6

LEMMA TurnStep ==
  ASSUME IInv, ForwardLoggedIn, [Next]_vars
  PROVE  SpeaksInTurnStep
<1> SUFFICES ASSUME NEW d \in Conn, Len(outq'[d]) > Len(outq[d])
             PROVE  \/ ~InServer(d) /\ outq'[d] = outq[d] \o <<Welcome>>
                    \/ Current(d) /\ inq'[d] # inq[d]
                    \/ /\ forward # <<>> /\ Head(forward).from = d
                       /\ ~Connected(Head(forward).to)
                    \/ /\ sessionState[d] = "STATE_LOGEDON"
                       /\ \E chat \in Chat : outq'[d] = Append(outq[d], chat)
  BY DEF SpeaksInTurnStep
<1>0. TypeOK /\ outq'[d] # outq[d]
  BY MoreToRead DEF IInv
<1>1. ASSUME NEW c \in Conn, SessionStep(c)
      PROVE  Current(d) /\ inq'[d] # inq[d]
  BY <1>0, <1>1, AnswersInTurn
<1>2. CASE Accept
  <2>1. PICK c \in Conn : c = Head(backlog) /\ outq' = Sent(c, <<Welcome>>)
    BY <1>0, <1>2, HeadTailProperties DEF Accept, TypeOK, NetTypeOK
  <2>2. d = c /\ outq'[d] = outq[d] \o <<Welcome>>
    BY <1>0, <2>1, SentOnlyTo, WelcomeType, OneMessage
  <2>3. ~InServer(c)
    <3>1. backlog \in Seq(Conn) /\ backlog # <<>>
      BY <1>0, <1>2 DEF Accept, TypeOK, NetTypeOK
    <3>2. 1 \in DOMAIN backlog /\ backlog[1] = Head(backlog)
      BY <3>1, LenProperties, HeadTailProperties, EmptySeq
    <3> QED
      BY <2>1, <3>2 DEF IInv, BacklogWaits
  <2> QED
    BY <2>2, <2>3
<1>3. CASE ForwardChat
  <2>1. forward # <<>> /\ Head(forward).to \in Conn /\ Head(forward).chat \in Chat
        /\ outq' = Sent(Head(forward).to, <<Head(forward).chat>>)
        /\ <<Head(forward).chat>> \in Seq(Reply)
    <3>1. Head(forward) \in [from : Conn, to : Conn, chat : Chat]
      BY <1>0, <1>3, HeadTailProperties DEF ForwardChat, TypeOK, ServerTypeOK
    <3> QED
      BY <1>0, <1>3, <3>1, ForwardType DEF ForwardChat, TypeOK
  <2>2. d = Head(forward).to /\ outq'[d] = outq[d] \o <<Head(forward).chat>>
    BY <1>0, <2>1, SentOnlyTo
  <2>3. outq[d] \o <<Head(forward).chat>> = Append(outq[d], Head(forward).chat)
    BY <1>0, <2>1, AppendIsConcat DEF TypeOK, NetTypeOK
  <2> QED
    BY <2>1, <2>2, <2>3 DEF ForwardLoggedIn
<1>4. CASE ForwardFails
  <2>1. forward # <<>> /\ Head(forward).from \in Conn /\ ~Connected(Head(forward).to)
        /\ outq' = Sent(Head(forward).from, <<General("INTERNAL_FAILURE")>>)
    BY <1>0, <1>4, ForwardType DEF ForwardFails, TypeOK
  <2>2. d = Head(forward).from
    BY <1>0, <2>1, SentOnlyTo, OneGeneral DEF Status
  <2> QED
    BY <2>1, <2>2
<1>5. CASE \/ LoadUsersFromFile \/ Start \/ MainReturns \/ Select \/ NoNewConnection
           \/ AcceptFails \/ ScanSkip \/ ScanEnd \/ DestroySession \/ DestroyInboxes
           \/ ProcessExit \/ UNCHANGED vars
  <2>1. outq' = outq
    BY <1>5
    DEF LoadUsersFromFile, Start, MainReturns, Select, NoNewConnection, AcceptFails,
        ScanSkip, ScanEnd, DestroySession, DestroyInboxes, ProcessExit, ProcessEnds,
        netVars, vars
  <2> QED
    BY <1>0, <2>1
<1>6. ASSUME NEW c \in Conn, ClientStep(c)
      PROVE  FALSE
  <2>1. \/ outq' = outq
        \/ outq[c] # <<>> /\ outq' = [outq EXCEPT ![c] = Tail(@)]
        \/ outq' = [outq EXCEPT ![c] = <<>>]
    BY <1>6 DEF ClientStep, Connect, Send, FinishFrame, Receive, Disconnect
  <2>2. outq \in [Conn -> Seq(Reply)]
    BY <1>0 DEF TypeOK, NetTypeOK
  <2> QED
    BY <1>0, <2>1, <2>2, MoreToRead
<1> QED
  BY <1>1, <1>2, <1>3, <1>4, <1>5, <1>6 DEF Next, ServerStep, Terminated

(* The server speaks to a connection in turn only: its welcome, an answer  *)
(* to its own request, the failure of its own chat, or one chat to a       *)
(* session that is still logged in when it arrives (Server::start,         *)
(* sessionRequestSendChatMessage).                                         *)
THEOREM ServerSpeaksInTurn == Spec => SpeaksInTurn
<1>1. Init => ForwardLoggedIn
  BY DEF Init, ForwardLoggedIn
<1>2. IInv /\ ForwardLoggedIn /\ [Next]_vars => ForwardLoggedIn'
  BY ForwardLoggedInStep
<1>3. IInv /\ ForwardLoggedIn /\ [Next]_vars => [SpeaksInTurnStep]_vars
  BY TurnStep
<1> QED
  BY <1>1, <1>2, <1>3, Invariance, PTL DEF Spec, SpeaksInTurn
=============================================================================
