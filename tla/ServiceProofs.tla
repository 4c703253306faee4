---------------------------- MODULE ServiceProofs ----------------------------
(***************************************************************************)
(* Proof that MailServer implements MailService under the mapping of       *)
(* MailServerService, for every value of the constants: the first state    *)
(* of the server maps to the first state of the service, and every step of *)
(* the server to a step of the service or to none.                         *)
(***************************************************************************)
EXTENDS MailServerService, MailSystemProofs, FunctionTheorems

(* What the mapping needs besides the invariants of the server: before     *)
(* start there are no sessions and no mails; either all inboxes exist or   *)
(* none; and only requests of the clients are waiting to be read.          *)
NothingBeforeStart ==
    pc = "main" =>
      /\ m_sessions = <<>>
      /\ \A k \in InboxId : m_mails[k] = <<>> /\ m_idOfLastMail[k] = 0
AllInboxesOrNone == m_all_inbox = {} \/ m_all_inbox = InboxId
OnlyClientsAsk == inq \in [Conn -> Seq(ClientRequests)]
MappingInv == NothingBeforeStart /\ AllInboxesOrNone /\ OnlyClientsAsk

ServiceInv == IInv /\ DescriptorsOwned /\ MailIdsAscend /\ MappingInv

-----------------------------------------------------------------------------
(* MappingInv is inductive.                                                *)
LEMMA InboxesListedOrNone ==
  ASSUME AllInboxesOrNone, [Next]_vars
  PROVE  AllInboxesOrNone'
<1>1. m_all_inbox' = m_all_inbox \/ m_all_inbox' = {} \/ m_all_inbox' = InboxId
  <2>1. ASSUME NEW c \in Conn, SessionStep(c)
        PROVE  m_all_inbox' = m_all_inbox \/ m_all_inbox' = {}
    BY <2>1
    DEF SessionStep, SessionFailure, SessionLogin, InvalidRequest, ShowInbox,
        GetMail, DeleteMail, Compose, Quit, ShowOnlineUsers, ChatUnknownUser,
        ChatTooLong, ChatOnline, ChatOffline, RecvUndefined, ProcessEnds,
        AnswerOnly, Answer, inboxVars
  <2>2. CASE ServerStep /\ ~ \E c \in Conn : SessionStep(c)
    BY <2>2
    DEF ServerStep, LoadUsersFromFile, Start, MainReturns, Select,
        NoNewConnection, Accept, AcceptFails, ScanSkip, ScanEnd, ForwardChat,
        ForwardFails, ForwardDone, DestroySession, DestroyInboxes, ProcessExit,
        ProcessEnds, inboxVars
  <2>3. CASE \E c \in Conn : ClientStep(c)
    BY <2>3 DEF ClientStep, Connect, Send, FinishFrame, Receive, Disconnect, inboxVars
  <2>4. CASE UNCHANGED vars
    BY <2>4 DEF vars, inboxVars
  <2> QED
    BY <2>1, <2>2, <2>3, <2>4 DEF Next, Terminated
<1> QED
  BY <1>1 DEF AllInboxesOrNone, InboxId

(* main is left once; until then nobody can connect and nothing is stored. *)
LEMMA NothingBeforeStartStep ==
  ASSUME NothingBeforeStart, [Next]_vars
  PROVE  NothingBeforeStart'
<1>1. SUFFICES ASSUME pc' = "main"
               PROVE  pc = "main" /\ UNCHANGED <<m_sessions, m_mails, m_idOfLastMail>>
  BY DEF NothingBeforeStart
<1>2. ASSUME NEW c \in Conn, SessionStep(c)
      PROVE  FALSE
  <2>1. Closes(c) \/ Serves(c) \/ ProcessEnds
    BY <1>2, SessionStepShape
  <2> QED
    BY <1>1, <2>1 DEF Closes, Serves, ProcessEnds, Current, Scanning, serverVars
<1>3. CASE ServerStep /\ ~ \E c \in Conn : SessionStep(c)
  BY <1>1, <1>3
  DEF ServerStep, LoadUsersFromFile, Start, MainReturns, Select, NoNewConnection,
      Accept, AcceptFails, ScanSkip, ScanEnd, Scanning, ForwardChat, ForwardFails,
      ForwardDone, DestroySession, DestroyInboxes, ProcessExit, ProcessEnds,
      sessionVars, inboxVars, serverVars
<1>4. CASE \E c \in Conn : ClientStep(c)
  BY <1>1, <1>4
  DEF ClientStep, Connect, Send, FinishFrame, Receive, Disconnect, sessionVars,
      inboxVars, serverVars
<1>5. CASE UNCHANGED vars
  BY <1>1, <1>5 DEF vars, sessionVars, inboxVars, serverVars
<1> QED
  BY <1>2, <1>3, <1>4, <1>5 DEF Next, Terminated

LEMMA OnlyClientsAskStep ==
  ASSUME OnlyClientsAsk, [Next]_vars
  PROVE  OnlyClientsAsk'
<1>1. CASE inq' = inq
  BY <1>1 DEF OnlyClientsAsk
<1>2. ASSUME NEW c \in Conn, inq' = [inq EXCEPT ![c] = Tail(@)], inq[c] # <<>>
      PROVE  OnlyClientsAsk'
  <2>1. Tail(inq[c]) \in Seq(ClientRequests)
    BY <1>2, HeadTailProperties DEF OnlyClientsAsk
  <2> QED
    BY <1>2, <2>1 DEF OnlyClientsAsk
<1>3. ASSUME NEW c \in Conn, inq' = [inq EXCEPT ![c] = <<>>]
      PROVE  OnlyClientsAsk'
  BY <1>3 DEF OnlyClientsAsk
<1>4. ASSUME NEW c \in Conn, NEW r \in ClientRequests, Send(c, r)
      PROVE  OnlyClientsAsk'
  <2>1. Append(inq[c], r) \in Seq(ClientRequests)
    BY DEF OnlyClientsAsk
  <2> QED
    BY <1>4, <2>1 DEF Send, OnlyClientsAsk
<1>5. CASE ProcessEnds
  BY <1>5 DEF ProcessEnds, OnlyClientsAsk
<1>11. ASSUME NEW c \in Conn, NEW r \in ClientRequests, FinishFrame(c, r)
       PROVE  OnlyClientsAsk'
  <2>1. inq[c] \in Seq(ClientRequests) /\ inq[c] # <<>>
    BY <1>11 DEF OnlyClientsAsk, FinishFrame, BegunOnly
  <2>2. Append(Front(inq[c]), r) \in Seq(ClientRequests)
    BY <2>1, FrontProperties
  <2> QED
    BY <1>11, <2>2 DEF FinishFrame, OnlyClientsAsk
<1>6. ASSUME NEW c \in Conn, SessionStep(c)
      PROVE  OnlyClientsAsk'
  <2>1. CASE SessionFailure(c) \/ Quit(c)
    BY <1>3, <2>1 DEF SessionFailure, Quit, CloseSession
  <2>2. CASE \/ SessionLogin(c) \/ InvalidRequest(c) \/ ShowInbox(c) \/ GetMail(c)
             \/ DeleteMail(c) \/ Compose(c) \/ ShowOnlineUsers(c)
             \/ ChatUnknownUser(c) \/ ChatTooLong(c) \/ ChatOnline(c)
             \/ ChatOffline(c)
    <3>1. inq' = [inq EXCEPT ![c] = Tail(@)] /\ inq[c] # <<>>
      BY <2>2
      DEF SessionLogin, InvalidRequest, ShowInbox, GetMail, DeleteMail, Compose,
          ShowOnlineUsers, ChatUnknownUser, ChatTooLong, ChatOnline, ChatOffline,
          AnswerOnly, Answer, HasRequest
    <3> QED
      BY <1>2, <3>1
  <2>3. CASE RecvUndefined(c)
    BY <1>5, <2>3 DEF RecvUndefined
  <2> QED
    BY <1>6, <2>1, <2>2, <2>3 DEF SessionStep
<1>7. CASE DestroySession
  <2>1. CASE Last(m_sessions) \in Conn
    BY <1>3, <1>7, <2>1 DEF DestroySession, CloseSession
  <2>2. CASE Last(m_sessions) \notin Conn
    BY <1>1, <1>7, <2>2 DEF DestroySession, CloseSession, OnlyClientsAsk
  <2> QED
    BY <2>1, <2>2
<1>8. CASE ProcessExit
  BY <1>5, <1>8 DEF ProcessExit
<1>9. CASE \/ LoadUsersFromFile \/ Start \/ MainReturns \/ Select
           \/ NoNewConnection \/ Accept \/ AcceptFails \/ ScanSkip \/ ScanEnd
           \/ ForwardChat \/ ForwardFails \/ DestroyInboxes \/ UNCHANGED vars
  BY <1>1, <1>9
  DEF LoadUsersFromFile, Start, MainReturns, Select, NoNewConnection, Accept,
      AcceptFails, ScanSkip, ScanEnd, ForwardChat, ForwardFails, ForwardDone,
      DestroyInboxes, netVars, vars
<1>10. ASSUME NEW c \in Conn, ClientStep(c)
       PROVE  OnlyClientsAsk'
  BY <1>1, <1>4, <1>10, <1>11 DEF ClientStep, Connect, Receive, Disconnect
<1> QED
  BY <1>6, <1>7, <1>8, <1>9, <1>10 DEF Next, ServerStep, Terminated

LEMMA MappingInvariance == Spec => []ServiceInv
<1>1. Init => MappingInv
  BY DEF Init, MappingInv, NothingBeforeStart, AllInboxesOrNone, OnlyClientsAsk
<1>2. MappingInv /\ [Next]_vars => MappingInv'
  BY InboxesListedOrNone, NothingBeforeStartStep, OnlyClientsAskStep DEF MappingInv
<1>3. Spec => []MappingInv
  BY <1>1, <1>2, PTL DEF Spec
<1>4. IInv /\ DescriptorsOwned /\ MailIdsAscend /\ MappingInv => ServiceInv
  BY DEF ServiceInv
<1> QED
  BY <1>3, <1>4, Invariance, SessionsOwnTheirDescriptors, MailIdsAlwaysAscend, PTL
-----------------------------------------------------------------------------
(* The messages of both specifications are the same.                       *)
LEMMA SameMessages ==
  /\ Service!Welcome = Welcome /\ Service!HalfFrame = HalfFrame
  /\ Service!OfflineSubject = OfflineSubject
  /\ \A status : Service!General(status) = General(status)
  /\ \A rows : Service!ShowInboxRes(rows) = ShowInboxRes(rows)
  /\ \A mail : Service!GetMailRes(mail) = GetMailRes(mail)
  /\ \A users : Service!OnlineRes(users) = OnlineRes(users)
  /\ \A from, text : Service!ChatMessage(from, text) = ChatMessage(from, text)
BY DEF Service!Welcome, Welcome, Service!HalfFrame, HalfFrame, Service!OfflineSubject, OfflineSubject,
       Service!General, General, Service!ShowInboxRes, ShowInboxRes,
       Service!GetMailRes, GetMailRes, Service!OnlineRes, OnlineRes,
       Service!ChatMessage, ChatMessage

(* So are the operators both take from the library.                        *)
LEMMA SameLibrary ==
  /\ \A S : Service!Cardinality(S) = Cardinality(S)
  /\ \A S, T : Service!Bijection(S, T) = Bijection(S, T)
<1>1. \A S : Service!Cardinality(S) = Cardinality(S)
  BY DEF Service!Cardinality, Cardinality
<1>2. \A S, T : Service!Bijection(S, T) = Bijection(S, T)
  BY DEF Service!Bijection, Bijection, Service!Injection, Injection,
         Service!Surjection, Surjection, Service!IsInjective, IsInjective
<1> QED
  BY <1>1, <1>2

(* Each variable of the service depends on a part of the server's state.   *)
LEMMA MappedParts ==
  /\ m_all_inbox' = m_all_inbox =>
       /\ Accounts' = Accounts
       /\ \A user : GetInbox(user)' = GetInbox(user)
  /\ peer' = peer => Here' = Here
  /\ backlog' = backlog => Waiting' = Waiting
  /\ m_sessions' = m_sessions => Welcomed' = Welcomed
  /\ m_inbox' = m_inbox => Who' = Who
  /\ pc' = pc => Stopping' = Stopping
<1>1. ASSUME m_all_inbox' = m_all_inbox
      PROVE  Accounts' = Accounts /\ \A user : GetInbox(user)' = GetInbox(user)
  <2>1. \A user : GetInbox(user)' = GetInbox(user)
    BY <1>1 DEF GetInbox, UserOf
  <2> QED
    BY <2>1 DEF Accounts, AccountName
<1> QED
  BY <1>1 DEF Here, Connected, Waiting, InBacklog, Welcomed, InServer, Who, UserOf,
              Stopping

LEMMA BoxesSame ==
  ASSUME UNCHANGED <<m_all_inbox, m_mails, m_idOfLastMail>>
  PROVE  Box' = Box /\ LastId' = LastId
<1>1. \A user : GetInbox(user)' = GetInbox(user)
  BY MappedParts
<1> QED
  BY <1>1 DEF Box, LastId, AccountName, Stored

(* Steps of the loop that the service does not see.                        *)
LEMMA Unseen ==
  ASSUME UNCHANGED <<m_sessions, m_inbox, m_all_inbox, m_mails, m_idOfLastMail,
                     peer, backlog, inq, outq, forward>>,
         Stopping' = Stopping
  PROVE  UNCHANGED Service!serviceVars
BY MappedParts, BoxesSame DEF Service!serviceVars

(* Sending is telling.                                                     *)
LEMMA SentIsTold ==
  ASSUME NEW c \in Conn, NEW msgs, outq' = Sent(c, msgs)
  PROVE  Service!Tell(c, msgs)
BY DEF Sent, Service!Tell, Here

-----------------------------------------------------------------------------
(* Who is signed in, and what is in his box.                               *)
LEMMA AccountOfInbox ==
  ASSUME NEW k \in InboxId
  PROVE  UserOf(k).user \in AccountName
<1>1. Len(UsersFile) \in Nat /\ DOMAIN UsersFile = 1..Len(UsersFile)
  BY InboxTypes, FileAssumption, LenProperties
<1>2. Len(UsersFile) - k + 1 \in DOMAIN UsersFile
  BY <1>1 DEF InboxId
<1> QED
  BY <1>2 DEF UserOf, AccountName

LEMMA AccountNames == AccountName \subseteq Name /\ NoUser \notin AccountName
<1>1. DOMAIN UsersFile = 1..Len(UsersFile)
      /\ \A i \in 1..Len(UsersFile) :
           UsersFile[i] \in [user : Name, pass : Password]
  BY FileAssumption, LenProperties, ElementOfSeq
<1>2. \A i \in DOMAIN UsersFile : UsersFile[i].user \in Name
  BY <1>1
<1> QED
  BY <1>2, NoUserAssumption DEF AccountName

LEMMA SignedIn ==
  ASSUME ServiceInv, NEW c \in Conn, m_inbox[c] # NoInbox
  PROVE  /\ m_inbox[c] \in InboxId
         /\ m_session[m_inbox[c]] = c
         /\ GetInbox(UserOf(m_inbox[c]).user) = m_inbox[c]
         /\ Who[c] = UserOf(m_inbox[c]).user
         /\ Who[c] \in AccountName /\ Who[c] # NoUser
         /\ Box[Who[c]] = Stored(m_mails[m_inbox[c]])
<1>1. m_inbox[c] \in InboxId /\ m_session[m_inbox[c]] = c
  BY DEF ServiceInv, IInv, SessionInboxAgree, InboxPointsBack, TypeOK, SessionTypeOK
<1>2. GetInbox(UserOf(m_inbox[c]).user) = m_inbox[c]
  BY <1>1, SessionAssumption DEF ServiceInv, IInv, InboxIsFirst
<1>3. Who[c] = UserOf(m_inbox[c]).user
  BY DEF Who
<1>4. Who[c] \in AccountName /\ Who[c] # NoUser
  BY <1>1, <1>3, AccountOfInbox, AccountNames
<1>5. Box[Who[c]] = Stored(m_mails[m_inbox[c]])
  BY <1>2, <1>3, <1>4 DEF Box
<1> QED
  BY <1>1, <1>2, <1>3, <1>4, <1>5

LEMMA NotSignedIn ==
  ASSUME NEW c \in Conn, m_inbox[c] = NoInbox
  PROVE  Who[c] = NoUser
BY DEF Who

(* m_loggedIn of the inbox of a name says whether its user is signed in.   *)
LEMMA LoggedInIsSignedIn ==
  ASSUME ServiceInv, NEW u, GetInbox(u) # NoInbox
  PROVE  /\ GetInbox(u) \in InboxId
         /\ u \in Accounts
         /\ Service!SignedIn(u) <=> m_loggedIn[GetInbox(u)]
         /\ Online(GetInbox(u)) <=> m_loggedIn[GetInbox(u)]
         /\ m_loggedIn[GetInbox(u)] =>
              m_session[GetInbox(u)] \in Conn /\ Who[m_session[GetInbox(u)]] = u
<1> DEFINE k == GetInbox(u)
<1>1. k \in InboxId /\ UserOf(k).user = u
  BY GetInboxLive DEF ServiceInv, IInv, TypeOK, InboxTypeOK
<1>2. u \in AccountName /\ u # NoUser
  BY <1>1, AccountOfInbox, AccountNames
<1>3. m_loggedIn[k] <=> m_session[k] # NoSession
  BY <1>1 DEF ServiceInv, IInv, SessionInboxAgree, LoggedInFlag
<1>4. ASSUME m_loggedIn[k]
      PROVE  m_session[k] \in Conn /\ Who[m_session[k]] = u
  <2>1. m_session[k] \in Conn /\ m_inbox[m_session[k]] = k
    BY <1>1, <1>3, <1>4
    DEF ServiceInv, IInv, SessionInboxAgree, SessionPointsBack, TypeOK, InboxTypeOK
  <2> QED
    BY <1>1, <2>1, InboxTypes DEF Who
<1>5. ASSUME NEW c \in Conn, Who[c] = u
      PROVE  m_loggedIn[k]
  <2>1. m_inbox[c] # NoInbox
    BY <1>2, <1>5 DEF Who
  <2>2. m_inbox[c] = k /\ m_session[k] = c
    BY <1>5, <2>1, SignedIn
  <2> QED
    BY <1>3, <2>2, SessionAssumption
<1> QED
  BY <1>1, <1>2, <1>3, <1>4, <1>5 DEF Accounts, Service!SignedIn, Online

-----------------------------------------------------------------------------
(* A request that is being handled, and its answer.                        *)
LEMMA ServedRequest ==
  ASSUME ServiceInv, NEW c \in Conn, NEW state, NEW types, HasRequest(c, state, types),
         NEW wanted, Head(inq[c]).type \in wanted
  PROVE  Service!Serving(c, wanted)
<1>1. InServer(c)
  BY CurrentType DEF ServiceInv, IInv, TypeOK, HasRequest
<1> QED
  BY <1>1 DEF HasRequest, Current, Scanning, Service!Serving, Stopping, Welcomed

LEMMA LoggedInRequest ==
  ASSUME ServiceInv, NEW c \in Conn, NEW types, HasRequest(c, "STATE_LOGEDON", types)
  PROVE  /\ Service!Requested(c, types)
         /\ m_inbox[c] # NoInbox
         /\ Head(inq[c]) \in Request /\ inq[c] # <<>> /\ Head(inq[c]).type \in types
<1>1. m_inbox[c] # NoInbox
  BY DEF HasRequest, ServiceInv, IInv, SessionInboxAgree, LoggedInHasInbox
<1>2. Who[c] # NoUser
  BY <1>1, SignedIn
<1>3. Service!Serving(c, types)
  BY ServedRequest DEF HasRequest
<1>4. Head(inq[c]) \in Request
  BY HeadType DEF ServiceInv, IInv, TypeOK, HasRequest
<1> QED
  BY <1>1, <1>2, <1>3, <1>4 DEF Service!Requested, HasRequest

LEMMA AnswerMaps ==
  ASSUME NEW c \in Conn, NEW msgs,
         Answer(c, TypeReplies(Head(inq[c])) \o msgs)
  PROVE  Service!Answer(c, TypeReplies(Head(inq[c])) \o msgs)
<1>1. Service!Tell(c, TypeReplies(Head(inq[c])) \o msgs)
  BY SentIsTold DEF Answer
<1> QED
  BY <1>1, MappedParts DEF Answer, Service!Answer

LEMMA PlainAnswerMaps ==
  ASSUME NEW c \in Conn, NEW msgs \in Seq(Reply), Answer(c, msgs),
         Head(inq[c]).type # "NO_TYPE"
  PROVE  Service!Answer(c, msgs)
<1>1. TypeReplies(Head(inq[c])) \o msgs = msgs
  BY DEF TypeReplies
<1> QED
  BY <1>1, AnswerMaps

(* Handlers that only answer.                                              *)
LEMMA AnswerOnlyKeeps ==
  ASSUME NEW c \in Conn, NEW msgs, AnswerOnly(c, msgs)
  PROVE  UNCHANGED <<Who, Box, LastId, forward>>
BY MappedParts, BoxesSame DEF AnswerOnly, Answer
-----------------------------------------------------------------------------
(* A step of the service, or none.                                         *)
ServiceStep == Service!Next \/ UNCHANGED Service!serviceVars

(* Every account has an inbox once the users are loaded.                   *)
LEMMA AccountHasInbox ==
  ASSUME NEW u \in AccountName
  PROVE  /\ m_all_inbox = InboxId => GetInbox(u) \in InboxId
         /\ m_all_inbox' = InboxId => GetInbox(u)' \in InboxId
<1>1. Len(UsersFile) \in Nat /\ DOMAIN UsersFile = 1..Len(UsersFile)
  BY FileAssumption, LenProperties
<1>2. PICK i \in DOMAIN UsersFile : UsersFile[i].user = u
  BY DEF AccountName
<1>3. Len(UsersFile) - i + 1 \in InboxId
      /\ Len(UsersFile) - (Len(UsersFile) - i + 1) + 1 = i
  BY <1>1 DEF InboxId
<1>4. UserOf(Len(UsersFile) - i + 1).user = u
  BY <1>2, <1>3 DEF UserOf
<1> DEFINE found == {k \in InboxId : UserOf(k).user = u}
<1>5. found # {}
  BY <1>3, <1>4
<1>6. Min(found) \in found
  BY <1>5, InboxTypes, MinIsLeast
<1> QED
  BY <1>5, <1>6 DEF GetInbox, UserOf

LEMMA NoInboxFound ==
  ASSUME NEW u, m_all_inbox = {}
  PROVE  GetInbox(u) = NoInbox
BY DEF GetInbox

(* Without an inbox, or with an empty one, nothing is in a box.            *)
LEMMA NothingStored == Stored(<<>>) = {}
BY DEF Stored

LEMMA ServiceAccounts == Service!Account = AccountName
BY DEF Service!Account, Secret

LEMMA LoadUsersMaps ==
  ASSUME ServiceInv, LoadUsersFromFile
  PROVE  ServiceStep
<1>1. UNCHANGED <<m_sessions, m_inbox, m_mails, m_idOfLastMail, peer, backlog,
                  inq, outq, forward>>
      /\ Stopping' = Stopping
  BY DEF LoadUsersFromFile, sessionVars, netVars, Stopping
<1>2. CASE m_all_inbox' = m_all_inbox
  BY <1>1, <1>2, Unseen DEF ServiceStep
<1>3. CASE m_all_inbox' = InboxId
  <2>1. m_sessions = <<>>
        /\ \A k \in InboxId : m_mails[k] = <<>> /\ m_idOfLastMail[k] = 0
    BY DEF LoadUsersFromFile, ServiceInv, MappingInv, NothingBeforeStart
  <2>2. m_all_inbox = {}
    BY DEF LoadUsersFromFile, ServiceInv, IInv, UsersLoadedOnce
  <2>3. \A u \in AccountName : GetInbox(u)' \in InboxId
    BY <1>3, AccountHasInbox
  <2>4. Accounts' = AccountName
    BY <2>3, InboxTypes DEF Accounts, AccountName
  <2>5. Box = [u \in AccountName |-> {}] /\ LastId = [u \in AccountName |-> 0]
    BY <2>2, NoInboxFound DEF Box, LastId
  <2>6. Box' = [u \in AccountName |-> {}] /\ LastId' = [u \in AccountName |-> 0]
    BY <1>1, <2>1, <2>3, NothingStored DEF Box, LastId, AccountName, Stored
  <2>7. Welcomed = {} /\ ~Stopping
    BY <2>1 DEF Welcomed, InServer, Stopping, LoadUsersFromFile
  <2>8. UNCHANGED <<Stopping, Here, Waiting, Welcomed, Who>>
    BY <1>1, MappedParts
  <2>9. Service!OpenAccounts
    BY <1>1, <2>4, <2>5, <2>6, <2>7, <2>8, ServiceAccounts DEF Service!OpenAccounts
  <2> QED
    BY <2>9 DEF ServiceStep, Service!Next
<1> QED
  BY <1>2, <1>3 DEF LoadUsersFromFile

(* main or start gives up.                                                 *)
LEMMA StopMaps ==
  ASSUME ServiceInv, pc' = "exit", pc # "scan", forward' = forward,
         UNCHANGED <<sessionVars, inboxVars, netVars>>
  PROVE  ServiceStep
<1>1. forward = <<>>
  BY DEF ServiceInv, IInv, ForwardInScan
<1>2. UNCHANGED <<Accounts, Here, Waiting, Welcomed, Who, Box, LastId, inq, outq>>
  BY MappedParts, BoxesSame DEF sessionVars, inboxVars, netVars
<1>3. Stopping'
  BY DEF Stopping
<1>4. Service!Stop
  BY <1>1, <1>2, <1>3 DEF Service!Stop
<1> QED
  BY <1>4 DEF ServiceStep, Service!Next

LEMMA LoopMaps ==
  ASSUME ServiceInv,
         \/ Start \/ MainReturns \/ Select \/ NoNewConnection \/ AcceptFails
         \/ ScanSkip \/ ScanEnd
  PROVE  ServiceStep
<1>1. CASE pc' = "exit"
  BY <1>1, StopMaps
  DEF Start, MainReturns, Select, NoNewConnection, AcceptFails, ScanSkip, ScanEnd,
      Scanning
<1>2. CASE pc' # "exit"
  <2>1. UNCHANGED <<sessionVars, inboxVars, netVars, forward>>
        /\ pc \notin {"exit", "done"} /\ pc' \notin {"exit", "done"}
    BY <1>2
    DEF Start, MainReturns, Select, NoNewConnection, AcceptFails, ScanSkip,
        ScanEnd, Scanning
  <2> QED
    BY <2>1, Unseen DEF sessionVars, inboxVars, netVars, Stopping, ServiceStep
<1> QED
  BY <1>1, <1>2

-----------------------------------------------------------------------------
(* The end of the service.                                                 *)
LEMMA AccountsGone ==
  ASSUME m_all_inbox' = {}
  PROVE  /\ Accounts' = {}
         /\ Box' = [u \in AccountName |-> {}]
         /\ LastId' = [u \in AccountName |-> 0]
<1>1. \A u : GetInbox(u)' = NoInbox
  BY DEF GetInbox
<1> QED
  BY <1>1 DEF Accounts, Box, LastId, AccountName

LEMMA VanishMaps ==
  ASSUME ProcessEnds
  PROVE  Service!Vanish
<1>1. Accounts' = {} /\ Box' = [u \in AccountName |-> {}]
      /\ LastId' = [u \in AccountName |-> 0]
  BY AccountsGone DEF ProcessEnds
<1>2. Stopping' /\ Waiting' = {} /\ Welcomed' = {}
  BY DEF ProcessEnds, Stopping, Waiting, Welcomed, InBacklog, InServer
<1>3. Who' = [c \in Conn |-> NoUser]
  BY DEF ProcessEnds, Who
<1>4. Here' = Here
  BY DEF ProcessEnds, Here, Connected
<1> QED
  BY <1>1, <1>2, <1>3, <1>4, ServiceAccounts DEF ProcessEnds, Service!Vanish

LEMMA EndMaps ==
  ASSUME ServiceInv, DestroyInboxes \/ ProcessExit
  PROVE  ServiceStep
<1>1. Stopping /\ Welcomed = {}
  BY DEF DestroyInboxes, ProcessExit, Stopping, Welcomed, InServer
<1>2. CASE DestroyInboxes
  <2>1. UNCHANGED <<Stopping, Here, Waiting, Welcomed, Who, inq, outq, forward>>
    BY <1>2, MappedParts DEF DestroyInboxes, serverVars, sessionVars, netVars
  <2>2. Service!CloseAccounts
    BY <1>1, <1>2, <2>1, AccountsGone, ServiceAccounts
    DEF DestroyInboxes, Service!CloseAccounts
  <2> QED
    BY <2>2 DEF ServiceStep, Service!Next
<1>3. CASE ProcessExit
  <2>1. Accounts = {}
    BY <1>3, NoInboxFound DEF ProcessExit, Accounts
  <2>2. Service!End
    BY <1>1, <1>3, <2>1, VanishMaps DEF ProcessExit, Service!End
  <2> QED
    BY <2>2 DEF ServiceStep, Service!Next
<1> QED
  BY <1>2, <1>3

(* A failed recv inside a message.                                         *)
LEMMA CrashMaps ==
  ASSUME ServiceInv, NEW c \in Conn, RecvUndefined(c)
  PROVE  ServiceStep
<1>1. InServer(c) /\ ~Connected(c)
  BY CurrentType DEF ServiceInv, IInv, TypeOK, RecvUndefined, Connected
<1>2. Service!Crash(c)
  BY <1>1, VanishMaps DEF RecvUndefined, Service!Crash, Welcomed, Here
<1> QED
  BY <1>2 DEF ServiceStep, Service!Next, Service!Shortcoming

-----------------------------------------------------------------------------
(* Sessions begin and end.                                                 *)
LEMMA WelcomeMaps ==
  ASSUME ServiceInv, Accept
  PROVE  ServiceStep
<1>1. backlog \in Seq(Conn) /\ backlog # <<>>
  BY DEF ServiceInv, IInv, TypeOK, NetTypeOK, Accept
<1> SUFFICES ASSUME NEW c \in Conn, c = Head(backlog)
             PROVE  ServiceStep
  BY <1>1, HeadTailProperties
<1>2. Len(backlog) \in Nat \ {0} /\ DOMAIN backlog = 1..Len(backlog)
      /\ c = backlog[1]
      /\ Tail(backlog) \in Seq(Conn) /\ Len(Tail(backlog)) = Len(backlog) - 1
      /\ DOMAIN Tail(backlog) = 1..Len(Tail(backlog))
      /\ \A i \in 1..Len(Tail(backlog)) : Tail(backlog)[i] = backlog[i + 1]
  BY <1>1, LenProperties, HeadTailProperties, EmptySeq
<1>3. ~InServer(c) /\ \A i \in DOMAIN backlog : backlog[i] = c => i = 1
  BY <1>2 DEF ServiceInv, IInv, BacklogWaits
<1>4. c \in Waiting /\ Waiting' = Waiting \ {c}
  <2>1. backlog' = Tail(backlog)
    BY DEF Accept
  <2>2. \A d : (\E i \in DOMAIN backlog' : backlog'[i] = d)
                 <=> d # c /\ \E i \in DOMAIN backlog : backlog[i] = d
    <3>1. ASSUME NEW d, NEW i \in DOMAIN Tail(backlog), Tail(backlog)[i] = d
          PROVE  d # c /\ \E j \in DOMAIN backlog : backlog[j] = d
      <4>1. i + 1 \in DOMAIN backlog /\ backlog[i + 1] = d /\ i + 1 # 1
        BY <1>2, <3>1
      <4> QED
        BY <1>3, <4>1
    <3>2. ASSUME NEW d, d # c, NEW j \in DOMAIN backlog, backlog[j] = d
          PROVE  \E i \in DOMAIN Tail(backlog) : Tail(backlog)[i] = d
      <4>1. j # 1 /\ j - 1 \in DOMAIN Tail(backlog) /\ j = (j - 1) + 1
        BY <1>2, <3>2
      <4>2. Tail(backlog)[j - 1] = d
        BY <1>2, <3>2, <4>1
      <4> QED
        BY <4>1, <4>2
    <3> QED
      BY <2>1, <3>1, <3>2
  <2>3. \A d : InBacklog(d)' <=> d # c /\ InBacklog(d)
    BY <2>2 DEF InBacklog
  <2>4. InBacklog(c)
    BY <1>2 DEF InBacklog
  <2> QED
    BY <2>3, <2>4 DEF Waiting
<1>5. Welcomed' = Welcomed \union {c}
  <2>1. m_sessions' = Append(m_sessions, c)
    BY DEF Accept
  <2>2. InServer(c)'
    BY <1>2, <2>1 DEF ServiceInv, IInv, TypeOK, SessionTypeOK, InServer
  <2>3. \A d : InServer(d)' <=> InServer(d) \/ d = c
    BY <1>2, <2>1, <2>2, SessionsAppended DEF ServiceInv, IInv, TypeOK
  <2> QED
    BY <1>2, <2>3 DEF Welcomed
<1>6. Who' = Who
  <2>1. m_inbox[c] = NoInbox
    BY <1>3, SignedIn, SessionAssumption
    DEF ServiceInv, IInv, NoDanglingPointers, SessionsLive
  <2>2. m_inbox' = m_inbox
    BY <2>1 DEF Accept, ServiceInv, IInv, TypeOK, SessionTypeOK
  <2> QED
    BY <2>2, MappedParts
<1>7. forward = <<>> /\ forward' = forward /\ inq' = inq
      /\ ~Stopping /\ Stopping' = Stopping
  BY DEF Accept, ServiceInv, IInv, ForwardInScan, Stopping
<1>8. UNCHANGED <<Accounts, Here, Box, LastId>>
  BY MappedParts, BoxesSame DEF Accept, inboxVars
<1>9. Service!Tell(c, <<Service!Welcome>>)
  BY <1>2, SentIsTold, SameMessages DEF Accept
<1>10. Service!Greet(c)
  BY <1>4, <1>5, <1>6, <1>7, <1>8, <1>9 DEF Service!Greet
<1> QED
  BY <1>2, <1>10 DEF ServiceStep, Service!Next, Service!Promised

LEMMA LetGoMaps ==
  ASSUME ServiceInv, DescriptorsOwned', NEW c \in Conn, InServer(c), CloseSession(c),
         \A d : d # c /\ InServer(d) => InServer(d)',
         \A d : InServer(d)' => InServer(d),
         UNCHANGED <<m_all_inbox, m_mails, m_idOfLastMail, backlog, pc, forward>>,
         forward = <<>>
  PROVE  Service!LetGo(c)
<1>1. ~InServer(c)'
  <2>1. m_socketfd'[c] = SOCKET_INVALID_DEFAULT
    BY DEF CloseSession, ServiceInv, IInv, TypeOK, SessionTypeOK
  <2> QED
    BY <2>1 DEF DescriptorsOwned
<1>2. Welcomed' = Welcomed \ {c}
  BY <1>1 DEF Welcomed
<1>3. Who' = [Who EXCEPT ![c] = NoUser]
  BY DEF CloseSession, Who, ServiceInv, IInv, TypeOK, SessionTypeOK, UserOf
<1>4. Here' = Here
  BY DEF CloseSession, Here, Connected, ServiceInv, IInv, TypeOK, NetTypeOK
<1>5. UNCHANGED <<Stopping, Accounts, Waiting, Box, LastId>>
  BY MappedParts, BoxesSame
<1> QED
  BY <1>2, <1>3, <1>4, <1>5 DEF CloseSession, Service!LetGo, Welcomed

LEMMA DismissMaps ==
  ASSUME ServiceInv, DescriptorsOwned', DestroySession
  PROVE  ServiceStep
<1> DEFINE c == Last(m_sessions)
<1>1. c \in Conn /\ InServer(c)
  BY PopTakesOut, FrontProperties
  DEF DestroySession, ServiceInv, IInv, TypeOK, SessionTypeOK, InServer
<1>2. /\ \A d : d # c /\ InServer(d) => InServer(d)'
      /\ \A d : InServer(d)' => InServer(d)
  BY SessionsPopped DEF DestroySession, ServiceInv, IInv
<1>3. forward = <<>>
  BY DEF DestroySession, ServiceInv, IInv, ForwardInScan
<1>4. Service!LetGo(c)
  BY <1>1, <1>2, <1>3, LetGoMaps DEF DestroySession, serverVars
<1>5. Service!Dismiss(c)
  BY <1>4 DEF DestroySession, Service!Dismiss, Stopping
<1> QED
  BY <1>1, <1>5 DEF ServiceStep, Service!Next, Service!Promised

LEMMA ClosingMaps ==
  ASSUME ServiceInv, DescriptorsOwned', NEW c \in Conn, SessionFailure(c) \/ Quit(c)
  PROVE  ServiceStep
<1>1. Current(c) /\ CloseSession(c) /\ Erase
      /\ UNCHANGED <<serverVars, m_all_inbox, m_mails, m_idOfLastMail, backlog>>
  BY DEF SessionFailure, Quit, HasRequest
<1>2. /\ \A d : d # c /\ InServer(d) => InServer(d)'
      /\ \A d : InServer(d)' => InServer(d)
  BY <1>1, SessionsErased DEF ServiceInv, IInv
<1>3. InServer(c) /\ forward = <<>>
  BY <1>1, CurrentType, CurrentQuiet DEF ServiceInv, IInv, TypeOK
<1>4. Service!LetGo(c)
  BY <1>1, <1>2, <1>3, LetGoMaps DEF serverVars
<1>5. CASE SessionFailure(c)
  <2>1. Service!Tell(c, <<Service!General("SESSION_FAILURE")>>)
    BY <1>5, SentIsTold, SameMessages DEF SessionFailure
  <2>2. CASE inq[c] = <<>>
    <3>1. c \notin Here
      BY <1>5, <2>2 DEF SessionFailure, Here, Connected
    <3>2. UNCHANGED outq
      BY <2>1, <3>1 DEF Service!Tell
    <3>3. Service!SeeOff(c)
      BY <1>4, <2>2, <3>1, <3>2 DEF Service!SeeOff
    <3> QED
      BY <3>3 DEF ServiceStep, Service!Next, Service!Promised
  <2>3. CASE inq[c] # <<>>
    <3>1. Head(inq[c]) = Service!HalfFrame => c \notin Here
      BY <1>5, <2>3, SameMessages DEF SessionFailure, Here, Connected
    <3>2. Service!HangUp(c)
      BY <1>4, <2>1, <2>3, <3>1 DEF Service!HangUp
    <3> QED
      BY <3>2 DEF ServiceStep, Service!Next, Service!Shortcoming
  <2> QED
    BY <2>2, <2>3
<1>6. CASE Quit(c)
  <2>1. inq[c] # <<>> /\ Head(inq[c]).type = "QUIT" /\ Who[c] # NoUser
    BY <1>6, LoggedInRequest, SignedIn DEF Quit
  <2>2. Service!Leave(c)
    BY <1>4, <1>6, <2>1 DEF Service!Leave, Quit
  <2> QED
    BY <2>2 DEF ServiceStep, Service!Next, Service!Promised
<1> QED
  BY <1>5, <1>6

-----------------------------------------------------------------------------
(* The clients, and the second send of a chat.                             *)
LEMMA ComeMaps ==
  ASSUME ServiceInv, NEW c \in Conn, Connect(c)
  PROVE  Service!Come(c)
<1>1. backlog' = Append(backlog, c) /\ backlog \in Seq(Conn)
  BY DEF Connect, ServiceInv, IInv, TypeOK, NetTypeOK
<1>2. /\ Len(backlog) \in Nat
      /\ DOMAIN backlog = 1..Len(backlog)
      /\ DOMAIN backlog' = 1..(Len(backlog) + 1)
      /\ \A i \in 1..Len(backlog) : backlog'[i] = backlog[i]
      /\ backlog'[Len(backlog) + 1] = c
  BY <1>1, AppendProperties, LenProperties
<1>3. \A d : InBacklog(d)' <=> InBacklog(d) \/ d = c
  <2>1. \A j \in 1..(Len(backlog) + 1) : j \in 1..Len(backlog) \/ j = Len(backlog) + 1
    BY <1>2
  <2>2. 1..Len(backlog) \subseteq 1..(Len(backlog) + 1)
        /\ Len(backlog) + 1 \in 1..(Len(backlog) + 1)
    BY <1>2
  <2> QED
    BY <1>2, <2>1, <2>2 DEF InBacklog
<1>4. Waiting' = Waiting \union {c}
  BY <1>3 DEF Waiting
<1>5. Here' = Here \union {c}
  BY DEF Connect, Here, Connected, ServiceInv, IInv, TypeOK, NetTypeOK
<1>6. c \notin Here \union Waiting \union Welcomed
  BY DEF Connect, Here, Connected, Waiting, Welcomed
<1>7. ~Stopping
  BY DEF Connect, Listening, Stopping
<1>8. UNCHANGED <<Stopping, Accounts, Welcomed, Who, Box, LastId, inq, outq, forward>>
  BY MappedParts, BoxesSame DEF Connect, serverVars, sessionVars, inboxVars
<1> QED
  BY <1>4, <1>5, <1>6, <1>7, <1>8 DEF Service!Come

(* The rest of a message takes the place of its beginning.                 *)
LEMMA LastReplaced ==
  ASSUME NEW S, NEW s \in Seq(S), s # <<>>, NEW r \in S
  PROVE  /\ Last(s) = s[Len(s)]
         /\ Append(Front(s), r) = [s EXCEPT ![Len(s)] = r]
<1>1. Len(s) \in Nat \ {0} /\ DOMAIN s = 1..Len(s) /\ s = [i \in 1..Len(s) |-> s[i]]
  BY LenProperties, EmptySeq
<1>2. /\ Front(s) \in Seq(S) /\ Len(Front(s)) = Len(s) - 1
      /\ \A i \in 1..(Len(s) - 1) : Front(s)[i] = s[i]
  BY FrontProperties
<1> DEFINE t == Append(Front(s), r)
           u == [s EXCEPT ![Len(s)] = r]
<1>3. /\ t \in Seq(S) /\ Len(t) = Len(s) /\ DOMAIN t = 1..Len(s)
      /\ \A i \in 1..(Len(s) - 1) : t[i] = s[i]
      /\ t[Len(s)] = r
  <2> DEFINE front == Front(s)
  <2>1. front \in Seq(S) /\ Len(front) = Len(s) - 1
        /\ \A i \in 1..(Len(s) - 1) : front[i] = s[i]
    BY <1>2
  <2> HIDE DEF front
  <2>2. /\ Append(front, r) \in Seq(S) /\ Len(Append(front, r)) = Len(s)
        /\ \A i \in 1..(Len(s) - 1) : Append(front, r)[i] = s[i]
        /\ Append(front, r)[Len(s)] = r
    <3>1. Len(front) + 1 = Len(s)
      BY <1>1, <2>1
    <3> QED
      BY <2>1, <3>1, AppendProperties
  <2>3. DOMAIN Append(front, r) = 1..Len(s)
    BY <2>2, LenProperties
  <2> QED
    BY <2>2, <2>3 DEF front
<1>4. DOMAIN u = 1..Len(s) /\ \A i \in 1..Len(s) : u[i] = IF i = Len(s) THEN r ELSE s[i]
  BY <1>1
<1>5. t = [i \in 1..Len(s) |-> t[i]] /\ u = [i \in 1..Len(s) |-> u[i]]
  BY <1>3, <1>4, LenProperties
<1>6. \A i \in 1..Len(s) : i = Len(s) \/ i \in 1..(Len(s) - 1)
  BY <1>1
<1> HIDE DEF t, u
<1>7. \A i \in 1..Len(s) : t[i] = u[i]
  BY <1>3, <1>4, <1>6
<1>8. t = u
  BY <1>5, <1>7
<1> QED
  BY <1>8 DEF t, u, Last

LEMMA AskMaps ==
  ASSUME ServiceInv, NEW c \in Conn, NEW r \in ClientRequests,
         Send(c, r) \/ FinishFrame(c, r)
  PROVE  Service!Ask(c, r) \/ Service!GoOn(c, r)
<1>1. UNCHANGED <<Stopping, Accounts, Here, Waiting, Welcomed, Who, Box, LastId,
                  outq, forward>>
  BY MappedParts, BoxesSame DEF Send, FinishFrame, serverVars, sessionVars, inboxVars
<1>2. inq[c] \in Seq(ClientRequests) /\ inq \in [Conn -> Seq(ClientRequests)]
  BY DEF ServiceInv, MappingInv, OnlyClientsAsk
<1>3. BegunOnly(c) <=> Service!InMessage(c)
  BY <1>2, LastReplaced, SameMessages DEF BegunOnly, Service!InMessage
<1>4. CASE Send(c, r)
  BY <1>1, <1>3, <1>4 DEF Send, Service!Ask, Here, Waiting, Welcomed
<1>5. CASE FinishFrame(c, r)
  <2>1. inq[c] # <<>> /\ inq' = [inq EXCEPT ![c] = Append(Front(inq[c]), r)]
    BY <1>2, <1>5 DEF FinishFrame, BegunOnly
  <2>2. inq' = [inq EXCEPT ![c] = [inq[c] EXCEPT ![Len(inq[c])] = r]]
    <3>1. Append(Front(inq[c]), r) = [inq[c] EXCEPT ![Len(inq[c])] = r]
      BY <1>2, <2>1, LastReplaced
    <3> QED
      BY <2>1, <3>1
  <2> QED
    BY <1>1, <1>3, <1>5, <2>2 DEF FinishFrame, Service!GoOn, Here
<1> QED
  BY <1>4, <1>5

LEMMA ClientMaps ==
  ASSUME ServiceInv, NEW c \in Conn, ClientStep(c)
  PROVE  ServiceStep
<1>1. CASE Connect(c)
  BY <1>1, ComeMaps DEF ServiceStep, Service!Next, Service!ClientNext
<1>2. ASSUME NEW r \in ClientRequests, Send(c, r) \/ FinishFrame(c, r)
      PROVE  ServiceStep
  BY <1>2, AskMaps DEF ServiceStep, Service!Next, Service!ClientNext
<1>3. CASE Receive(c)
  <2>1. UNCHANGED <<Stopping, Accounts, Here, Waiting, Welcomed, Who, Box, LastId,
                    inq, forward>>
    BY <1>3, MappedParts, BoxesSame DEF Receive, serverVars, sessionVars, inboxVars
  <2>2. Service!Hear(c)
    BY <1>3, <2>1 DEF Receive, Service!Hear, Here
  <2> QED
    BY <2>2 DEF ServiceStep, Service!Next, Service!ClientNext
<1>4. CASE Disconnect(c)
  <2>1. UNCHANGED <<Stopping, Accounts, Waiting, Welcomed, Who, Box, LastId, inq,
                    forward>>
    BY <1>4, MappedParts, BoxesSame DEF Disconnect, serverVars, sessionVars, inboxVars
  <2>2. c \in Here /\ Here' = Here \ {c}
    BY <1>4 DEF Disconnect, Here, Connected, ServiceInv, IInv, TypeOK, NetTypeOK
  <2>3. Service!Go(c)
    BY <1>4, <2>1, <2>2 DEF Disconnect, Service!Go
  <2> QED
    BY <2>3 DEF ServiceStep, Service!Next, Service!ClientNext
<1> QED
  BY <1>1, <1>2, <1>3, <1>4 DEF ClientStep

LEMMA ForwardMaps ==
  ASSUME ServiceInv, ForwardChat \/ ForwardFails
  PROVE  ServiceStep
<1> DEFINE f == Head(forward)
<1>1. forward # <<>> /\ f.from \in Conn /\ f.to \in Conn
  BY ForwardType DEF ForwardChat, ForwardFails, ServiceInv, IInv, TypeOK
<1>2. UNCHANGED <<Stopping, Accounts, Here, Waiting, Welcomed, Who, Box, LastId, inq>>
      /\ forward' = <<>>
  BY MappedParts, BoxesSame
  DEF ForwardChat, ForwardFails, ForwardDone, sessionVars, inboxVars
<1>3. Head(forward) = forward[1]
  OBVIOUS
<1>4. CASE ForwardChat /\ f.to \in Here
  <2>1. Service!Tell(f.to, <<f.chat>>)
    BY <1>1, <1>4, SentIsTold DEF ForwardChat
  <2>2. Service!PassOn
    BY <1>1, <1>2, <1>3, <1>4, <2>1 DEF Service!PassOn, Service!RelayDone
  <2> QED
    BY <2>2 DEF ServiceStep, Service!Next
<1>5. CASE ForwardChat /\ f.to \notin Here
  <2>1. UNCHANGED outq
    BY <1>1, <1>5, SentIsTold DEF ForwardChat, Service!Tell
  <2>2. Service!LoseChat
    BY <1>1, <1>2, <1>3, <1>5, <2>1 DEF Service!LoseChat, Service!RelayDone
  <2> QED
    BY <2>2 DEF ServiceStep, Service!Next
<1>6. CASE ForwardFails
  <2>1. f.to \notin Here /\ Service!Tell(f.from, <<Service!General("INTERNAL_FAILURE")>>)
    BY <1>1, <1>6, SentIsTold, SameMessages DEF ForwardFails, Here
  <2>2. Service!LoseChat
    BY <1>1, <1>2, <1>3, <2>1 DEF Service!LoseChat, Service!RelayDone
  <2> QED
    BY <2>2 DEF ServiceStep, Service!Next
<1> QED
  BY <1>4, <1>5, <1>6

-----------------------------------------------------------------------------
(* Requests that change nothing but the messages.                          *)
LEMMA Once == \A m : <<>> \o <<m>> = <<m>>
OBVIOUS

LEMMA Twice ==
  ASSUME NEW m, NEW n
  PROVE  <<m>> \o <<n>> = <<m, n>>
<1> DEFINE S == {m, n}
<1>1. <<m>> \in Seq(S) /\ Len(<<m>>) = 1 /\ <<m>>[1] = m
  OBVIOUS
<1>2. <<n>> \in Seq(S) /\ Len(<<n>>) = 1 /\ <<n>>[1] = n
  OBVIOUS
<1>3. <<m, n>> \in Seq(S) /\ Len(<<m, n>>) = 2 /\ <<m, n>>[1] = m /\ <<m, n>>[2] = n
  OBVIOUS
<1> DEFINE s == <<m>> \o <<n>>
<1>4. s \in Seq(S) /\ Len(s) = 2 /\ s[1] = m /\ s[2] = n
  BY <1>1, <1>2, ConcatProperties
<1> HIDE DEF s
<1>5. \A i \in 1..Len(s) : s[i] = <<m, n>>[i]
  <2>1. \A i \in 1..Len(s) : i = 1 \/ i = 2
    BY <1>4
  <2> QED
    BY <1>3, <1>4, <2>1
<1>6. s = <<m, n>>
  BY <1>3, <1>4, <1>5, SeqEqual
<1> QED
  BY <1>6 DEF s

LEMMA RejectMaps ==
  ASSUME ServiceInv, NEW c \in Conn, InvalidRequest(c)
  PROVE  ServiceStep
<1> DEFINE r == Head(inq[c])
<1>1. UNCHANGED <<Who, Box, LastId, forward>>
  BY AnswerOnlyKeeps DEF InvalidRequest
<1>2. Service!Answer(c, TypeReplies(r) \o <<Service!General("UNVALID_MESSAGE")>>)
  BY AnswerMaps, SameMessages DEF InvalidRequest, AnswerOnly
<1>3. CASE r.type = "NO_TYPE"
  <2>1. Service!Serving(c, {"NO_TYPE"}) /\ Who[c] # NoUser
    BY <1>3, LoggedInRequest, ServedRequest, SignedIn DEF InvalidRequest
  <2>2. TypeReplies(r) = <<Service!General("UNVALID_MESSAGE")>>
    BY <1>3, SameMessages DEF TypeReplies
  <2>3. Service!RejectTwice(c)
    BY <1>1, <1>2, <2>1, <2>2, Twice DEF Service!RejectTwice
  <2> QED
    BY <2>3 DEF ServiceStep, Service!Next, Service!Shortcoming
<1>4. CASE r.type # "NO_TYPE"
  <2>1. Service!Answer(c, <<Service!General("UNVALID_MESSAGE")>>)
    BY <1>2, <1>4, Once DEF TypeReplies
  <2>2. Service!Requested(c, {"LOGIN", "BAD_LOGIN", "BAD_COMMAND", "UNKNOWN"})
    BY <1>4, LoggedInRequest, ServedRequest DEF InvalidRequest, Service!Requested
  <2>3. Service!Reject(c)
    BY <1>1, <2>1, <2>2 DEF Service!Reject
  <2> QED
    BY <2>3 DEF ServiceStep, Service!Next, Service!Promised
<1> QED
  BY <1>3, <1>4

(* getMailByID finds a stored mail with that id, if there is one.          *)
LEMMA FoundMail ==
  ASSUME NEW mails \in Seq(Mail), NEW id
  PROVE  LET found == {m \in Stored(mails) : m.m_id = id}
         IN  /\ MailAt(mails, id) = {} <=> found = {}
             /\ MailAt(mails, id) # {} => mails[Min(MailAt(mails, id))] \in found
<1> DEFINE found == {m \in Stored(mails) : m.m_id = id}
<1>1. MailAt(mails, id) = {} <=> found = {}
  BY DEF MailAt, Stored
<1>2. ASSUME MailAt(mails, id) # {}
      PROVE  mails[Min(MailAt(mails, id))] \in found
  <2>1. DOMAIN mails = 1..Len(mails) /\ Len(mails) \in Nat
    BY LenProperties
  <2>2. MailAt(mails, id) \subseteq Nat
    BY <2>1 DEF MailAt
  <2>3. Min(MailAt(mails, id)) \in MailAt(mails, id)
    BY <1>2, <2>2, MinIsLeast
  <2> QED
    BY <2>3 DEF MailAt, Stored
<1> QED
  BY <1>1, <1>2

(* The box of the one who asks is his inbox.                               *)
LEMMA AskersBox ==
  ASSUME ServiceInv, NEW c \in Conn, m_inbox[c] # NoInbox
  PROVE  Box[Who[c]] = Stored(m_mails[m_inbox[c]])
         /\ m_mails[m_inbox[c]] \in Seq(Mail)
BY SignedIn, MailsType DEF ServiceInv

LEMMA FetchMaps ==
  ASSUME ServiceInv, NEW c \in Conn, GetMail(c)
  PROVE  ServiceStep
<1> DEFINE mails == m_mails[m_inbox[c]]
           id == Head(inq[c]).id
           found == {m \in Box[Who[c]] : m.m_id = id}
<1>1. Service!Requested(c, {"GET_MAIL"}) /\ m_inbox[c] # NoInbox
      /\ Head(inq[c]).type = "GET_MAIL"
  BY LoggedInRequest DEF GetMail
<1>2. Box[Who[c]] = Stored(mails) /\ mails \in Seq(Mail)
  BY <1>1, AskersBox
<1>3. Service!Answer(c, <<MailReply(mails, id)>>)
  <2>1. <<MailReply(mails, id)>> \in Seq(Reply)
    BY <1>2, MailReplyType, OneMessage
  <2> QED
    BY <1>1, <2>1, PlainAnswerMaps DEF GetMail, AnswerOnly
<1>4. IF found = {} THEN Service!Answer(c, <<Service!General("UNKNOWN_MAIL_ID")>>)
      ELSE \E m \in found : Service!Answer(c, <<Service!GetMailRes(m)>>)
  BY <1>2, <1>3, FoundMail, SameMessages DEF MailReply
<1>5. UNCHANGED <<Who, Box, LastId, forward>>
  BY AnswerOnlyKeeps DEF GetMail
<1>6. Service!Fetch(c)
  BY <1>1, <1>4, <1>5 DEF Service!Fetch
<1> QED
  BY <1>6 DEF ServiceStep, Service!Next, Service!Promised

-----------------------------------------------------------------------------
(* Signing in.  The inbox a lookup finds is the first of its user in the   *)
(* list, that is his last line in the file.                                *)
LEMMA SecretOfInbox ==
  ASSUME ServiceInv, NEW u, GetInbox(u) # NoInbox
  PROVE  Secret[u] = UserOf(GetInbox(u)).pass
<1> DEFINE N == Len(UsersFile)
           found == {k \in m_all_inbox : UserOf(k).user = u}
           lines == {i \in DOMAIN UsersFile : UsersFile[i].user = u}
           k == GetInbox(u)
<1>1. N \in Nat /\ DOMAIN UsersFile = 1..N
  BY FileAssumption, LenProperties
<1>2. found # {} /\ k = Min(found)
  BY DEF GetInbox
<1>3. m_all_inbox = InboxId
  BY <1>2 DEF ServiceInv, MappingInv, AllInboxesOrNone
<1>4. k \in found /\ \A y \in found : k <= y
  BY <1>2, <1>3, InboxTypes, MinIsLeast
<1>5. k \in 1..N /\ N - k + 1 \in 1..N
  BY <1>1, <1>3, <1>4 DEF InboxId
<1>6. N - k + 1 \in lines
  BY <1>1, <1>4, <1>5 DEF UserOf
<1>7. ASSUME NEW i \in lines
      PROVE  i <= N - k + 1
  <2>1. N - i + 1 \in InboxId /\ N - (N - i + 1) + 1 = i
    BY <1>1 DEF InboxId
  <2>2. N - i + 1 \in found
    BY <1>3, <2>1 DEF UserOf
  <2> QED
    BY <1>1, <1>4, <1>5, <2>2
<1>8. Max(lines) = N - k + 1
  <2>1. \A x \in lines : (\A y \in lines : x >= y) => x = N - k + 1
    BY <1>1, <1>5, <1>6, <1>7
  <2>2. \A y \in lines : N - k + 1 >= y
    BY <1>1, <1>5, <1>7
  <2> HIDE DEF lines
  <2> QED
    BY <1>6, <2>1, <2>2 DEF Max
<1>9. u \in AccountName
  BY <1>1, <1>6 DEF AccountName
<1> QED
  BY <1>8, <1>9 DEF Secret, UserOf

LEMMA StatusMaps ==
  ASSUME ServiceInv, NEW r
  PROVE  Service!SignInStatus(r) = LoginStatus(r)
<1>1. CASE r.type # "LOGIN"
  BY <1>1 DEF Service!SignInStatus, LoginStatus
<1>2. CASE r.type = "LOGIN" /\ GetInbox(r.user) = NoInbox
  BY <1>2 DEF Service!SignInStatus, LoginStatus, Accounts
<1>3. CASE r.type = "LOGIN" /\ GetInbox(r.user) # NoInbox
  <2>1. r.user \in Accounts
        /\ (Service!SignedIn(r.user) <=> m_loggedIn[GetInbox(r.user)])
    BY <1>3, LoggedInIsSignedIn
  <2>2. Secret[r.user] = UserOf(GetInbox(r.user)).pass
    BY <1>3, SecretOfInbox
  <2> QED
    BY <1>3, <2>1, <2>2 DEF Service!SignInStatus, LoginStatus
<1> QED
  BY <1>1, <1>2, <1>3

LEMMA SignInMaps ==
  ASSUME ServiceInv, NEW c \in Conn, SessionLogin(c)
  PROVE  ServiceStep
<1> DEFINE r == Head(inq[c])
<1>1. /\ inq[c] # <<>> /\ r.type \in NonAuthTypes
      /\ Answer(c, TypeReplies(r) \o <<General(LoginStatus(r))>>)
  BY DEF SessionLogin, HasRequest
<1>2. Service!Answer(c, TypeReplies(r) \o <<Service!General(LoginStatus(r))>>)
  BY <1>1, AnswerMaps, SameMessages
<1>3. m_inbox[c] = NoInbox
  BY DEF SessionLogin, HasRequest, ServiceInv, IInv, SessionInboxAgree, LoggedInHasInbox
<1>4. Who[c] = NoUser
  BY <1>3, NotSignedIn
<1>5. UNCHANGED <<Box, LastId, forward>>
  BY BoxesSame DEF SessionLogin, Answer
<1>6. CASE r.type = "NO_TYPE"
  <2>1. LoginStatus(r) = "NOT_LOGGED_IN"
    BY <1>6 DEF LoginStatus
  <2>2. TypeReplies(r) = <<Service!General("UNVALID_MESSAGE")>>
    BY <1>6, SameMessages DEF TypeReplies
  <2>3. Service!Answer(c, <<Service!General("UNVALID_MESSAGE"),
                            Service!General("NOT_LOGGED_IN")>>)
    BY <1>2, <2>1, <2>2, Twice
  <2>4. Who' = Who
    BY <2>1, MappedParts DEF SessionLogin
  <2>5. Service!Serving(c, {"NO_TYPE"})
    BY <1>6, ServedRequest DEF SessionLogin
  <2>6. Service!RejectTwice(c)
    BY <1>4, <1>5, <2>3, <2>4, <2>5 DEF Service!RejectTwice
  <2> QED
    BY <2>6 DEF ServiceStep, Service!Next, Service!Shortcoming
<1>7. CASE r.type # "NO_TYPE"
  <2>1. Service!Answer(c, <<Service!General(Service!SignInStatus(r))>>)
    BY <1>2, <1>7, StatusMaps, Once DEF TypeReplies
  <2>2. Service!Serving(c, {q.type : q \in ClientRequests}
                              \ {"BAD_FRAME", "HALF_FRAME", "NO_TYPE"})
    <3>1. r \in ClientRequests
      BY <1>1, HeadTailProperties DEF ServiceInv, MappingInv, OnlyClientsAsk
    <3>2. r.type \in {q.type : q \in ClientRequests}
                        \ {"BAD_FRAME", "HALF_FRAME", "NO_TYPE"}
      BY <1>1, <1>7, <3>1 DEF NonAuthTypes
    <3> QED
      BY <3>2, ServedRequest DEF SessionLogin
  <2>3. Who' = IF LoginStatus(r) = "SUCCESS" THEN [Who EXCEPT ![c] = r.user] ELSE Who
    <3>1. CASE LoginStatus(r) = "SUCCESS"
      <4>1. r.type = "LOGIN" /\ GetInbox(r.user) # NoInbox
        BY <3>1 DEF LoginStatus
      <4>2. UserOf(GetInbox(r.user)).user = r.user
        BY <4>1, GetInboxLive DEF ServiceInv, IInv, TypeOK, InboxTypeOK
      <4>3. m_inbox' = [m_inbox EXCEPT ![c] = GetInbox(r.user)]
        BY <3>1, <4>1 DEF SessionLogin
      <4> QED
        BY <3>1, <4>1, <4>2, <4>3
        DEF Who, UserOf, ServiceInv, IInv, TypeOK, SessionTypeOK
    <3>2. CASE LoginStatus(r) # "SUCCESS"
      BY <3>2, MappedParts DEF SessionLogin
    <3> QED
      BY <3>1, <3>2
  <2>4. Service!SignIn(c)
    BY <1>4, <1>5, <2>1, <2>2, <2>3, StatusMaps DEF Service!SignIn
  <2> QED
    BY <2>4 DEF ServiceStep, Service!Next, Service!Promised
<1> QED
  BY <1>6, <1>7

-----------------------------------------------------------------------------
(* The listing of an inbox.  Distinct ids make its length the number of    *)
(* its mails.                                                              *)
LEMMA ListedAll ==
  ASSUME NEW S, NEW s \in Seq(S), \A i, j \in DOMAIN s : s[i] = s[j] => i = j,
         NEW T, T = {s[i] : i \in DOMAIN s}
  PROVE  /\ s \in Bijection(1..Len(s), T)
         /\ Cardinality(T) = Len(s)
<1>1. Len(s) \in Nat /\ DOMAIN s = 1..Len(s) /\ s \in [1..Len(s) -> T]
  BY LenProperties
<1>2. s \in Bijection(1..Len(s), T)
  BY <1>1, Fun_IsBij
<1>3. ExistsBijection(1..Len(s), T)
  BY <1>2, Fun_ExistsBij
<1> QED
  BY <1>1, <1>2, <1>3, FS_CountingElements

LEMMA MailsListed ==
  ASSUME ServiceInv, NEW k \in InboxId
  PROVE  /\ m_mails[k] \in Seq(Mail)
         /\ Cardinality(Stored(m_mails[k])) = Len(m_mails[k])
         /\ m_mails[k] \in Service!Listings(Stored(m_mails[k]))
<1> DEFINE mails == m_mails[k]
<1>1. mails \in Seq(Mail)
  BY MailsType DEF ServiceInv
<1>2. \A i, j \in DOMAIN mails : i < j => mails[i].m_id < mails[j].m_id
  BY DEF ServiceInv, MailIdsAscend
<1>3. \A i \in DOMAIN mails : i \in Nat /\ mails[i].m_id \in Nat
  <2>1. DOMAIN mails = 1..Len(mails) /\ \A i \in 1..Len(mails) : mails[i] \in Mail
    BY <1>1, LenProperties, ElementOfSeq
  <2> QED
    BY <2>1 DEF Mail
<1>4. \A i, j \in DOMAIN mails : mails[i] = mails[j] => i = j
  BY <1>2, <1>3
<1>5. Stored(mails) = {mails[i] : i \in DOMAIN mails}
  BY DEF Stored
<1>6. Cardinality(Stored(mails)) = Len(mails)
  BY <1>1, <1>4, <1>5, ListedAll
<1>7. mails \in [1..Len(mails) -> Stored(mails)]
  BY <1>1, <1>5, LenProperties
<1> QED
  BY <1>1, <1>2, <1>6, <1>7, SameLibrary DEF Service!Listings

LEMMA ListMailsMaps ==
  ASSUME ServiceInv, NEW c \in Conn, ShowInbox(c)
  PROVE  ServiceStep
<1> DEFINE mails == m_mails[m_inbox[c]]
<1>1. Service!Requested(c, {"SHOW_INBOX"}) /\ m_inbox[c] # NoInbox
      /\ Head(inq[c]).type = "SHOW_INBOX"
  BY LoggedInRequest DEF ShowInbox
<1>2. m_inbox[c] \in InboxId /\ Box[Who[c]] = Stored(mails)
  BY <1>1, SignedIn
<1>3. /\ mails \in Seq(Mail)
      /\ Cardinality(Stored(mails)) = Len(mails)
      /\ mails \in Service!Listings(Stored(mails))
  BY <1>2, MailsListed
<1>4. Service!Answer(c, InboxReplies(mails))
  BY <1>1, <1>3, InboxRepliesType, PlainAnswerMaps DEF ShowInbox, AnswerOnly
<1>5. UNCHANGED <<Who, Box, LastId, forward>>
  BY AnswerOnlyKeeps DEF ShowInbox
<1>6. CASE \E i \in DOMAIN mails : mails[i].m_subject \in LongSubject
  <2>1. \E m \in Stored(mails) : m.m_subject \in LongSubject
    BY <1>6 DEF Stored
  <2>2. InboxReplies(mails) = <<Service!General("INTERNAL_FAILURE")>>
    BY <1>6, SameMessages DEF InboxReplies
  <2>3. Service!ListingFails(c)
    BY <1>1, <1>2, <1>4, <1>5, <2>1, <2>2 DEF Service!ListingFails
  <2> QED
    BY <2>3 DEF ServiceStep, Service!Next, Service!Shortcoming
<1>7. CASE /\ ~ \E i \in DOMAIN mails : mails[i].m_subject \in LongSubject
           /\ Len(mails) > ShowInboxLimit
  <2>1. InboxReplies(mails) = <<>>
    BY <1>7 DEF InboxReplies
  <2>2. Service!Cardinality(Box[Who[c]]) > ShowInboxLimit
    BY <1>2, <1>3, <1>7, SameLibrary
  <2>3. Service!ListingUnanswered(c)
    BY <1>1, <1>4, <1>5, <2>1, <2>2 DEF Service!ListingUnanswered
  <2> QED
    BY <2>3 DEF ServiceStep, Service!Next, Service!Shortcoming
<1>8. CASE /\ ~ \E i \in DOMAIN mails : mails[i].m_subject \in LongSubject
           /\ ~(Len(mails) > ShowInboxLimit)
  <2>1. ShowInboxRes([i \in DOMAIN mails |-> RowOf(mails[i])])
          = Service!ShowInboxRes(Service!RowsOf(mails))
    BY SameMessages DEF RowOf, Service!RowsOf
  <2>2. Service!Answer(c, <<Service!ShowInboxRes(Service!RowsOf(mails))>>)
    BY <1>4, <1>8, <2>1 DEF InboxReplies
  <2>3. Service!ListMails(c)
    BY <1>1, <1>2, <1>3, <1>5, <2>2 DEF Service!ListMails
  <2> QED
    BY <2>3 DEF ServiceStep, Service!Next, Service!Promised
<1> QED
  BY <1>6, <1>7, <1>8

-----------------------------------------------------------------------------
(* Deleting a mail.  Ids are distinct, so it is the only one with its id.  *)
LEMMA RemovedFromBox ==
  ASSUME NEW mails \in Seq(Mail), NEW last \in Nat, AscendTo(mails, last), NEW id
  PROVE  Stored(RemoveMail(mails, id))
           = Stored(mails) \ {m \in Stored(mails) : m.m_id = id}
<1> DEFINE at == Min(MailAt(mails, id))
           less == RemoveAt(mails, at)
<1>1. CASE MailAt(mails, id) = {}
  BY <1>1 DEF RemoveMail, MailAt, Stored
<1>2. CASE MailAt(mails, id) # {}
  <2>1. at \in 1..Len(mails) /\ RemoveMail(mails, id) = less
    BY <1>2, MailAtProperties DEF RemoveMail
  <2>2. mails[at].m_id = id
    BY <1>2, FoundMail
  <2> HIDE DEF at
  <2>3. less \in Seq(Mail)
        /\ \A h \in 1..Len(less) :
             \E j \in 1..Len(mails) : j # at /\ less[h] = mails[j]
    BY <2>1, RemoveAtKeeps, RemoveAtProperties
  <2>4. DOMAIN less = 1..Len(less)
        /\ DOMAIN mails = 1..Len(mails) /\ Len(mails) \in Nat
    BY <2>3, LenProperties
  <2> HIDE DEF less
  <2>5. ASSUME NEW m \in Stored(less)
        PROVE  m.m_id # id
    <3>1. PICK j \in 1..Len(mails) : j # at /\ m = mails[j]
      BY <2>3, <2>4 DEF Stored
    <3>2. mails[j].m_id \in 1..last /\ mails[at].m_id \in 1..last
          /\ (j < at => mails[j].m_id < mails[at].m_id)
          /\ (at < j => mails[at].m_id < mails[j].m_id)
      BY <2>1, <2>4 DEF AscendTo
    <3> QED
      BY <2>1, <2>2, <3>1, <3>2
  <2> QED
    BY <2>1, <2>5, RemovedMail
<1> QED
  BY <1>1, <1>2

LEMMA DiscardMaps ==
  ASSUME ServiceInv, NEW c \in Conn, DeleteMail(c)
  PROVE  ServiceStep
<1> DEFINE k == m_inbox[c]
           mails == m_mails[k]
           id == Head(inq[c]).id
           found == {m \in Box[Who[c]] : m.m_id = id}
<1>1. Service!Requested(c, {"DELETE_MAIL"}) /\ k # NoInbox
      /\ Head(inq[c]).type = "DELETE_MAIL"
  BY LoggedInRequest DEF DeleteMail
<1>2. /\ k \in InboxId /\ GetInbox(Who[c]) = k
      /\ Who[c] \in AccountName /\ Box[Who[c]] = Stored(mails)
  BY <1>1, SignedIn
<1>3. mails \in Seq(Mail) /\ m_idOfLastMail[k] \in Nat
      /\ AscendTo(mails, m_idOfLastMail[k])
  BY <1>2, MailsType DEF ServiceInv, MailIdsAscend, AscendTo
<1>4. m_mails' = [m_mails EXCEPT ![k] = RemoveMail(@, id)]
      /\ UNCHANGED <<m_all_inbox, m_idOfLastMail, m_inbox, forward>>
      /\ Answer(c, <<General(DeleteStatus(mails, id))>>)
  BY DEF DeleteMail, Answer
<1>5. Box' = [Box EXCEPT ![Who[c]] = @ \ found]
  <2>1. \A u : GetInbox(u)' = GetInbox(u)
    BY <1>4, MappedParts
  <2>2. m_mails'[k] = RemoveMail(mails, id)
        /\ \A j \in InboxId : j # k => m_mails'[j] = m_mails[j]
    BY <1>2, <1>4 DEF ServiceInv, IInv, TypeOK, InboxTypeOK
  <2>3. Stored(m_mails'[k]) = Box[Who[c]] \ found
    BY <1>2, <1>3, <2>2, RemovedFromBox
  <2>4. ASSUME NEW u \in AccountName
        PROVE  Box'[u] = IF u = Who[c] THEN Box[u] \ found ELSE Box[u]
    <3>1. Box'[u] = IF GetInbox(u) = NoInbox THEN {} ELSE Stored(m_mails'[GetInbox(u)])
      BY <2>1 DEF Box, AccountName, Stored
    <3>2. CASE u = Who[c]
      BY <1>1, <1>2, <2>3, <3>1, <3>2
    <3>3. CASE u # Who[c] /\ GetInbox(u) # NoInbox
      <4>1. GetInbox(u) \in InboxId /\ UserOf(GetInbox(u)).user = u
        BY <3>3, GetInboxLive DEF ServiceInv, IInv, TypeOK, InboxTypeOK
      <4>2. GetInbox(u) # k
        BY <1>1, <3>3, <4>1, SignedIn
      <4> QED
        BY <2>2, <3>1, <3>3, <4>1, <4>2 DEF Box
    <3>4. CASE u # Who[c] /\ GetInbox(u) = NoInbox
      BY <3>1, <3>4 DEF Box
    <3> QED
      BY <3>2, <3>3, <3>4
  <2> HIDE DEF found
  <2>5. Box' = [u \in AccountName |-> Box'[u]] /\ Box = [u \in AccountName |-> Box[u]]
    BY DEF Box, AccountName
  <2> QED
    BY <2>4, <2>5
<1>6. DeleteStatus(mails, id) = IF found = {} THEN "UNKNOWN_MAIL_ID" ELSE "SUCCESS"
  BY <1>2, <1>3, FoundMail DEF DeleteStatus
<1>7. Service!Answer(c, <<Service!General(IF found = {} THEN "UNKNOWN_MAIL_ID"
                                          ELSE "SUCCESS")>>)
  <2>1. <<General(DeleteStatus(mails, id))>> \in Seq(Reply)
    BY OneGeneral DEF DeleteStatus, Status
  <2>2. Service!Answer(c, <<General(DeleteStatus(mails, id))>>)
    BY <1>1, <1>4, <2>1, PlainAnswerMaps
  <2> QED
    BY <1>6, <2>2, SameMessages
<1>8. LastId' = LastId /\ Who' = Who
  <2>1. \A u : GetInbox(u)' = GetInbox(u)
    BY <1>4, MappedParts
  <2> QED
    BY <1>4, <2>1, MappedParts DEF LastId, AccountName
<1>9. Service!Discard(c)
  BY <1>1, <1>4, <1>5, <1>7, <1>8 DEF Service!Discard
<1> QED
  BY <1>9 DEF ServiceStep, Service!Next, Service!Promised

-----------------------------------------------------------------------------
(* Mails for everybody who is named: addMail n times puts n mails with the *)
(* next ids into the box.                                                  *)
NewMails(last, n, to, from, subject, body) ==
    {[m_id |-> last + j, m_to |-> to, m_from |-> from, m_subject |-> subject,
      m_body |-> body] : j \in 1..n}

LEMMA GrownBox ==
  ASSUME NEW mails \in Seq(Mail), NEW new \in Seq(Mail)
  PROVE  Stored(mails \o new) = Stored(mails) \union Stored(new)
<1> DEFINE all == mails \o new
           n == Len(new)
<1>1. Len(new) = n /\ n \in Nat /\ Len(mails) \in Nat
      /\ DOMAIN mails = 1..Len(mails)
  BY LenProperties
<1> HIDE DEF n
<1>3. /\ DOMAIN all = 1..(Len(mails) + n) /\ DOMAIN new = 1..n
      /\ \A i \in 1..(Len(mails) + n) :
           all[i] = IF i <= Len(mails) THEN mails[i] ELSE new[i - Len(mails)]
  <2>1. /\ all \in Seq(Mail) /\ Len(all) = Len(mails) + Len(new)
        /\ \A i \in 1..(Len(mails) + Len(new)) :
             all[i] = IF i <= Len(mails) THEN mails[i] ELSE new[i - Len(mails)]
    BY <1>1, ConcatProperties
  <2>2. DOMAIN all = 1..Len(all) /\ DOMAIN new = 1..Len(new)
    BY <1>1, <2>1, LenProperties
  <2> QED
    BY <1>1, <2>1, <2>2
<1> HIDE DEF all
<1>4. ASSUME NEW i \in 1..Len(mails)
      PROVE  i \in DOMAIN all /\ all[i] = mails[i]
  BY <1>1, <1>3
<1>5. ASSUME NEW j \in 1..n
      PROVE  Len(mails) + j \in DOMAIN all /\ all[Len(mails) + j] = new[j]
  <2>1. Len(mails) + j \in 1..(Len(mails) + n) /\ ~(Len(mails) + j <= Len(mails))
        /\ (Len(mails) + j) - Len(mails) = j
    BY <1>1
  <2> QED
    BY <1>3, <2>1
<1>6. ASSUME NEW i \in DOMAIN all
      PROVE  all[i] \in Stored(mails) \union Stored(new)
  <2>1. CASE i <= Len(mails)
    BY <1>1, <1>3, <2>1 DEF Stored
  <2>2. CASE ~(i <= Len(mails))
    <3>1. i - Len(mails) \in 1..n
      BY <1>1, <1>3, <2>2
    <3> QED
      BY <1>3, <2>2, <3>1 DEF Stored
  <2> QED
    BY <2>1, <2>2
<1>7. Stored(all) = Stored(mails) \union Stored(new)
  <2>1. Stored(all) \subseteq Stored(mails) \union Stored(new)
    BY <1>6 DEF Stored
  <2>2. Stored(mails) \subseteq Stored(all)
    BY <1>1, <1>4 DEF Stored
  <2>3. Stored(new) \subseteq Stored(all)
    BY <1>3, <1>5 DEF Stored
  <2> QED
    BY <2>1, <2>2, <2>3
<1> QED
  BY <1>7 DEF all

LEMMA PostMaps ==
  ASSUME ServiceInv, m_all_inbox' = m_all_inbox,
         NEW to \in Seq(Name), NEW from \in Name,
         NEW subject \in Text \union {OfflineSubject}, NEW body \in Text,
         AddMails(to, from, subject, body)
  PROVE  Service!Post(to, from, subject, body)
<1> DEFINE times(u) == IF u \in Accounts
                       THEN Cardinality({i \in DOMAIN to : to[i] = u}) ELSE 0
           added(u) == NewMails(LastId[u], times(u), to, from, subject, body)
<1>1. \A u : GetInbox(u)' = GetInbox(u)
  BY MappedParts
<1>2. ASSUME NEW u \in AccountName
      PROVE  Box'[u] = Box[u] \union added(u) /\ LastId'[u] = LastId[u] + times(u)
  <2> DEFINE k == GetInbox(u)
  <2>1. Box'[u] = (IF k = NoInbox THEN {} ELSE Stored(m_mails'[k]))
        /\ LastId'[u] = IF k = NoInbox THEN 0 ELSE m_idOfLastMail'[k]
    BY <1>1 DEF Box, LastId, AccountName, Stored
  <2>2. Box[u] = (IF k = NoInbox THEN {} ELSE Stored(m_mails[k]))
        /\ LastId[u] = IF k = NoInbox THEN 0 ELSE m_idOfLastMail[k]
    BY DEF Box, LastId
  <2>3. CASE k = NoInbox
    <3>1. times(u) = 0
      BY <2>3 DEF Accounts
    <3>2. added(u) = {}
      <4> HIDE DEF times
      <4>1. 1..times(u) = {}
        BY <3>1
      <4> QED
        BY <4>1 DEF NewMails
    <3> HIDE DEF times, added
    <3> QED
      BY <2>1, <2>2, <2>3, <3>1, <3>2
  <2>4. CASE k # NoInbox
    <3>1. k \in InboxId /\ u \in Accounts /\ UserOf(k).user = u
      BY <2>4, LoggedInIsSignedIn, GetInboxLive
      DEF ServiceInv, IInv, TypeOK, InboxTypeOK
    <3>2. m_mails[k] \in Seq(Mail) /\ m_idOfLastMail[k] \in Nat
      BY <3>1, MailsType DEF ServiceInv
    <3>3. Deliveries(to, k) = times(u) /\ times(u) \in Nat
      <4>1. ASSUME NEW i \in DOMAIN to
            PROVE  GetInbox(to[i]) = k <=> to[i] = u
        BY <2>4, <3>1, GetInboxLive DEF ServiceInv, IInv, TypeOK, InboxTypeOK
      <4>2. {i \in DOMAIN to : GetInbox(to[i]) = k} = {i \in DOMAIN to : to[i] = u}
        BY <4>1
      <4> QED
        BY <3>1, <4>2, DeliveriesType DEF Deliveries
    <3>4. m_mails'[k] = m_mails[k] \o Copies(m_idOfLastMail[k], times(u), to, from, subject, body)
          /\ m_idOfLastMail'[k] = m_idOfLastMail[k] + times(u)
      BY <3>1, <3>3 DEF AddMails
    <3> HIDE DEF times
    <3>5. Stored(m_mails'[k]) = Stored(m_mails[k]) \union
            NewMails(m_idOfLastMail[k], times(u), to, from, subject, body)
      <4> DEFINE last == m_idOfLastMail[k]
                 n == times(u)
                 new == Copies(last, n, to, from, subject, body)
      <4>1. new \in Seq(Mail)
        BY <3>2, <3>3, CopiesType
      <4>2. Stored(new) = NewMails(last, n, to, from, subject, body)
        BY DEF Stored, Copies, NewMails
      <4>3. m_mails'[k] = m_mails[k] \o new
        BY <3>4
      <4> HIDE DEF new
      <4> QED
        BY <3>2, <4>1, <4>2, <4>3, GrownBox
    <3> QED
      BY <2>1, <2>2, <2>4, <3>4, <3>5
  <2> QED
    BY <2>3, <2>4
<1>3. Box' = [u \in AccountName |-> Box'[u]] /\ LastId' = [u \in AccountName |-> LastId'[u]]
  BY DEF Box, LastId, AccountName
<1>4. Box' = [u \in AccountName |-> Box[u] \union added(u)]
      /\ LastId' = [u \in AccountName |-> LastId[u] + times(u)]
  <2> HIDE DEF times, added
  <2> QED
    BY <1>2, <1>3
<1> QED
  BY <1>4, ServiceAccounts, SameLibrary DEF Service!Post, NewMails

(* The sender, and the answer of a request that adds mails.                *)
LEMMA PostAnswered ==
  ASSUME ServiceInv, NEW c \in Conn, inq[c] # <<>>, Head(inq[c]).type # "NO_TYPE",
         NEW status \in Status, Answer(c, <<General(status)>>)
  PROVE  Service!Answer(c, <<Service!General(status)>>)
<1>1. <<General(status)>> \in Seq(Reply)
  BY OneGeneral
<1> QED
  BY <1>1, PlainAnswerMaps, SameMessages

LEMMA SendMailMaps ==
  ASSUME ServiceInv, NEW c \in Conn, Compose(c)
  PROVE  ServiceStep
<1> DEFINE r == Head(inq[c])
<1>1. Service!Requested(c, {"COMPOSE"}) /\ m_inbox[c] # NoInbox
      /\ r \in Request /\ inq[c] # <<>> /\ r.type = "COMPOSE"
  BY LoggedInRequest DEF Compose
<1>2. Who[c] = UserOf(m_inbox[c]).user /\ Who[c] \in Name
  BY <1>1, SignedIn, AccountNames
<1>3. r.to \in Seq(Name) /\ r.subject \in Text /\ r.body \in Text
  BY <1>1, RequestFields
<1>4. AddMails(r.to, Who[c], r.subject, r.body) /\ Answer(c, <<General("SUCCESS")>>)
      /\ m_all_inbox' = m_all_inbox
  BY <1>2 DEF Compose, Answer
<1>5. Service!Post(r.to, Who[c], r.subject, r.body)
  BY <1>2, <1>3, <1>4, PostMaps
<1>6. Service!Answer(c, <<Service!General("SUCCESS")>>)
  BY <1>1, <1>4, PostAnswered DEF Status
<1>7. UNCHANGED <<Who, forward>>
  BY MappedParts DEF Compose, Answer
<1>8. Service!SendMail(c)
  BY <1>1, <1>5, <1>6, <1>7 DEF Service!SendMail
<1> QED
  BY <1>8 DEF ServiceStep, Service!Next, Service!Promised

-----------------------------------------------------------------------------
(* The list of users: no session is listed twice and no user has two.      *)
LEMMA ListOnlineMaps ==
  ASSUME ServiceInv, NEW c \in Conn, ShowOnlineUsers(c)
  PROVE  ServiceStep
<1> DEFINE users == [i \in DOMAIN m_sessions |-> UserOf(m_inbox[m_sessions[i]]).user]
           online == {Who[d] : d \in Welcomed} \ {NoUser}
<1>1. Service!Requested(c, {"SHOW_ONLINE_USERS"}) /\ inq[c] # <<>>
      /\ Head(inq[c]).type = "SHOW_ONLINE_USERS"
  BY LoggedInRequest DEF ShowOnlineUsers
<1>2. Service!Answer(c, <<OnlineReply>>)
  <2>1. <<OnlineReply>> \in Seq(Reply)
    BY OnlineReplyType, OneMessage DEF ServiceInv, IInv
  <2> QED
    BY <1>1, <2>1, PlainAnswerMaps DEF ShowOnlineUsers, AnswerOnly
<1>3. /\ Len(m_sessions) \in Nat /\ DOMAIN m_sessions = 1..Len(m_sessions)
      /\ \A i \in DOMAIN m_sessions : m_sessions[i] \in Conn /\ m_sessions[i] \in Welcomed
      /\ \A d \in Welcomed : d \in Conn /\ \E i \in DOMAIN m_sessions : m_sessions[i] = d
  BY SessionList DEF ServiceInv, IInv, Welcomed, InServer
<1>4. UNCHANGED <<Who, Box, LastId, forward>>
  BY AnswerOnlyKeeps DEF ShowOnlineUsers
<1>5. CASE \E i \in DOMAIN m_sessions : m_inbox[m_sessions[i]] = NoInbox
  <2>1. \E d \in Welcomed : Who[d] = NoUser
    BY <1>3, <1>5, NotSignedIn
  <2>2. OnlineReply = Service!General("INTERNAL_FAILURE")
    BY <1>5, SameMessages DEF OnlineReply
  <2>3. Service!OnlineFails(c)
    BY <1>1, <1>2, <1>4, <2>1, <2>2 DEF Service!OnlineFails
  <2> QED
    BY <2>3 DEF ServiceStep, Service!Next, Service!Shortcoming
<1>6. CASE /\ \A i \in DOMAIN m_sessions : m_inbox[m_sessions[i]] # NoInbox
           /\ Len(m_sessions) > OnlineLimit
  <2>1. Welcomed = {m_sessions[i] : i \in DOMAIN m_sessions}
    BY <1>3
  <2>2. Cardinality(Welcomed) = Len(m_sessions)
    BY <2>1, ListedOnce, ListedAll DEF ServiceInv, IInv, TypeOK, SessionTypeOK
  <2>3. OnlineReply = Service!OnlineRes(<<>>)
    BY <1>6, SameMessages DEF OnlineReply
  <2>4. Service!Cardinality(Welcomed) > OnlineLimit
    BY <1>6, <2>2, SameLibrary
  <2>5. Service!OnlineNameless(c)
    BY <1>1, <1>2, <1>4, <2>3, <2>4 DEF Service!OnlineNameless
  <2> QED
    BY <2>5 DEF ServiceStep, Service!Next, Service!Shortcoming
<1>7. CASE /\ \A i \in DOMAIN m_sessions : m_inbox[m_sessions[i]] # NoInbox
           /\ ~(Len(m_sessions) > OnlineLimit)
  <2>1. \A i \in DOMAIN m_sessions :
          /\ users[i] = Who[m_sessions[i]]
          /\ Who[m_sessions[i]] \in Name /\ Who[m_sessions[i]] # NoUser
          /\ GetInbox(Who[m_sessions[i]]) = m_inbox[m_sessions[i]]
          /\ m_session[m_inbox[m_sessions[i]]] = m_sessions[i]
    BY <1>3, <1>7, SignedIn, AccountNames
  <2>2. users \in Seq(Name)
    BY <1>3, <2>1
  <2>3. \A i, j \in DOMAIN users : users[i] = users[j] => i = j
    <3>1. SUFFICES ASSUME NEW i \in DOMAIN m_sessions, NEW j \in DOMAIN m_sessions,
                          users[i] = users[j]
                   PROVE  i = j
      OBVIOUS
    <3>2. Who[m_sessions[i]] = Who[m_sessions[j]]
      BY <2>1, <3>1
    <3>3. m_sessions[i] = m_sessions[j]
      BY <2>1, <3>2
    <3> QED
      BY <3>3, ListedOnce DEF ServiceInv
  <2>4. online = {users[i] : i \in DOMAIN users}
    BY <1>3, <2>1
  <2>5. Len(users) = Len(m_sessions)
    BY <1>3, <2>2, LenProperties
  <2>6. OnlineReply = Service!OnlineRes(users)
    BY <1>7, SameMessages DEF OnlineReply
  <2> HIDE DEF users, online
  <2>7. users \in Bijection(1..Cardinality(online), online)
    BY <2>2, <2>3, <2>4, ListedAll
  <2>8. \E us \in Service!Bijection(1..Service!Cardinality(online), online) :
          Service!Answer(c, <<Service!OnlineRes(us)>>)
    BY <1>2, <2>6, <2>7, SameLibrary
  <2>9. Service!ListOnline(c)
    BY <1>1, <1>4, <2>8 DEF Service!ListOnline, online
  <2> QED
    BY <2>9 DEF ServiceStep, Service!Next, Service!Promised
<1> QED
  BY <1>5, <1>6, <1>7

-----------------------------------------------------------------------------
(* Chats.                                                                  *)
LEMMA ChatToNobodyMaps ==
  ASSUME ServiceInv, NEW c \in Conn, ChatUnknownUser(c)
  PROVE  ServiceStep
<1>1. Service!Requested(c, {"SEND_CHAT"}) /\ inq[c] # <<>>
      /\ Head(inq[c]).type = "SEND_CHAT"
  BY LoggedInRequest DEF ChatUnknownUser
<1>2. Service!Answer(c, <<Service!General("UNKNOWN_USER_CHAT")>>)
  BY <1>1, PostAnswered DEF ChatUnknownUser, AnswerOnly, Status
<1>3. Head(inq[c]).to \notin Accounts
  BY DEF ChatUnknownUser, Accounts
<1>4. UNCHANGED <<Who, Box, LastId, forward>>
  BY AnswerOnlyKeeps DEF ChatUnknownUser
<1>5. Service!ChatToNobody(c)
  BY <1>1, <1>2, <1>3, <1>4 DEF Service!ChatToNobody
<1> QED
  BY <1>5 DEF ServiceStep, Service!Next, Service!Promised

LEMMA ChatToBoxMaps ==
  ASSUME ServiceInv, NEW c \in Conn, ChatOffline(c)
  PROVE  ServiceStep
<1> DEFINE r == Head(inq[c])
<1>1. Service!Requested(c, {"SEND_CHAT"}) /\ m_inbox[c] # NoInbox
      /\ r \in Request /\ inq[c] # <<>> /\ r.type = "SEND_CHAT"
  BY LoggedInRequest DEF ChatOffline
<1>2. Who[c] = UserOf(m_inbox[c]).user /\ Who[c] \in Name
  BY <1>1, SignedIn, AccountNames
<1>3. r.to \in Name /\ r.text \in Text
  BY <1>1, RequestFields
<1>4. r.to \in Accounts /\ ~Service!SignedIn(r.to)
  BY LoggedInIsSignedIn DEF ChatOffline
<1>5. AddMails(<<r.to>>, Who[c], OfflineSubject, r.text)
      /\ Answer(c, <<General("SUCCESS")>>) /\ m_all_inbox' = m_all_inbox
  BY <1>2 DEF ChatOffline, Answer
<1>6. Service!Post(<<r.to>>, Who[c], OfflineSubject, r.text)
  <2>1. <<r.to>> \in Seq(Name)
    BY <1>3
  <2> QED
    BY <1>2, <1>3, <1>5, <2>1, PostMaps
<1>7. Service!Answer(c, <<Service!General("SUCCESS")>>)
  BY <1>1, <1>5, PostAnswered DEF Status
<1>8. UNCHANGED <<Who, forward>>
  BY MappedParts DEF ChatOffline, Answer
<1>9. Service!ChatToBox(c)
  BY <1>1, <1>4, <1>6, <1>7, <1>8, SameMessages DEF Service!ChatToBox
<1> QED
  BY <1>9 DEF ServiceStep, Service!Next, Service!Promised

(* m_session of the addressee's inbox is the session that is signed in     *)
(* under his name.                                                         *)
LEMMA ChatToSessionMaps ==
  ASSUME ServiceInv, NEW c \in Conn, ChatTooLong(c) \/ ChatOnline(c)
  PROVE  ServiceStep
<1> DEFINE r == Head(inq[c])
           k == GetInbox(r.to)
           d == m_session[k]
<1>1. Service!Requested(c, {"SEND_CHAT"}) /\ m_inbox[c] # NoInbox
      /\ inq[c] # <<>> /\ r.type = "SEND_CHAT"
  BY LoggedInRequest DEF ChatTooLong, ChatOnline
<1>2. k # NoInbox /\ Online(k)
  BY DEF ChatTooLong, ChatOnline
<1>3. r.to \in Accounts /\ d \in Conn /\ Who[d] = r.to
  BY <1>2, LoggedInIsSignedIn
<1>4. CASE ChatTooLong(c)
  <2>1. Service!Answer(c, <<Service!General("INTERNAL_FAILURE")>>)
    BY <1>1, <1>4, PostAnswered DEF ChatTooLong, AnswerOnly, Status
  <2>2. UNCHANGED <<Who, Box, LastId, forward>>
    BY <1>4, AnswerOnlyKeeps DEF ChatTooLong
  <2>3. Service!SignedIn(r.to)
    BY <1>3 DEF Service!SignedIn
  <2>4. Service!ChatFails(c)
    BY <1>1, <1>4, <2>1, <2>2, <2>3 DEF ChatTooLong, Service!ChatFails
  <2> QED
    BY <2>4 DEF ServiceStep, Service!Next, Service!Shortcoming
<1>5. CASE ChatOnline(c)
  <2>1. Service!Answer(c, <<Service!General("SUCCESS")>>)
    <3>1. Service!Tell(c, <<Service!General("SUCCESS")>>)
      BY <1>5, SentIsTold, SameMessages DEF ChatOnline
    <3>2. inq' = [inq EXCEPT ![c] = Tail(@)]
          /\ UNCHANGED <<pc, sessionVars, inboxVars, peer, backlog>>
      BY <1>5 DEF ChatOnline
    <3>3. <<>> \o <<Service!General("SUCCESS")>> = <<Service!General("SUCCESS")>>
      OBVIOUS
    <3> QED
      BY <1>1, <3>1, <3>2, <3>3, MappedParts
      DEF Service!Answer, sessionVars, inboxVars
  <2>2. UNCHANGED <<Who, Box, LastId>>
    BY <1>5, MappedParts, BoxesSame DEF ChatOnline, sessionVars, inboxVars
  <2>3. forward' = <<[from |-> c, to |-> d, chat |-> Service!ChatMessage(Who[c], r.text)]>>
    BY <1>1, <1>5, SignedIn, SameMessages DEF ChatOnline
  <2>4. Service!ChatToSession(c)
    BY <1>1, <1>3, <2>1, <2>2, <2>3 DEF Service!ChatToSession
  <2> QED
    BY <2>4 DEF ServiceStep, Service!Next, Service!Promised
<1> QED
  BY <1>4, <1>5

-----------------------------------------------------------------------------
LEMMA InitMaps ==
  ASSUME Init
  PROVE  Service!Init
<1>1. m_all_inbox = {} /\ backlog = <<>> /\ m_sessions = <<>>
      /\ peer = [c \in Conn |-> "idle"] /\ m_inbox = [c \in Conn |-> NoInbox]
      /\ pc = "main" /\ forward = <<>>
      /\ inq = [c \in Conn |-> <<>>] /\ outq = [c \in Conn |-> <<>>]
  BY DEF Init
<1>2. Accounts = {} /\ Box = [u \in AccountName |-> {}] /\ LastId = [u \in AccountName |-> 0]
  BY <1>1, NoInboxFound DEF Accounts, Box, LastId
<1>3. Here = {} /\ Waiting = {} /\ Welcomed = {} /\ ~Stopping
  BY <1>1 DEF Here, Connected, Waiting, InBacklog, Welcomed, InServer, Stopping
<1>4. Who = [c \in Conn |-> NoUser]
  BY <1>1 DEF Who
<1> QED
  BY <1>1, <1>2, <1>3, <1>4, ServiceAccounts DEF Service!Init

LEMMA SessionStepMaps ==
  ASSUME ServiceInv, DescriptorsOwned', NEW c \in Conn, SessionStep(c)
  PROVE  ServiceStep
BY ClosingMaps, SignInMaps, RejectMaps, ListMailsMaps, FetchMaps, DiscardMaps,
   SendMailMaps, ListOnlineMaps, ChatToNobodyMaps, ChatToBoxMaps,
   ChatToSessionMaps, CrashMaps
DEF SessionStep

LEMMA StepMaps ==
  ASSUME ServiceInv, [Next]_vars
  PROVE  ServiceStep
<1>1. DescriptorsOwned'
  BY OwnedStep DEF ServiceInv
<1>2. CASE \/ LoadUsersFromFile \/ Start \/ MainReturns \/ Select \/ NoNewConnection
           \/ Accept \/ AcceptFails \/ ScanSkip \/ ScanEnd
  BY <1>2, LoadUsersMaps, LoopMaps, WelcomeMaps
<1>3. CASE ForwardChat \/ ForwardFails \/ DestroySession \/ DestroyInboxes \/ ProcessExit
  BY <1>1, <1>3, ForwardMaps, DismissMaps, EndMaps
<1>4. ASSUME NEW c \in Conn, SessionStep(c)
      PROVE  ServiceStep
  BY <1>1, <1>4, SessionStepMaps
<1>5. ASSUME NEW c \in Conn, ClientStep(c)
      PROVE  ServiceStep
  BY <1>5, ClientMaps
<1>6. CASE UNCHANGED vars
  BY <1>6, Unseen
  DEF vars, serverVars, sessionVars, inboxVars, netVars, Stopping, ServiceStep
<1> QED
  BY <1>2, <1>3, <1>4, <1>5, <1>6 DEF Next, ServerStep, Terminated

(* Every step of the server (Server.cpp, Inbox.cpp,                        *)
(* ServerSessionSocket.cpp) is one the service promises - the answer to    *)
(* the one who asked, the mail stored or removed, the user signed in or    *)
(* out - or one of the shortcomings the service lists, and then under the  *)
(* condition listed for it; for any number of clients, any users file, any *)
(* limits and any requests.                                                *)
THEOREM ServerImplementsService == Spec => ServiceSpec
<1>1. Init => Service!Init
  BY InitMaps
<1>2. ServiceInv /\ [Next]_vars => [Service!Next]_(Service!serviceVars)
  BY StepMaps DEF ServiceStep
<1> QED
  BY <1>1, <1>2, MappingInvariance, PTL DEF Spec, ServiceSpec, Service!Spec
(* The same of the whole system, with the client programs for clients: of  *)
(* what they send TCP may deliver a part only, and the session then ends   *)
(* by the shortcoming HangUp.                                              *)
THEOREM SystemImplementsService == SystemSpec => ServiceSpec
BY SystemImplementsServer, ServerImplementsService, PTL DEF ServerSpec
=============================================================================
