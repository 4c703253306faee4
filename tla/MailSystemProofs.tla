-------------------------- MODULE MailSystemProofs --------------------------
(***************************************************************************)
(* Proofs about MailSystem for every value of its constants.               *)
(*                                                                         *)
(* The server with the clients of MailClient behaves as the server of      *)
(* MailServer, so that what is proved of the server with arbitrary clients *)
(* holds in the whole system.  And the two programs agree about each       *)
(* connection: who is logged in, which answer is on the way, whose turn    *)
(* it is.                                                                  *)
(***************************************************************************)
EXTENDS MailSystem, MailServerProofs

LEMMA SubSeqType ==
  ASSUME NEW S, NEW s \in Seq(S), NEW m \in 1..(Len(s) + 1), NEW n \in 0..Len(s)
  PROVE  SubSeq(s, m, n) \in Seq(S)
<1>1. \A i \in m..n : s[i] \in S
  <2>1. \A i \in m..n : i \in 1..Len(s)
    BY LenProperties
  <2> QED
    BY <2>1, ElementOfSeq
<1> QED
  BY <1>1, LenProperties, SubSeqProperties

-----------------------------------------------------------------------------
(* The types of the client's variables.                                    *)
ClientPlaces ==
    {"off", "welcome", "login", "select", "server", "stdin", "compose", "await",
     "quit"}

(* The entries that are requests are the clients' requests.                *)
LEMMA RequestEntries ==
  ASSUME NEW l \in Entry, l # BadLine, l # ComposeLine
  PROVE  l \in ClientRequests
BY DEF Entry

LEMMA ClientInitTypes == ClientInit => ClientTypeOK
BY DEF ClientInit, ClientTypeOK, Entry

LEMMA ExitTypes ==
  ASSUME ClientTypeOK, NEW c \in Conn, Exit(c)
  PROVE  ClientTypeOK'
BY DEF ClientTypeOK, Exit, Goto, Entry

LEMMA NextEntryTypes ==
  ASSUME ClientTypeOK, NEW c \in Conn, NEW l \in NextEntries(c)
  PROVE  l \in Entry
<1>1. buffered[c] \in Seq(Entry) /\ typed[c] \in Seq(Entry)
  BY DEF ClientTypeOK
<1> QED
  BY <1>1 DEF NextEntries

LEMMA ReadLineTypes ==
  ASSUME ClientTypeOK, NEW c \in Conn, NEW l, ReadLine(c, l)
  PROVE  /\ typed' \in [Conn -> Seq(Entry)]
         /\ buffered' \in [Conn -> Seq(Entry)]
         /\ stdinEof' \in [Conn -> BOOLEAN]
<1>1. /\ typed \in [Conn -> Seq(Entry)] /\ buffered \in [Conn -> Seq(Entry)]
      /\ stdinEof \in [Conn -> BOOLEAN]
  BY DEF ClientTypeOK
<1>2. typed[c] \in Seq(Entry) /\ buffered[c] \in Seq(Entry)
  BY <1>1
<1>3. CASE buffered[c] # <<>> /\ buffered' = [buffered EXCEPT ![c] = Tail(@)]
           /\ UNCHANGED typed
  <2>1. Tail(buffered[c]) \in Seq(Entry)
    BY <1>2, <1>3
  <2> QED
    BY <1>1, <1>3, <2>1 DEF ReadLine
<1>4. ASSUME NEW n \in 1..Len(typed[c]),
             buffered' = [buffered EXCEPT ![c] = SubSeq(typed[c], 2, n)],
             typed' = [typed EXCEPT ![c] = SubSeq(@, n + 1, Len(@))]
      PROVE  typed' \in [Conn -> Seq(Entry)] /\ buffered' \in [Conn -> Seq(Entry)]
  <2>1. Len(typed[c]) \in Nat
    BY <1>2, LenProperties
  <2>2. SubSeq(typed[c], 2, n) \in Seq(Entry)
    BY <1>2, <2>1, SubSeqType
  <2>3. SubSeq(typed[c], n + 1, Len(typed[c])) \in Seq(Entry)
    BY <1>2, <2>1, SubSeqType
  <2> QED
    BY <1>1, <1>4, <2>2, <2>3
<1> QED
  BY <1>1, <1>3, <1>4 DEF ReadLine

LEMMA SendCommandTypes ==
  ASSUME ClientTypeOK, NEW c \in Conn, NEW r \in ClientRequests, SendCommand(c, r)
  PROVE  /\ cpc' \in [Conn -> ClientPlaces]
         /\ request' \in [Conn -> ClientRequests \union {BadLine}]
BY DEF ClientTypeOK, SendCommand, Goto, ClientPlaces

(* An entry whose type is read is not one of the two lines: a login or a   *)
(* COMPOSE is a request, and the two lines are not.                        *)
LEMMA TypedRequest ==
  ASSUME NEW l, l \in LoginReq \union ComposeReq
  PROVE  l # BadLine /\ l # ComposeLine
BY LineAssumption DEF Request

LEMMA ReadAndSendTypes ==
  ASSUME ClientTypeOK, NEW c \in Conn, NEW l \in ClientRequests, ReadAndSend(c, l)
  PROVE  ClientTypeOK'
<1>1. ASSUME ReadLine(c, l), SendCommand(c, l)
      PROVE  ClientTypeOK'
  BY <1>1, ReadLineTypes, SendCommandTypes DEF ClientTypeOK, ClientPlaces
<1> QED
  BY <1>1, ExitTypes DEF ReadAndSend

LEMMA ReadAndGotoTypes ==
  ASSUME ClientTypeOK, NEW c \in Conn, NEW l, NEW place \in {"select", "compose"},
         ReadAndGoto(c, l, place)
  PROVE  ClientTypeOK'
BY ReadLineTypes DEF ReadAndGoto, ClientTypeOK, Goto

(* One of each of the program's steps.                                     *)
LEMMA ProgramStepTypes ==
  ASSUME ClientTypeOK, NEW c \in Conn, ProgramStep(c)
  PROVE  ClientTypeOK'
<1>1. CASE RecvWelcome(c)
  BY <1>1, ExitTypes DEF RecvWelcome, ClientTypeOK, Goto, inputVars
<1>2. CASE CommandLogin(c)
  <2>1. ASSUME NEW l \in NextEntries(c), l \in LoginReq,
               ReadLine(c, l), SendCommand(c, l)
        PROVE  ClientTypeOK'
    <3>1. l \in ClientRequests
      BY <2>1, NextEntryTypes, RequestEntries, TypedRequest
    <3> QED
      BY <2>1, <3>1, ReadLineTypes, SendCommandTypes DEF ClientTypeOK, ClientPlaces
  <2> QED
    BY <1>2, <2>1, ExitTypes DEF CommandLogin
<1>3. CASE ClientSelect(c)
  BY <1>3 DEF ClientSelect, ClientTypeOK, Goto, inputVars
<1>4. CASE HandleServerRequest(c)
  BY <1>4, ExitTypes DEF HandleServerRequest, ClientTypeOK, Goto, inputVars
<1>5. CASE HandleUserRequest(c)
  <2>1. ASSUME NEW l \in NextEntries(c), l # ComposeLine, ~Refused(l),
               ReadAndSend(c, l)
        PROVE  ClientTypeOK'
    <3>1. l \in ClientRequests
      BY <2>1, NextEntryTypes, RequestEntries DEF Refused
    <3> QED
      BY <2>1, <3>1, ReadAndSendTypes
  <2>2. ASSUME NEW l, ReadAndGoto(c, l, "select") \/ ReadAndGoto(c, l, "compose")
        PROVE  ClientTypeOK'
    BY <2>2, ReadAndGotoTypes
  <2> QED
    BY <1>5, <2>1, <2>2, ExitTypes DEF HandleUserRequest
<1>6. CASE CommandCompose(c)
  <2>1. ASSUME Goto(c, "select"), UNCHANGED <<request, inputVars>>
        PROVE  ClientTypeOK'
    BY <2>1 DEF Goto, ClientTypeOK, inputVars
  <2>2. ASSUME NEW l \in NextEntries(c), l \in ComposeReq, ReadAndSend(c, l)
        PROVE  ClientTypeOK'
    <3>1. l \in ClientRequests
      BY <2>2, NextEntryTypes, RequestEntries, TypedRequest
    <3> QED
      BY <2>2, <3>1, ReadAndSendTypes
  <2> QED
    BY <1>6, <2>1, <2>2, ReadAndGotoTypes DEF CommandCompose
<1>7. CASE QuitExit(c)
  BY <1>7, ExitTypes DEF QuitExit
<1>8. CASE RecvAnswer(c)
  BY <1>8, ExitTypes DEF RecvAnswer, ClientTypeOK, Goto, inputVars
<1>9. CASE RecvFails(c)
  BY <1>9, ExitTypes DEF RecvFails
<1> QED
  BY <1>1, <1>2, <1>3, <1>4, <1>5, <1>6, <1>7, <1>8, <1>9 DEF ProgramStep

LEMMA SystemStepTypes ==
  ASSUME ClientTypeOK, [SystemNext]_systemVars
  PROVE  ClientTypeOK'
<1>1. CASE UNCHANGED clientVars
  BY <1>1 DEF clientVars, ClientTypeOK
<1>2. ASSUME NEW c \in Conn, SystemStep(c)
      PROVE  ClientTypeOK'
  <2>1. CASE ProgramStep(c)
    BY <2>1, ProgramStepTypes
  <2>2. CASE StartClient(c)
    BY <2>2 DEF StartClient, ClientTypeOK, Goto, inputVars
  <2>3. CASE CloseStdin(c)
    BY <2>3 DEF CloseStdin, ClientTypeOK
  <2>4. CASE Killed(c)
    BY <2>4, ExitTypes DEF Killed
  <2>5. ASSUME NEW l \in Entry, Type(c, l)
        PROVE  ClientTypeOK'
    <3>1. typed[c] \in Seq(Entry)
      BY DEF ClientTypeOK
    <3>2. Append(typed[c], l) \in Seq(Entry)
      BY <3>1
    <3> QED
      BY <2>5, <3>2 DEF Type, ClientTypeOK
  <2> QED
    BY <1>2, <2>1, <2>2, <2>3, <2>4, <2>5 DEF SystemStep, UserStep
<1> QED
  BY <1>1, <1>2 DEF SystemNext, systemVars

(* The clients' variables keep their types in every behaviour.             *)
THEOREM ClientTypeCorrect == SystemSpec => []ClientTypeOK
<1>1. SystemInit => ClientTypeOK
  BY ClientInitTypes DEF SystemInit
<1>2. ClientTypeOK /\ [SystemNext]_systemVars => ClientTypeOK'
  BY SystemStepTypes
<1> QED
  BY <1>1, <1>2, PTL DEF SystemSpec

-----------------------------------------------------------------------------
(* What a client program does to its connection is something MailServer    *)
(* lets a client do.                                                       *)
LEMMA SendIsAllowed ==
  ASSUME NEW c \in Conn, NEW l \in ClientRequests, SendCommand(c, l)
  PROVE  Next
BY DEF SendCommand, Next, ClientStep

LEMMA ExitIsAllowed ==
  ASSUME NEW c \in Conn, Exit(c)
  PROVE  Next
BY DEF Exit, Next, ClientStep

LEMMA ProgramStepIsAllowed ==
  ASSUME ClientTypeOK, NEW c \in Conn, ProgramStep(c)
  PROVE  [Next]_vars
<1>1. Receive(c) => Next
  BY DEF Next, ClientStep
<1>2. CASE RecvWelcome(c) \/ HandleServerRequest(c) \/ RecvAnswer(c)
  BY <1>1, <1>2, ExitIsAllowed DEF RecvWelcome, HandleServerRequest, RecvAnswer
<1>3. CASE CommandLogin(c)
  <2>1. ASSUME NEW l \in NextEntries(c), l \in LoginReq, SendCommand(c, l)
        PROVE  Next
    <3>1. l \in ClientRequests
      BY <2>1, NextEntryTypes, RequestEntries, TypedRequest
    <3> QED
      BY <2>1, <3>1, SendIsAllowed
  <2> QED
    BY <1>3, <2>1, ExitIsAllowed DEF CommandLogin
<1>4. CASE ClientSelect(c)
  BY <1>4 DEF ClientSelect, Offline
<1>5. CASE HandleUserRequest(c) \/ CommandCompose(c)
  <2>1. ASSUME NEW l \in NextEntries(c), l # BadLine, l # ComposeLine, SendCommand(c, l)
        PROVE  Next
    <3>1. l \in ClientRequests
      BY <2>1, NextEntryTypes, RequestEntries
    <3> QED
      BY <2>1, <3>1, SendIsAllowed
  <2>2. ASSUME NEW l \in NextEntries(c), l # BadLine, l # ComposeLine, ReadAndSend(c, l)
        PROVE  Next
    BY <2>1, <2>2, ExitIsAllowed DEF ReadAndSend
  <2>3. ASSUME NEW l, NEW place, ReadAndGoto(c, l, place)
        PROVE  UNCHANGED vars
    BY <2>3 DEF ReadAndGoto, Offline
  <2>4. CASE HandleUserRequest(c)
    BY <2>2, <2>3, <2>4, ExitIsAllowed DEF HandleUserRequest, Refused
  <2>5. CASE CommandCompose(c)
    BY <2>2, <2>3, <2>5, TypedRequest, ExitIsAllowed DEF CommandCompose, Offline
  <2> QED
    BY <1>5, <2>4, <2>5
<1>6. CASE QuitExit(c) \/ RecvFails(c)
  BY <1>6, ExitIsAllowed DEF QuitExit, RecvFails
<1> QED
  BY <1>2, <1>3, <1>4, <1>5, <1>6 DEF ProgramStep

LEMMA SystemStepIsAllowed ==
  ASSUME ClientTypeOK, [SystemNext]_systemVars
  PROVE  [Next]_vars
<1>1. CASE ServerStep \/ Terminated \/ UNCHANGED systemVars
  BY <1>1 DEF Next, systemVars
<1>2. ASSUME NEW c \in Conn, SystemStep(c)
      PROVE  [Next]_vars
  <2>1. CASE ProgramStep(c)
    BY <2>1, ProgramStepIsAllowed
  <2>2. CASE StartClient(c)
    BY <2>2 DEF StartClient, Next, ClientStep
  <2>3. CASE CloseStdin(c) \/ \E l \in Entry : Type(c, l)
    BY <2>3 DEF CloseStdin, Type, Offline
  <2>4. CASE Killed(c)
    BY <2>4, ExitIsAllowed DEF Killed
  <2> QED
    BY <1>2, <2>1, <2>2, <2>3, <2>4 DEF SystemStep, UserStep
<1> QED
  BY <1>1, <1>2 DEF SystemNext

(* The whole system implements the server specification: every behaviour   *)
(* of the server with the client programs is one of the server with        *)
(* clients that connect, send, receive and leave as they like.             *)
THEOREM SystemImplementsServer == SystemSpec => ServerSpec
<1>1. SystemInit => Init
  BY DEF SystemInit
<1>2. ClientTypeOK /\ [SystemNext]_systemVars => [Next]_vars
  BY SystemStepIsAllowed
<1> QED
  BY <1>1, <1>2, ClientTypeCorrect, PTL DEF SystemSpec, ServerSpec, Spec

(* So in the whole system, too, sessions and inboxes agree, no pointer     *)
(* dangles, a user has one session, every session owns its descriptor and  *)
(* the loop reads only where there is something to read.                   *)
THEOREM SystemSafety ==
  SystemSpec => [](/\ SessionInboxAgree /\ NoDanglingPointers /\ OneSessionPerUser
                   /\ DescriptorsOwned /\ ReadsNeverBlock)
BY SystemImplementsServer, SessionsAgreeWithInboxes, PointersStayLive,
   UsersAreLoggedInOnce, SessionsOwnTheirDescriptors, ReadsNeverBlockTheLoop,
   PTL DEF ServerSpec

-----------------------------------------------------------------------------
(* What one step of the server does to one connection: nothing; it lets    *)
(* go of it; it welcomes, answers or, while a chat is being sent on, sends *)
(* it a message it did not ask for.                                        *)

(* No inbox has outgrown the message that lists it.                        *)
ListingsFit == \A k \in InboxId : Len(m_mails[k]) <= ShowInboxLimit

(* The inbox of this session has.                                          *)
Outgrown(c) ==
    m_inbox[c] # NoInbox /\ Len(m_mails[m_inbox[c]]) > ShowInboxLimit

Hears(c, msgs) == Connected(c) => outq'[c] = outq[c] \o msgs

Unheard(c) ==
    /\ UNCHANGED <<inq[c], outq[c], sessionState[c]>>
    /\ InServer(c)' <=> InServer(c)
    /\ InBacklog(c)' <=> InBacklog(c)

LetGo(c) == ServerGone(c)' /\ inq'[c] = <<>>

GetsWelcome(c) ==
    /\ InBacklog(c) /\ InServer(c)'
    /\ inq'[c] = inq[c]
    /\ sessionState'[c] = "STATE_NON_AUTH"
    /\ Hears(c, <<Welcome>>)

(* The session that answers is logged in, or what it answers is a General  *)
(* message that says whether it is now.                                    *)
StateAnswered(c, m) ==
    IF sessionState[c] = "STATE_LOGEDON" THEN sessionState'[c] = "STATE_LOGEDON"
    ELSE /\ m.type = "GENERAL"
         /\ m.status = "SUCCESS" => sessionState'[c] = "STATE_LOGEDON"

(* Only a listing that does not fit goes without its answer (a QUIT of a   *)
(* logged-in session is not answered either: the session is closed).       *)
GetsAnswer(c) ==
    /\ InServer(c) /\ InServer(c)'
    /\ inq[c] # <<>> /\ inq'[c] = Tail(inq[c])
    /\ sessionState[c] = "STATE_LOGEDON" => Head(inq[c]).type # "QUIT"
    /\ \E m \in Reply :
         /\ m.type \in AnswerType(Head(inq[c]))
         /\ StateAnswered(c, m)
         /\ \/ Hears(c, TypeReplies(Head(inq[c])) \o <<m>>)
            \/ /\ sessionState[c] = "STATE_LOGEDON"
               /\ Head(inq[c]).type = "SHOW_INBOX"
               /\ Outgrown(c) /\ Outgrown(c)'
               /\ outq'[c] = outq[c]

GetsNotice(c) ==
    /\ forward # <<>>
    /\ InServer(c) /\ InServer(c)'
    /\ sessionState[c] = "STATE_LOGEDON" /\ sessionState'[c] = "STATE_LOGEDON"
    /\ inq'[c] = inq[c]
    /\ \E m \in Reply : Hears(c, <<m>>)

LEMMA BacklogSame ==
  ASSUME backlog' = backlog
  PROVE  \A d : InBacklog(d)' <=> InBacklog(d)
BY DEF InBacklog

(* Only the one who is sent something hears of it.                         *)
LEMMA SentHeard ==
  ASSUME TypeOK, NEW c \in Conn, NEW msgs, outq' = Sent(c, msgs)
  PROVE  /\ Hears(c, msgs)
         /\ \A d \in Conn : d # c \/ ~Connected(d) => outq'[d] = outq[d]
BY DEF Sent, Hears, TypeOK, NetTypeOK

LEMMA SentNothing ==
  ASSUME TypeOK, NEW c \in Conn, outq' = Sent(c, <<>>)
  PROVE  outq'[c] = outq[c]
<1>1. outq[c] \in Seq(Reply)
  BY DEF TypeOK, NetTypeOK
<1>2. outq[c] \o <<>> = outq[c]
  BY <1>1, ConcatEmptySeq
<1> QED
  BY <1>2, SentHeard DEF Hears

(* An answer with one message of the right type.                           *)
LEMMA AnswersWith ==
  ASSUME TypeOK, NEW c \in Conn, Current(c), inq[c] # <<>>,
         NEW m \in Reply, Answer(c, TypeReplies(Head(inq[c])) \o <<m>>),
         m.type \in AnswerType(Head(inq[c])), StateAnswered(c, m),
         sessionState[c] = "STATE_LOGEDON" => Head(inq[c]).type # "QUIT"
  PROVE  GetsAnswer(c)
<1>1. InServer(c) /\ InServer(c)'
  BY CurrentType, SessionsSame DEF Answer, TypeOK
<1>2. inq'[c] = Tail(inq[c])
  BY DEF Answer, TypeOK, NetTypeOK
<1>3. Hears(c, TypeReplies(Head(inq[c])) \o <<m>>)
  BY SentHeard DEF Answer
<1> QED
  BY <1>1, <1>2, <1>3 DEF GetsAnswer

(* A command whose answer is the message alone.                            *)
LEMMA CommandAnswersWith ==
  ASSUME TypeOK, NEW c \in Conn, NEW types, HasRequest(c, "STATE_LOGEDON", types),
         {"NO_TYPE", "QUIT"} \cap types = {}, NEW m \in Reply, Answer(c, <<m>>),
         sessionState' = sessionState, m.type \in AnswerType(Head(inq[c]))
  PROVE  GetsAnswer(c)
<1>1. Current(c) /\ inq[c] # <<>> /\ Head(inq[c]).type \notin {"NO_TYPE", "QUIT"}
      /\ sessionState[c] = "STATE_LOGEDON"
  BY DEF HasRequest
<1>2. TypeReplies(Head(inq[c])) \o <<m>> = <<m>>
  <2>1. <<m>> \in Seq(Reply)
    BY OneMessage
  <2> QED
    BY <1>1, <2>1, ConcatEmptySeq DEF TypeReplies
<1>3. StateAnswered(c, m)
  BY <1>1 DEF StateAnswered
<1> QED
  BY <1>1, <1>2, <1>3, AnswersWith

LEMMA GeneralAnswers ==
  ASSUME NEW r, NEW status \in Status
  PROVE  /\ General(status) \in Reply
         /\ General(status).type = "GENERAL" /\ General(status).status = status
         /\ "GENERAL" \in AnswerType(r)
         /\ General(status).type \in AnswerType(r)
<1>1. General(status).type = "GENERAL" /\ General(status).status = status
  BY DEF General
<1>2. "GENERAL" \in AnswerType(r)
  BY DEF AnswerType
<1> QED
  BY <1>1, <1>2, GeneralType
(* Each handler answers the session under the iterator.                    *)
LEMMA LoginAnswers ==
  ASSUME IInv, NEW c \in Conn, SessionLogin(c)
  PROVE  GetsAnswer(c)
<1> DEFINE r == Head(inq[c])
           status == LoginStatus(r)
<1>1. /\ Current(c) /\ inq[c] # <<>> /\ TypeOK
      /\ sessionState[c] = "STATE_NON_AUTH"
      /\ Answer(c, TypeReplies(r) \o <<General(status)>>)
  BY DEF SessionLogin, HasRequest, IInv
<1>2. status \in Status
  BY LoginStatusType
<1>3. status = "SUCCESS" => sessionState'[c] = "STATE_LOGEDON"
  BY <1>1 DEF SessionLogin, TypeOK, SessionTypeOK
<1> HIDE DEF status
<1>4. StateAnswered(c, General(status))
  BY <1>1, <1>2, <1>3, GeneralAnswers DEF StateAnswered
<1> QED
  BY <1>1, <1>2, <1>4, GeneralAnswers, AnswersWith

LEMMA ShowInboxAnswers ==
  ASSUME IInv, NEW c \in Conn, ShowInbox(c)
  PROVE  GetsAnswer(c)
<1> DEFINE mails == m_mails[m_inbox[c]]
           rows == [i \in DOMAIN mails |-> RowOf(mails[i])]
<1>1. /\ HasRequest(c, "STATE_LOGEDON", {"SHOW_INBOX"}) /\ TypeOK
      /\ Answer(c, InboxReplies(mails)) /\ sessionState' = sessionState
  BY DEF ShowInbox, AnswerOnly, IInv
<1>2. /\ Head(inq[c]).type = "SHOW_INBOX" /\ inq[c] # <<>> /\ Current(c)
      /\ sessionState[c] = "STATE_LOGEDON"
  BY <1>1 DEF HasRequest
<1>3. m_inbox[c] \in InboxId /\ mails \in Seq(Mail)
  BY <1>1, <1>2
  DEF IInv, SessionInboxAgree, LoggedInHasInbox, TypeOK, SessionTypeOK, InboxTypeOK
<1>4. CASE InboxReplies(mails) = <<>>
  <2>1. Outgrown(c) /\ Outgrown(c)'
    <3>1. Len(mails) > ShowInboxLimit
      <4>1. \A m : <<m>> # <<>>
        OBVIOUS
      <4> QED
        BY <1>4, <4>1 DEF InboxReplies
    <3>2. m_inbox[c] # NoInbox
      BY <1>2 DEF IInv, SessionInboxAgree, LoggedInHasInbox
    <3>3. UNCHANGED <<m_inbox, m_mails>>
      BY DEF ShowInbox, AnswerOnly
    <3> QED
      BY <3>1, <3>2, <3>3 DEF Outgrown
  <2>2. outq'[c] = outq[c]
    BY <1>1, <1>4, SentNothing DEF Answer
  <2>3. inq'[c] = Tail(inq[c]) /\ InServer(c) /\ InServer(c)' /\ sessionState'[c] = sessionState[c]
    BY <1>1, <1>2, CurrentType, SessionsSame DEF Answer, TypeOK, NetTypeOK
  <2>4. /\ General("SUCCESS") \in Reply
        /\ General("SUCCESS").type \in AnswerType(Head(inq[c]))
    BY GeneralAnswers DEF Status
  <2> QED
    BY <1>2, <2>1, <2>2, <2>3, <2>4 DEF GetsAnswer, StateAnswered
<1>5. ASSUME NEW m, InboxReplies(mails) = <<m>>, m.type \in {"SHOW_INBOX_RES", "GENERAL"}
      PROVE  GetsAnswer(c)
  <2>1. m \in Reply
    <3>1. <<m>> \in Seq(Reply)
      BY <1>3, <1>5, InboxRepliesType
    <3> QED
      BY <3>1
  <2>2. m.type \in AnswerType(Head(inq[c]))
    BY <1>2, <1>5 DEF AnswerType
  <2> QED
    BY <1>1, <1>5, <2>1, <2>2, CommandAnswersWith
<1>6. General("INTERNAL_FAILURE").type = "GENERAL" /\ ShowInboxRes(rows).type = "SHOW_INBOX_RES"
  BY DEF General, ShowInboxRes
<1> QED
  BY <1>4, <1>5, <1>6 DEF InboxReplies

LEMMA GetMailAnswers ==
  ASSUME IInv, NEW c \in Conn, GetMail(c)
  PROVE  GetsAnswer(c)
<1> DEFINE mails == m_mails[m_inbox[c]]
           id == Head(inq[c]).id
           m == MailReply(mails, id)
<1>1. /\ HasRequest(c, "STATE_LOGEDON", {"GET_MAIL"}) /\ TypeOK
      /\ Answer(c, <<m>>) /\ sessionState' = sessionState
  BY DEF GetMail, AnswerOnly, IInv
<1>2. Head(inq[c]).type = "GET_MAIL" /\ sessionState[c] = "STATE_LOGEDON"
  BY <1>1 DEF HasRequest
<1>3. mails \in Seq(Mail)
  BY <1>1, <1>2
  DEF IInv, SessionInboxAgree, LoggedInHasInbox, TypeOK, SessionTypeOK, InboxTypeOK
<1>4. m \in Reply
  BY <1>3, MailReplyType
<1>5. m.type \in {"GENERAL", "GET_MAIL_RES"}
  BY DEF MailReply, General, GetMailRes
<1>6. m.type \in AnswerType(Head(inq[c]))
  BY <1>2, <1>5 DEF AnswerType
<1> HIDE DEF m
<1> QED
  BY <1>1, <1>4, <1>6, CommandAnswersWith

LEMMA ShowOnlineUsersAnswers ==
  ASSUME IInv, NEW c \in Conn, ShowOnlineUsers(c)
  PROVE  GetsAnswer(c)
<1>1. /\ HasRequest(c, "STATE_LOGEDON", {"SHOW_ONLINE_USERS"}) /\ TypeOK
      /\ Answer(c, <<OnlineReply>>) /\ sessionState' = sessionState
  BY DEF ShowOnlineUsers, AnswerOnly, IInv
<1>2. Head(inq[c]).type = "SHOW_ONLINE_USERS"
  BY <1>1 DEF HasRequest
<1>3. OnlineReply \in Reply
  BY <1>1, OnlineReplyType
<1>4. OnlineReply.type \in {"GENERAL", "SHOW_ONLINE_USERS_RES"}
  BY DEF OnlineReply, General, OnlineRes
<1>5. OnlineReply.type \in AnswerType(Head(inq[c]))
  BY <1>2, <1>4 DEF AnswerType
<1> QED
  BY <1>1, <1>3, <1>5, CommandAnswersWith
(* InvalidRequest answers a frame without a type twice.                    *)
LEMMA InvalidAnswers ==
  ASSUME IInv, NEW c \in Conn, InvalidRequest(c)
  PROVE  GetsAnswer(c)
<1> DEFINE m == General("UNVALID_MESSAGE")
<1>1. /\ Current(c) /\ inq[c] # <<>> /\ TypeOK /\ Head(inq[c]).type # "QUIT"
      /\ sessionState[c] = "STATE_LOGEDON" /\ sessionState' = sessionState
      /\ Answer(c, TypeReplies(Head(inq[c])) \o <<m>>)
  BY DEF InvalidRequest, AnswerOnly, HasRequest, IInv
<1>2. m \in Reply /\ m.type \in AnswerType(Head(inq[c]))
  BY GeneralAnswers DEF Status
<1> HIDE DEF m
<1>3. StateAnswered(c, m)
  BY <1>1 DEF StateAnswered
<1> QED
  BY <1>1, <1>2, <1>3, AnswersWith

(* The handlers whose only answer is a status.                             *)
LEMMA StatusAnswers ==
  ASSUME IInv, NEW c \in Conn,
         \/ DeleteMail(c) \/ Compose(c) \/ ChatUnknownUser(c) \/ ChatTooLong(c)
         \/ ChatOffline(c)
  PROVE  GetsAnswer(c)
<1>1. PICK status \in Status : Answer(c, <<General(status)>>)
  BY DEF DeleteMail, Compose, ChatUnknownUser, ChatTooLong, ChatOffline, AnswerOnly,
         DeleteStatus, Status
<1>2. /\ HasRequest(c, "STATE_LOGEDON", {"DELETE_MAIL", "COMPOSE", "SEND_CHAT"})
      /\ sessionState' = sessionState
  BY DEF DeleteMail, Compose, ChatUnknownUser, ChatTooLong, ChatOffline, AnswerOnly,
         HasRequest
<1> QED
  BY <1>1, <1>2, GeneralAnswers, CommandAnswersWith DEF IInv

(* ... and the sender of a chat is answered before the chat is sent on.    *)
LEMMA ChatAnswers ==
  ASSUME IInv, NEW c \in Conn, ChatOnline(c)
  PROVE  GetsAnswer(c)
<1> DEFINE m == General("SUCCESS")
<1>1. /\ Current(c) /\ inq[c] # <<>> /\ TypeOK /\ Head(inq[c]).type = "SEND_CHAT"
      /\ sessionState[c] = "STATE_LOGEDON" /\ sessionState' = sessionState
      /\ outq' = Sent(c, <<m>>) /\ inq' = [inq EXCEPT ![c] = Tail(@)]
      /\ m_sessions' = m_sessions
  BY DEF ChatOnline, HasRequest, IInv, sessionVars
<1>2. m \in Reply /\ m.type \in AnswerType(Head(inq[c]))
  BY GeneralAnswers DEF Status
<1> HIDE DEF m
<1>3. TypeReplies(Head(inq[c])) \o <<m>> = <<m>>
  <2>1. <<m>> \in Seq(Reply)
    BY <1>2, OneMessage
  <2> QED
    BY <1>1, <2>1, ConcatEmptySeq DEF TypeReplies
<1>4. Hears(c, TypeReplies(Head(inq[c])) \o <<m>>)
  BY <1>1, <1>3, SentHeard
<1>5. InServer(c) /\ InServer(c)' /\ inq'[c] = Tail(inq[c])
  BY <1>1, CurrentType, SessionsSame DEF TypeOK, NetTypeOK
<1> QED
  BY <1>1, <1>2, <1>4, <1>5 DEF GetsAnswer, StateAnswered

(* A session that is closed is gone.                                       *)
LEMMA ClosedIsGone ==
  ASSUME IInv, DescriptorsOwned', NEW c \in Conn, CloseSession(c), InServer(c),
         backlog' = backlog
  PROVE  LetGo(c)
<1>1. m_socketfd'[c] = SOCKET_INVALID_DEFAULT /\ inq'[c] = <<>>
  BY DEF CloseSession, IInv, TypeOK, SessionTypeOK, NetTypeOK
<1>2. ~InServer(c)'
  BY <1>1 DEF DescriptorsOwned
<1>3. ~InBacklog(c)'
  <2>1. ~InBacklog(c)
    BY DEF IInv, BacklogWaits, InBacklog
  <2> QED
    BY <2>1, BacklogSame
<1> QED
  BY <1>1, <1>2, <1>3 DEF LetGo, ServerGone

LEMMA EndsLetGo ==
  ASSUME ProcessEnds, NEW d \in Conn
  PROVE  LetGo(d) /\ outq' = outq
BY DEF ProcessEnds, LetGo, ServerGone, InServer, InBacklog

(* A handler's step, for the session it serves ...                         *)
LEMMA SessionStepServes ==
  ASSUME IInv, DescriptorsOwned', NEW c \in Conn, SessionStep(c)
  PROVE  GetsAnswer(c) \/ LetGo(c)
<1>1. CASE SessionFailure(c) \/ Quit(c)
  <2>1. CloseSession(c) /\ Current(c) /\ backlog' = backlog
    BY <1>1 DEF SessionFailure, Quit, HasRequest
  <2> QED
    BY <2>1, CurrentType, ClosedIsGone DEF IInv, TypeOK
<1>2. CASE RecvUndefined(c)
  BY <1>2, EndsLetGo DEF RecvUndefined
<1> QED
  BY <1>1, <1>2, LoginAnswers, InvalidAnswers, ShowInboxAnswers, GetMailAnswers,
     StatusAnswers, ShowOnlineUsersAnswers, ChatAnswers DEF SessionStep

(* ... and for every other one.                                            *)
LEMMA SessionStepOthers ==
  ASSUME IInv, NEW c \in Conn, SessionStep(c), NEW d \in Conn, d # c
  PROVE  Unheard(d) \/ LetGo(d)
<1>0. TypeOK
  BY DEF IInv
<1>1. CASE ProcessEnds
  BY <1>1, EndsLetGo
<1>2. CASE ~ProcessEnds
  <2>1. \E msgs : outq' = Sent(c, msgs) \/ outq' = outq
    BY <1>2
    DEF SessionStep, SessionFailure, SessionLogin, InvalidRequest, ShowInbox, GetMail,
        DeleteMail, Compose, Quit, ShowOnlineUsers, ChatUnknownUser, ChatTooLong,
        ChatOnline, ChatOffline, RecvUndefined, AnswerOnly, Answer
  <2>2. outq'[d] = outq[d]
    BY <1>0, <2>1, SentHeard
  <2>3. backlog' = backlog /\ sessionState'[d] = sessionState[d]
    BY <1>0, <1>2
    DEF SessionStep, SessionFailure, SessionLogin, InvalidRequest, ShowInbox, GetMail,
        DeleteMail, Compose, Quit, ShowOnlineUsers, ChatUnknownUser, ChatTooLong,
        ChatOnline, ChatOffline, RecvUndefined, AnswerOnly, Answer, CloseSession,
        sessionVars, TypeOK, SessionTypeOK
  <2>4. CASE Closes(c)
    <3>1. InServer(d)' <=> InServer(d)
      BY <1>0, <2>4, SessionsErased DEF Closes
    <3>2. inq'[d] = inq[d]
      BY <1>0, <2>4 DEF Closes, CloseSession, TypeOK, NetTypeOK
    <3> QED
      BY <2>2, <2>3, <3>1, <3>2, BacklogSame DEF Unheard
  <2>5. CASE Serves(c)
    <3>1. inq'[d] = inq[d] /\ m_sessions' = m_sessions
      BY <1>0, <2>5 DEF Serves, TypeOK, NetTypeOK
    <3> QED
      BY <2>2, <2>3, <3>1, SessionsSame, BacklogSame DEF Unheard
  <2> QED
    BY <1>2, <2>4, <2>5, SessionStepShape
<1> QED
  BY <1>1, <1>2
(* accept, for the one at the head of the queue and for the others.        *)
LEMMA AcceptOn ==
  ASSUME IInv, Accept, NEW d \in Conn
  PROVE  GetsWelcome(d) \/ Unheard(d)
<1>0. TypeOK
  BY DEF IInv
<1>1. PICK c : c = Head(backlog)
  OBVIOUS
<1>2. /\ backlog \in Seq(Conn) /\ backlog # <<>> /\ c \in Conn /\ c = backlog[1]
      /\ Len(backlog) \in Nat \ {0} /\ DOMAIN backlog = 1..Len(backlog)
  <2>1. backlog \in Seq(Conn) /\ backlog # <<>>
    BY <1>0 DEF Accept, TypeOK, NetTypeOK
  <2> QED
    BY <1>1, <2>1, HeadTailProperties, EmptySeq, LenProperties
<1>3. /\ m_sessions' = Append(m_sessions, c)
      /\ sessionState' = [sessionState EXCEPT ![c] = "STATE_NON_AUTH"]
      /\ outq' = Sent(c, <<Welcome>>) /\ backlog' = Tail(backlog) /\ inq' = inq
  BY <1>1 DEF Accept
<1>4. CASE d = c
  <2>1. InBacklog(c)
    BY <1>2 DEF InBacklog
  <2>2. InServer(c)'
    <3>1. /\ DOMAIN m_sessions' = 1..(Len(m_sessions) + 1)
          /\ m_sessions'[Len(m_sessions) + 1] = c
      BY <1>0, <1>2, <1>3, AppendProperties, LenProperties DEF TypeOK, SessionTypeOK
    <3>2. Len(m_sessions) + 1 \in DOMAIN m_sessions'
      BY <1>0, <3>1, SessionList
    <3> QED
      BY <3>1, <3>2 DEF InServer
  <2>3. sessionState'[c] = "STATE_NON_AUTH" /\ Hears(c, <<Welcome>>)
    BY <1>0, <1>2, <1>3, SentHeard DEF TypeOK, SessionTypeOK
  <2> QED
    BY <1>3, <1>4, <2>1, <2>2, <2>3 DEF GetsWelcome
<1>5. CASE d # c
  <2>1. InServer(d)' <=> InServer(d)
    BY <1>0, <1>2, <1>3, <1>5, SessionsAppended
  <2>2. InBacklog(d)' <=> InBacklog(d)
    <3>1. /\ DOMAIN backlog' = 1..(Len(backlog) - 1)
          /\ \A i \in 1..(Len(backlog) - 1) : backlog'[i] = backlog[i + 1]
      <4>1. /\ Tail(backlog) \in Seq(Conn)
            /\ Len(Tail(backlog)) = Len(backlog) - 1
            /\ \A i \in 1..Len(Tail(backlog)) : Tail(backlog)[i] = backlog[i + 1]
        BY <1>2, HeadTailProperties
      <4> QED
        BY <1>3, <4>1, LenProperties
    <3>2. ASSUME NEW i \in DOMAIN backlog, backlog[i] = d
          PROVE  \E j \in DOMAIN backlog' : backlog'[j] = d
      <4>1. i # 1 /\ i - 1 \in 1..(Len(backlog) - 1) /\ (i - 1) + 1 = i
        BY <1>2, <1>5, <3>2
      <4> QED
        BY <3>1, <3>2, <4>1
    <3>3. ASSUME NEW j \in DOMAIN backlog', backlog'[j] = d
          PROVE  \E i \in DOMAIN backlog : backlog[i] = d
      <4>1. j + 1 \in DOMAIN backlog
        BY <1>2, <3>1
      <4> QED
        BY <3>1, <3>3, <4>1
    <3> QED
      BY <3>2, <3>3 DEF InBacklog
  <2>3. sessionState'[d] = sessionState[d] /\ outq'[d] = outq[d]
    BY <1>0, <1>2, <1>3, <1>5, SentHeard DEF TypeOK, SessionTypeOK
  <2> QED
    BY <1>3, <2>1, <2>2, <2>3 DEF Unheard
<1> QED
  BY <1>4, <1>5

(* The second send of a chat.                                              *)
LEMMA ForwardOn ==
  ASSUME IInv, ForwardLoggedIn, ForwardChat \/ ForwardFails, NEW d \in Conn
  PROVE  GetsNotice(d) \/ Unheard(d)
<1>0. TypeOK
  BY DEF IInv
<1>1. /\ forward # <<>>
      /\ UNCHANGED <<m_sessions, sessionState, backlog, inq>>
  BY DEF ForwardChat, ForwardFails, ForwardDone, sessionVars
<1>2. PICK f : f = Head(forward)
  OBVIOUS
<1>3. /\ f.from \in Conn /\ f.to \in Conn /\ f.chat \in Reply
      /\ InServer(f.from) /\ InServer(f.to)
      /\ sessionState[f.from] = "STATE_LOGEDON" /\ sessionState[f.to] = "STATE_LOGEDON"
  <2>1. forward \in Seq([from : Conn, to : Conn, chat : Chat])
    BY <1>0 DEF TypeOK, ServerTypeOK
  <2>2. f = forward[1] /\ 1 \in DOMAIN forward
    BY <1>1, <1>2, <2>1
  <2>3. f \in [from : Conn, to : Conn, chat : Chat]
    BY <1>1, <1>2, <2>1, HeadTailProperties
  <2>4. InServer(f.from) /\ InServer(f.to)
    BY <2>2 DEF IInv, NoDanglingPointers, ForwardLive
  <2> QED
    BY <1>1, <1>2, <2>3, <2>4 DEF ForwardLoggedIn, Reply
<1>4. PICK c \in {f.from, f.to}, m \in Reply : outq' = Sent(c, <<m>>)
  BY <1>2, <1>3, GeneralAnswers DEF ForwardChat, ForwardFails, Status
<1>5. CASE d = c
  BY <1>0, <1>1, <1>3, <1>4, <1>5, SentHeard, SessionsSame DEF GetsNotice
<1>6. CASE d # c
  BY <1>0, <1>1, <1>3, <1>4, <1>6, SentHeard, SessionsSame, BacklogSame DEF Unheard
<1> QED
  BY <1>5, <1>6

LEMMA DestroyOn ==
  ASSUME IInv, DescriptorsOwned', DestroySession, NEW d \in Conn
  PROVE  LetGo(d) \/ Unheard(d)
<1> DEFINE c == Last(m_sessions)
<1>0. TypeOK
  BY DEF IInv
<1>1. /\ m_sessions # <<>> /\ CloseSession(c) /\ m_sessions' = Front(m_sessions)
      /\ UNCHANGED <<backlog, outq>>
  BY DEF DestroySession
<1>2. c \in Conn /\ InServer(c)
  BY <1>0, <1>1, PopTakesOut, SessionList
<1> HIDE DEF c
<1>3. CASE d = c
  BY <1>1, <1>2, <1>3, ClosedIsGone
<1>4. CASE d # c
  <2>1. InServer(d)' <=> InServer(d)
    BY <1>0, <1>1, <1>4, SessionsPopped DEF c
  <2>2. inq'[d] = inq[d] /\ sessionState'[d] = sessionState[d]
    BY <1>0, <1>1, <1>4
    DEF CloseSession, TypeOK, SessionTypeOK, NetTypeOK
  <2> QED
    BY <1>1, <2>1, <2>2, BacklogSame DEF Unheard
<1> QED
  BY <1>3, <1>4

(* Every step of the server, for every connection.                         *)
LEMMA ServerStepOn ==
  ASSUME IInv, DescriptorsOwned, ForwardLoggedIn, ServerStep, NEW d \in Conn
  PROVE  Unheard(d) \/ LetGo(d) \/ GetsWelcome(d) \/ GetsAnswer(d) \/ GetsNotice(d)
<1>0. DescriptorsOwned'
  BY OwnedStep DEF Next
<1>1. ASSUME NEW c \in Conn, SessionStep(c)
      PROVE  Unheard(d) \/ LetGo(d) \/ GetsAnswer(d)
  BY <1>0, <1>1, SessionStepServes, SessionStepOthers
<1>2. CASE Accept
  BY <1>2, AcceptOn
<1>3. CASE ForwardChat \/ ForwardFails
  BY <1>3, ForwardOn
<1>4. CASE DestroySession
  BY <1>0, <1>4, DestroyOn
<1>5. CASE ProcessExit
  BY <1>5, EndsLetGo DEF ProcessExit
<1>6. CASE \/ LoadUsersFromFile \/ Start \/ MainReturns \/ Select \/ NoNewConnection
           \/ AcceptFails \/ ScanSkip \/ ScanEnd \/ DestroyInboxes
  <2>1. UNCHANGED <<m_sessions, sessionState, backlog, inq, outq>>
    BY <1>6
    DEF LoadUsersFromFile, Start, MainReturns, Select, NoNewConnection, AcceptFails,
        ScanSkip, ScanEnd, DestroyInboxes, sessionVars, netVars
  <2> QED
    BY <2>1, SessionsSame, BacklogSame DEF Unheard
<1> QED
  BY <1>1, <1>2, <1>3, <1>4, <1>5, <1>6 DEF ServerStep

(* The server changes neither whether a client is there nor what one that  *)
(* has left can read.                                                      *)
LEMMA ServerKeepsPeers ==
  ASSUME IInv, ServerStep, NEW d \in Conn
  PROVE  /\ Connected(d)' <=> Connected(d)
         /\ ~Connected(d) => outq'[d] = outq[d]
<1>0. TypeOK
  BY DEF IInv
<1>1. Connected(d)' <=> Connected(d)
  <2>1. ASSUME NEW c \in Conn, CloseSession(c)
        PROVE  Connected(d)' <=> Connected(d)
    BY <1>0, <2>1 DEF CloseSession, Connected, TypeOK, NetTypeOK
  <2>2. ProcessEnds => (Connected(d)' <=> Connected(d))
    BY DEF ProcessEnds, Connected
  <2>3. CASE DestroySession
    <3>1. Last(m_sessions) \in Conn
      BY <1>0, <2>3, PopTakesOut, SessionList DEF DestroySession
    <3> QED
      BY <2>1, <2>3, <3>1 DEF DestroySession
  <2>4. ASSUME NEW c \in Conn, SessionStep(c)
        PROVE  Connected(d)' <=> Connected(d)
    BY <2>1, <2>2, <2>4, SessionStepShape DEF Closes, Serves, Connected
  <2>5. peer' = peer => (Connected(d)' <=> Connected(d))
    BY DEF Connected
  <2>6. CASE \/ LoadUsersFromFile \/ Start \/ MainReturns \/ Select \/ NoNewConnection
             \/ Accept \/ AcceptFails \/ ScanSkip \/ ScanEnd \/ ForwardChat
             \/ ForwardFails \/ DestroyInboxes
    BY <2>5, <2>6
    DEF LoadUsersFromFile, Start, MainReturns, Select, NoNewConnection, Accept,
        AcceptFails, ScanSkip, ScanEnd, ForwardChat, ForwardFails, ForwardDone,
        DestroyInboxes, netVars
  <2> QED
    BY <2>2, <2>3, <2>4, <2>6 DEF ServerStep, ProcessExit
<1>2. ASSUME ~Connected(d)
      PROVE  outq'[d] = outq[d]
  <2>1. ASSUME NEW c, NEW msgs, outq' = Sent(c, msgs)
        PROVE  outq'[d] = outq[d]
    BY <1>0, <1>2, <2>1 DEF Sent, TypeOK, NetTypeOK
  <2>2. outq' = outq \/ \E c, msgs : outq' = Sent(c, msgs)
    BY DEF ServerStep, LoadUsersFromFile, Start, MainReturns, Select, NoNewConnection,
           Accept, AcceptFails, ScanSkip, ScanEnd, ForwardChat, ForwardFails,
           DestroySession, DestroyInboxes, ProcessExit, ProcessEnds, netVars,
           SessionStep, SessionFailure, SessionLogin, InvalidRequest, ShowInbox,
           GetMail, DeleteMail, Compose, Quit, ShowOnlineUsers, ChatUnknownUser,
           ChatTooLong, ChatOnline, ChatOffline, RecvUndefined, AnswerOnly, Answer
  <2> QED
    BY <2>1, <2>2
<1> QED
  BY <1>1, <1>2
-----------------------------------------------------------------------------
(* What one step of a client does to its connection.                       *)
Idling == {"select", "server", "stdin", "compose"}

TakesWelcome(c) ==
    /\ cpc[c] = "welcome" /\ outq[c] # <<>> /\ Head(outq[c]) = Welcome
    /\ Receive(c) /\ Goto(c, "login") /\ UNCHANGED request
Submits(c) ==
    \E r \in ClientRequests :
      /\ \/ cpc[c] = "login" /\ r.type = "LOGIN"
         \/ cpc[c] \in Idling /\ r.type # "LOGIN"
      /\ SendCommand(c, r)
Wanders(c) ==
    /\ cpc[c] \in Idling
    /\ \E place \in Idling : Goto(c, place)
    /\ UNCHANGED <<request, vars>>
TakesUnasked(c) ==
    /\ cpc[c] = "server" /\ outq[c] # <<>> /\ GoesOnUnasked(Head(outq[c]))
    /\ Receive(c) /\ Goto(c, "select") /\ UNCHANGED request
TakesAnswer(c) ==
    /\ cpc[c] = "await" /\ outq[c] # <<>>
    /\ GoesOnAnswered(request[c], Head(outq[c]))
    /\ Receive(c) /\ Goto(c, "select")
    /\ request' = [request EXCEPT ![c] = BadLine]
Waits == UNCHANGED <<vars, cpc, request>>

(* Only LoginReq has the type of a login.                                  *)
LEMMA LoginByType ==
  ASSUME NEW r \in ClientRequests
  PROVE  r.type = "LOGIN" <=> r \in LoginReq
BY RequestAssumption
DEF Request, LoginReq, PlainReq, MailIdReq, ComposeReq, ChatReq

LEMMA ClientStepOn ==
  ASSUME ClientTypeOK, NEW c \in Conn, SystemStep(c)
  PROVE  \/ Exit(c) \/ StartClient(c) \/ TakesWelcome(c) \/ Submits(c) \/ Wanders(c)
         \/ TakesUnasked(c) \/ TakesAnswer(c) \/ Waits
<1>1. CASE RecvWelcome(c)
  BY <1>1 DEF RecvWelcome, TakesWelcome
<1>2. CASE CommandLogin(c)
  <2>1. ASSUME NEW l \in NextEntries(c), l \in LoginReq, SendCommand(c, l)
        PROVE  Submits(c)
    <3>1. l \in ClientRequests
      BY <2>1, NextEntryTypes, RequestEntries, TypedRequest
    <3> QED
      BY <1>2, <2>1, <3>1, LoginByType DEF CommandLogin, Submits
  <2> QED
    BY <1>2, <2>1 DEF CommandLogin
<1>3. CASE ClientSelect(c)
  BY <1>3 DEF ClientSelect, Wanders, Idling, Offline
<1>4. CASE HandleServerRequest(c)
  BY <1>4 DEF HandleServerRequest, TakesUnasked
<1>5. CASE HandleUserRequest(c) \/ CommandCompose(c)
  <2>0. cpc[c] \in Idling
    BY <1>5 DEF HandleUserRequest, CommandCompose, Idling
  <2>1. ASSUME NEW l \in NextEntries(c), l # BadLine, l # ComposeLine, l \notin LoginReq,
               ReadAndSend(c, l)
        PROVE  Exit(c) \/ Submits(c)
    <3>1. l \in ClientRequests
      BY <2>1, NextEntryTypes, RequestEntries
    <3> QED
      BY <2>0, <2>1, <3>1, LoginByType DEF ReadAndSend, Submits
  <2>2. ASSUME NEW l, NEW place \in Idling, ReadAndGoto(c, l, place)
        PROVE  Wanders(c)
    BY <2>0, <2>2 DEF ReadAndGoto, Wanders, Offline
  <2>3. "select" \in Idling /\ "compose" \in Idling
    BY DEF Idling
  <2>4. CASE HandleUserRequest(c)
    BY <2>1, <2>2, <2>3, <2>4 DEF HandleUserRequest, Refused
  <2>5. CASE CommandCompose(c)
    <3>1. \A l \in ComposeReq : l \notin LoginReq
      BY DEF ComposeReq, LoginReq
    <3>2. ASSUME Goto(c, "select"), UNCHANGED <<request, inputVars>>, Offline
          PROVE  Wanders(c)
      BY <2>0, <2>3, <3>2 DEF Wanders, Offline
    <3> QED
      BY <2>1, <2>2, <2>3, <2>5, <3>1, <3>2, TypedRequest DEF CommandCompose
  <2> QED
    BY <1>5, <2>4, <2>5
<1>6. CASE QuitExit(c) \/ RecvFails(c) \/ Killed(c)
  BY <1>6 DEF QuitExit, RecvFails, Killed
<1>7. CASE RecvAnswer(c)
  BY <1>7 DEF RecvAnswer, TakesAnswer
<1>8. CASE CloseStdin(c) \/ \E l \in Entry : Type(c, l)
  BY <1>8 DEF CloseStdin, Type, Waits, Offline
<1> QED
  BY <1>1, <1>2, <1>3, <1>4, <1>5, <1>6, <1>7, <1>8 DEF SystemStep, ProgramStep, UserStep

(* What is between client d and the server is as it was.                   *)
Undisturbed(d) ==
    /\ UNCHANGED <<cpc[d], request[d], inq[d], outq[d], peer[d], sessionState[d]>>
    /\ InServer(d)' <=> InServer(d)
    /\ InBacklog(d)' <=> InBacklog(d)

LEMMA ClientStepElsewhere ==
  ASSUME ClientTypeOK, TypeOK, NEW c \in Conn, SystemStep(c), NEW d \in Conn, d # c
  PROVE  Undisturbed(d)
<1>0. /\ cpc \in [Conn -> ClientPlaces]
      /\ DOMAIN request = Conn /\ DOMAIN inq = Conn /\ DOMAIN outq = Conn
      /\ DOMAIN peer = Conn /\ backlog \in Seq(Conn)
  BY DEF ClientTypeOK, ClientPlaces, TypeOK, NetTypeOK
<1>1. UNCHANGED <<cpc[d], request[d]>>
  BY <1>0, ClientStepOn
  DEF Exit, StartClient, TakesWelcome, Submits, SendCommand, Wanders, TakesUnasked,
      TakesAnswer, Waits, Goto
<1>2. UNCHANGED <<inq[d], outq[d], peer[d], sessionState, m_sessions>>
  BY <1>0, ClientStepOn
  DEF Exit, StartClient, TakesWelcome, Submits, SendCommand, Wanders, TakesUnasked,
      TakesAnswer, Waits, Connect, Send, Receive, Disconnect, vars, netVars, sessionVars
<1>3. backlog' = backlog \/ backlog' = Append(backlog, c)
  BY ClientStepOn
  DEF Exit, StartClient, TakesWelcome, Submits, SendCommand, Wanders, TakesUnasked,
      TakesAnswer, Waits, Connect, Send, Receive, Disconnect, vars, netVars
<1>4. InBacklog(d)' <=> InBacklog(d)
  <2>1. CASE backlog' = Append(backlog, c)
    <3>1. /\ Len(backlog) \in Nat /\ DOMAIN backlog = 1..Len(backlog)
          /\ DOMAIN backlog' = 1..(Len(backlog) + 1)
          /\ \A i \in 1..Len(backlog) : backlog'[i] = backlog[i]
          /\ backlog'[Len(backlog) + 1] = c
      BY <1>0, <2>1, AppendProperties, LenProperties
    <3>2. /\ \A i \in DOMAIN backlog' : i \in DOMAIN backlog \/ i = Len(backlog) + 1
          /\ \A i \in DOMAIN backlog : i \in DOMAIN backlog'
      BY <3>1
    <3> QED
      BY <3>1, <3>2 DEF InBacklog
  <2> QED
    BY <1>3, <2>1, BacklogSame
<1> QED
  BY <1>1, <1>2, <1>4, SessionsSame DEF Undisturbed

(* A step of another process leaves the client where it is.                *)
LEMMA ServerLeavesClients ==
  ASSUME UNCHANGED clientVars
  PROVE  UNCHANGED <<cpc, request>>
BY DEF clientVars
-----------------------------------------------------------------------------
(* What the client believes agrees with what the server holds.  Inductive  *)
(* is only the whole dialogue up to the answer of the login: before it the *)
(* connection carries at most the welcome, then the request of the login,  *)
(* then its answer, and the session is logged in when that says SUCCESS.   *)
Attached(c) == Connected(c) /\ ~ServerGone(c)

BeforeLogin(c) ==
    /\ inq[c] = <<>>
    /\ IF InServer(c)
       THEN /\ sessionState[c] = "STATE_NON_AUTH"
            /\ outq[c] = IF cpc[c] = "welcome" THEN <<Welcome>> ELSE <<>>
       ELSE cpc[c] = "welcome" /\ outq[c] = <<>>
LoginUnread(c) ==
    /\ sessionState[c] = "STATE_NON_AUTH"
    /\ inq[c] = <<request[c]>> /\ outq[c] = <<>>
LoginAnswered(c) ==
    /\ inq[c] = <<>> /\ outq[c] # <<>>
    /\ Head(outq[c]).type = "GENERAL"
    /\ Head(outq[c]).status = "SUCCESS" => sessionState[c] = "STATE_LOGEDON"
LoggingIn(c) == cpc[c] = "await" /\ request[c].type = "LOGIN"

ViewOf(c) ==
    IF cpc[c] \in {"welcome", "login"} THEN BeforeLogin(c)
    ELSE /\ InServer(c)
         /\ IF LoggingIn(c) THEN LoginUnread(c) \/ LoginAnswered(c)
            ELSE sessionState[c] = "STATE_LOGEDON"

ViewFor(c) ==
    /\ cpc[c] = "off" <=> ~Connected(c)
    /\ ~Connected(c) => outq[c] = <<>>
    /\ ServerGone(c) => inq[c] = <<>>
    /\ Attached(c) => ViewOf(c)
ClientView == \A c \in Conn : ViewFor(c)

ServerInv == IInv /\ DescriptorsOwned /\ ForwardLoggedIn

LEMMA ServerInvariance == Spec => []ServerInv
<1>1. Init => ForwardLoggedIn
  BY DEF Init, ForwardLoggedIn
<1>2. IInv /\ ForwardLoggedIn /\ [Next]_vars => ForwardLoggedIn'
  BY ForwardLoggedInStep
<1> QED
  BY <1>1, <1>2, Invariance, SessionsOwnTheirDescriptors, PTL DEF Spec, ServerInv

LEMMA ViewUndisturbed ==
  ASSUME NEW c \in Conn, ViewFor(c), Undisturbed(c)
  PROVE  ViewFor(c)'
BY DEF ViewFor, Undisturbed, Attached, ServerGone, Connected, ViewOf, BeforeLogin,
       LoginUnread, LoginAnswered, LoggingIn

(* The server's steps.  Nothing is heard before the welcome, an answer     *)
(* settles the login, and later messages come behind that answer.          *)
LEMMA HeadStays ==
  ASSUME NEW s \in Seq(Reply), NEW u \in Seq(Reply), s # <<>>
  PROVE  s \o u # <<>> /\ Head(s \o u) = Head(s)
<1>1. Len(s) \in Nat \ {0} /\ Len(u) \in Nat
  BY EmptySeq, LenProperties
<1>2. /\ s \o u \in Seq(Reply)
      /\ Len(s \o u) = Len(s) + Len(u)
      /\ (s \o u)[1] = s[1]
  BY <1>1, ConcatProperties
<1>3. s \o u # <<>>
  <2>1. Len(s \o u) # 0
    BY <1>1, <1>2
  <2> QED
    BY <2>1
<1> QED
  BY <1>2, <1>3, HeadTailProperties

LEMMA ViewAfterServer ==
  ASSUME ServerInv, ServerStep, NEW c \in Conn, UNCHANGED <<cpc, request>>, ViewFor(c)
  PROVE  ViewFor(c)'
<1>0. /\ IInv /\ TypeOK /\ (Connected(c)' <=> Connected(c))
      /\ (~Connected(c) => outq'[c] = outq[c])
      /\ outq[c] \in Seq(Reply) /\ sessionState[c] \in {"STATE_NON_AUTH", "STATE_LOGEDON"}
  BY ServerKeepsPeers DEF ServerInv, IInv, TypeOK, NetTypeOK, SessionTypeOK
<1>1. /\ cpc'[c] = "off" <=> ~Connected(c)'
      /\ ~Connected(c)' => outq'[c] = <<>>
  BY <1>0 DEF ViewFor
<1>2. CASE Unheard(c)
  BY <1>0, <1>1, <1>2
  DEF Unheard, ViewFor, Attached, ServerGone, ViewOf, BeforeLogin, LoginUnread,
      LoginAnswered, LoggingIn
<1>3. CASE LetGo(c)
  BY <1>1, <1>3 DEF LetGo, ViewFor, Attached
<1>4. CASE GetsWelcome(c)
  <2>1. ~InServer(c) /\ ~ServerGone(c)
    BY <1>0, <1>4
    DEF GetsWelcome, IInv, BacklogWaits, InBacklog, ServerGone
  <2>2. ASSUME Connected(c)
        PROVE  ViewOf(c)'
    <3>1. /\ cpc[c] = "welcome" /\ inq[c] = <<>> /\ outq[c] = <<>>
      BY <2>1, <2>2 DEF ViewFor, Attached, ViewOf, BeforeLogin
    <3>2. outq'[c] = <<Welcome>>
      <4>1. <<Welcome>> \in Seq(Reply)
        BY WelcomeType, OneMessage
      <4> QED
        BY <1>4, <2>2, <3>1, <4>1, ConcatEmptySeq DEF GetsWelcome, Hears
    <3> QED
      BY <1>4, <3>1, <3>2 DEF GetsWelcome, ViewOf, BeforeLogin
  <2> QED
    BY <1>0, <1>1, <1>4, <2>2 DEF GetsWelcome, ViewFor, Attached, ServerGone
<1>5. CASE GetsAnswer(c)
  <2>1. ASSUME Connected(c)
        PROVE  ViewOf(c)'
    <3>1. ViewOf(c) /\ inq[c] # <<>> /\ InServer(c)'
      BY <1>5, <2>1 DEF GetsAnswer, ViewFor, Attached, ServerGone
    <3>2. cpc[c] \notin {"welcome", "login"}
      BY <3>1 DEF ViewOf, BeforeLogin
    <3>3. CASE sessionState[c] = "STATE_LOGEDON"
      <4>1. ~LoggingIn(c)
        BY <3>1, <3>2, <3>3 DEF ViewOf, LoginUnread, LoginAnswered
      <4>2. sessionState'[c] = "STATE_LOGEDON"
        BY <1>5, <3>3 DEF GetsAnswer, StateAnswered
      <4> QED
        BY <3>1, <3>2, <4>1, <4>2 DEF ViewOf, LoggingIn
    <3>4. CASE sessionState[c] # "STATE_LOGEDON"
      <4>1. LoggingIn(c) /\ inq[c] = <<request[c]>> /\ outq[c] = <<>>
        BY <3>1, <3>2, <3>4 DEF ViewOf, LoginUnread, LoginAnswered
      <4>2. Head(inq[c]) = request[c] /\ Head(inq[c]).type = "LOGIN" /\ inq'[c] = <<>>
        BY <1>5, <4>1 DEF GetsAnswer, LoggingIn
      <4>3. PICK m \in Reply :
              /\ m.type = "GENERAL"
              /\ m.status = "SUCCESS" => sessionState'[c] = "STATE_LOGEDON"
              /\ Hears(c, TypeReplies(Head(inq[c])) \o <<m>>)
        BY <1>5, <3>4 DEF GetsAnswer, StateAnswered
      <4>4. outq'[c] = <<m>>
        <5>1. TypeReplies(Head(inq[c])) = <<>> /\ <<m>> \in Seq(Reply)
          BY <4>2, OneMessage DEF TypeReplies
        <5> QED
          BY <2>1, <4>1, <4>3, <5>1, ConcatEmptySeq DEF Hears
      <4>5. outq'[c] # <<>> /\ Head(outq'[c]) = m
        BY <4>4
      <4>6. LoginAnswered(c)'
        BY <4>2, <4>3, <4>5 DEF LoginAnswered
      <4> QED
        BY <3>1, <3>2, <4>1, <4>6 DEF ViewOf, LoggingIn
    <3> QED
      BY <3>3, <3>4
  <2> QED
    BY <1>0, <1>1, <1>5, <2>1 DEF GetsAnswer, ViewFor, Attached, ServerGone
<1>6. CASE GetsNotice(c)
  <2>1. ASSUME Connected(c)
        PROVE  ViewOf(c)'
    <3>1. /\ ViewOf(c) /\ InServer(c)' /\ inq'[c] = inq[c]
          /\ sessionState[c] = "STATE_LOGEDON" /\ sessionState'[c] = "STATE_LOGEDON"
      BY <1>6, <2>1 DEF GetsNotice, ViewFor, Attached, ServerGone
    <3>2. cpc[c] \notin {"welcome", "login"}
      BY <1>6, <3>1 DEF ViewOf, BeforeLogin, GetsNotice
    <3>3. CASE LoggingIn(c)
      <4>1. LoginAnswered(c)
        BY <3>1, <3>2, <3>3 DEF ViewOf, LoginUnread
      <4>2. PICK m \in Reply : outq'[c] = outq[c] \o <<m>>
        BY <1>6, <2>1 DEF GetsNotice, Hears
      <4>3. outq'[c] # <<>> /\ Head(outq'[c]) = Head(outq[c])
        BY <1>0, <4>1, <4>2, OneMessage, HeadStays DEF LoginAnswered
      <4> QED
        BY <3>1, <3>2, <3>3, <4>1, <4>3 DEF ViewOf, LoginAnswered, LoggingIn
    <3>4. CASE ~LoggingIn(c)
      BY <3>1, <3>2, <3>4 DEF ViewOf, LoggingIn
    <3> QED
      BY <3>3, <3>4
  <2> QED
    BY <1>0, <1>1, <1>6, <2>1 DEF GetsNotice, ViewFor, Attached, ServerGone
<1> QED
  BY <1>2, <1>3, <1>4, <1>5, <1>6, ServerStepOn DEF ServerInv
(* The client's own steps.                                                 *)
LEMMA ViewAfterClient ==
  ASSUME IInv, ClientTypeOK, NEW c \in Conn, SystemStep(c), ViewFor(c)
  PROVE  ViewFor(c)'
<1>0. /\ cpc \in [Conn -> ClientPlaces] /\ request \in [Conn -> ClientRequests \union {BadLine}]
      /\ inq \in [Conn -> Seq(Request)] /\ outq \in [Conn -> Seq(Reply)]
      /\ peer \in [Conn -> {"idle", "connected", "closed"}]
      /\ backlog \in Seq(Conn)
  BY DEF ClientTypeOK, ClientPlaces, IInv, TypeOK, NetTypeOK
<1> DEFINE Keeps == /\ UNCHANGED <<inq[c], sessionState[c]>>
                    /\ InServer(c)' <=> InServer(c)
                    /\ InBacklog(c)' <=> InBacklog(c)
<1>1. CASE Exit(c)
  <2>1. /\ cpc'[c] = "off" /\ ~Connected(c)' /\ outq'[c] = <<>>
    BY <1>0, <1>1 DEF Exit, Goto, Disconnect, Connected
  <2>2. Keeps
    BY <1>1, SessionsSame, BacklogSame DEF Exit, Disconnect, sessionVars
  <2> QED
    BY <2>1, <2>2 DEF ViewFor, Attached, ServerGone
<1>2. CASE StartClient(c)
  <2>1. /\ cpc[c] = "off" /\ peer' = [peer EXCEPT ![c] = "connected"] /\ cpc'[c] = "welcome"
        /\ ~InServer(c) /\ ~InBacklog(c) /\ backlog' = Append(backlog, c)
        /\ UNCHANGED <<m_sessions, inq, outq>>
    BY <1>0, <1>2 DEF StartClient, Connect, Goto, sessionVars
  <2>2. inq[c] = <<>> /\ outq[c] = <<>> /\ ~InServer(c)' /\ Connected(c)'
    BY <1>0, <2>1, SessionsSame DEF ViewFor, ServerGone, Connected
  <2>3. InBacklog(c)'
    <3>1. /\ Len(backlog) \in Nat /\ DOMAIN backlog' = 1..(Len(backlog) + 1)
          /\ backlog'[Len(backlog) + 1] = c
      BY <1>0, <2>1, AppendProperties, LenProperties
    <3>2. Len(backlog) + 1 \in DOMAIN backlog'
      BY <3>1
    <3> QED
      BY <3>1, <3>2 DEF InBacklog
  <2> QED
    BY <2>1, <2>2, <2>3 DEF ViewFor, ServerGone, ViewOf, BeforeLogin
<1>3. CASE TakesWelcome(c)
  <2>1. /\ cpc[c] = "welcome" /\ cpc'[c] = "login" /\ outq[c] # <<>>
        /\ outq'[c] = Tail(outq[c]) /\ Connected(c) /\ Connected(c)'
    BY <1>0, <1>3 DEF TakesWelcome, Receive, Goto, Connected
  <2>2. Keeps
    BY <1>3, SessionsSame, BacklogSame DEF TakesWelcome, Receive, sessionVars
  <2>3. ASSUME Attached(c)
        PROVE  ViewOf(c)'
    <3>1. BeforeLogin(c)
      BY <2>1, <2>3 DEF ViewFor, ViewOf
    <3>2. InServer(c) /\ outq[c] = <<Welcome>>
      BY <2>1, <3>1 DEF BeforeLogin
    <3>3. outq'[c] = <<>>
      BY <2>1, <3>2
    <3> QED
      BY <2>1, <2>2, <3>1, <3>2, <3>3 DEF ViewOf, BeforeLogin
  <2> QED
    BY <2>1, <2>2, <2>3 DEF ViewFor, Attached, ServerGone
<1>4. CASE Submits(c)
  <2>1. PICK r \in ClientRequests :
          /\ \/ cpc[c] = "login" /\ r.type = "LOGIN"
             \/ cpc[c] \in Idling /\ r.type # "LOGIN"
          /\ SendCommand(c, r)
    BY <1>4 DEF Submits
  <2>2. /\ cpc'[c] = IF r.type = "QUIT" THEN "quit" ELSE "await"
        /\ request'[c] = r /\ inq'[c] = Append(inq[c], r)
        /\ UNCHANGED <<outq[c], sessionState[c]>> /\ Attached(c)
        /\ Connected(c)'
    BY <1>0, <2>1 DEF SendCommand, Send, Goto, Attached, ServerGone, Connected, sessionVars
  <2>3. (InServer(c)' <=> InServer(c)) /\ (InBacklog(c)' <=> InBacklog(c))
    BY <2>1, SessionsSame, BacklogSame DEF SendCommand, Send, sessionVars
  <2>4. ViewOf(c)
    BY <2>2 DEF ViewFor
  <2>5. CASE cpc[c] = "login" /\ r.type = "LOGIN"
    <3>1. BeforeLogin(c) /\ InServer(c) /\ outq[c] = <<>> /\ inq[c] = <<>>
      BY <2>4, <2>5 DEF ViewOf, BeforeLogin
    <3>2. inq'[c] = <<r>>
      BY <2>2, <3>1
    <3>3. LoginUnread(c)' /\ LoggingIn(c)' /\ cpc'[c] = "await"
      BY <2>2, <2>5, <3>1, <3>2 DEF BeforeLogin, LoginUnread, LoggingIn
    <3> QED
      BY <2>2, <2>3, <2>5, <3>1, <3>3 DEF ViewFor, ServerGone, ViewOf
  <2>6. CASE cpc[c] \in Idling /\ r.type # "LOGIN"
    <3>1. InServer(c) /\ sessionState[c] = "STATE_LOGEDON"
      BY <2>4, <2>6 DEF ViewOf, Idling, LoggingIn
    <3> QED
      BY <2>2, <2>3, <2>6, <3>1 DEF ViewFor, ServerGone, ViewOf, LoggingIn
  <2> QED
    BY <2>1, <2>5, <2>6
<1>5. CASE Wanders(c)
  <2>1. /\ cpc[c] \in Idling /\ cpc'[c] \in Idling
        /\ UNCHANGED <<inq[c], outq[c], peer[c], sessionState[c], m_sessions, backlog>>
    BY <1>0, <1>5 DEF Wanders, Goto, vars, netVars, sessionVars
  <2>2. (InServer(c)' <=> InServer(c)) /\ (InBacklog(c)' <=> InBacklog(c))
    BY <2>1, SessionsSame, BacklogSame
  <2> QED
    BY <2>1, <2>2 DEF ViewFor, Attached, ServerGone, Connected, ViewOf, LoggingIn, Idling
<1>6. CASE TakesUnasked(c) \/ TakesAnswer(c)
  <2>1. /\ cpc[c] \in {"server", "await"} /\ cpc'[c] = "select"
        /\ outq[c] # <<>> /\ Connected(c) /\ Connected(c)'
    BY <1>0, <1>6 DEF TakesUnasked, TakesAnswer, Receive, Goto, Connected
  <2>2. Keeps
    BY <1>6, SessionsSame, BacklogSame DEF TakesUnasked, TakesAnswer, Receive, sessionVars
  <2>3. ASSUME Attached(c)
        PROVE  InServer(c) /\ sessionState[c] = "STATE_LOGEDON"
    <3>1. ViewOf(c)
      BY <2>3 DEF ViewFor
    <3>2. CASE LoggingIn(c)
      <4>1. LoginAnswered(c)
        BY <2>1, <3>1, <3>2 DEF ViewOf, LoginUnread
      <4>2. Head(outq[c]).status = "SUCCESS"
        BY <1>6, <3>2, <4>1
        DEF LoggingIn, TakesUnasked, TakesAnswer, GoesOnAnswered, LoginAnswered
      <4> QED
        BY <2>1, <3>1, <4>1, <4>2 DEF ViewOf, LoginAnswered
    <3>3. CASE ~LoggingIn(c)
      BY <2>1, <3>1, <3>3 DEF ViewOf
    <3> QED
      BY <3>2, <3>3
  <2> QED
    BY <2>1, <2>2, <2>3 DEF ViewFor, Attached, ServerGone, ViewOf, LoggingIn
<1>7. CASE Waits
  <2>1. UNCHANGED <<cpc, request, inq, outq, peer, sessionState, m_sessions, backlog>>
    BY <1>7 DEF Waits, vars, netVars, sessionVars
  <2>2. Undisturbed(c)
    BY <2>1, SessionsSame, BacklogSame DEF Undisturbed
  <2> QED
    BY <2>2, ViewUndisturbed
<1> QED
  BY <1>1, <1>2, <1>3, <1>4, <1>5, <1>6, <1>7, ClientStepOn

LEMMA ViewStep ==
  ASSUME ServerInv, ClientTypeOK, ClientView, [SystemNext]_systemVars
  PROVE  ClientView'
<1> SUFFICES ASSUME NEW d \in Conn
             PROVE  ViewFor(d)'
  BY DEF ClientView
<1>0. ViewFor(d) /\ IInv /\ TypeOK
  BY DEF ClientView, ServerInv, IInv
<1>1. CASE ServerStep /\ UNCHANGED clientVars
  BY <1>0, <1>1, ServerLeavesClients, ViewAfterServer
<1>2. ASSUME NEW c \in Conn, SystemStep(c)
      PROVE  ViewFor(d)'
  <2>1. CASE c = d
    BY <1>0, <1>2, <2>1, ViewAfterClient
  <2>2. CASE c # d
    BY <1>0, <1>2, <2>2, ClientStepElsewhere, ViewUndisturbed
  <2> QED
    BY <2>1, <2>2
<1>3. CASE (Terminated /\ UNCHANGED clientVars) \/ UNCHANGED systemVars
  <2>1. UNCHANGED <<cpc, request, inq, outq, peer, sessionState, m_sessions, backlog>>
    BY <1>3 DEF Terminated, systemVars, clientVars, vars, netVars, sessionVars
  <2>2. Undisturbed(d)
    BY <2>1, SessionsSame, BacklogSame DEF Undisturbed
  <2> QED
    BY <1>0, <2>2, ViewUndisturbed
<1> QED
  BY <1>1, <1>2, <1>3 DEF SystemNext

LEMMA SystemInvariance == SystemSpec => [](ServerInv /\ ClientTypeOK /\ ClientView)
<1>1. SystemInit => ClientView
  <2>1. ASSUME SystemInit, NEW c \in Conn
        PROVE  ViewFor(c)
    BY <2>1
    DEF SystemInit, Init, ClientInit, ViewFor, Attached, ServerGone, Connected
  <2> QED
    BY <2>1 DEF ClientView
<1>2. ServerInv /\ ClientTypeOK /\ ClientView /\ [SystemNext]_systemVars => ClientView'
  BY ViewStep
<1>3. SystemSpec => []ServerInv
  BY SystemImplementsServer, ServerInvariance, PTL DEF ServerSpec
<1> QED
  BY <1>1, <1>2, <1>3, ClientTypeCorrect, PTL DEF SystemSpec

(* A client that has been told that it is logged in is (Client::start,     *)
(* commandLogin): the server's session stays logged in until the server    *)
(* lets go of the connection, whatever other clients do.                   *)
THEOREM ClientsAreLoggedIn == SystemSpec => []ClientLoggedIn
<1>1. ASSUME ClientView, ClientTypeOK
      PROVE  ClientLoggedIn
  <2> SUFFICES ASSUME NEW c \in Conn,
                      \/ cpc[c] \in Idling
                      \/ cpc[c] \in {"await", "quit"} /\ request[c].type # "LOGIN",
                      ~ServerGone(c)
               PROVE  sessionState[c] = "STATE_LOGEDON"
    BY DEF ClientLoggedIn, Idling
  <2>1. ViewOf(c) /\ cpc[c] \notin {"welcome", "login", "off"}
    BY <1>1 DEF ClientView, ViewFor, Attached, Idling
  <2>2. ~LoggingIn(c)
    BY DEF LoggingIn, Idling
  <2> QED
    BY <2>1, <2>2 DEF ViewOf
<1> QED
  BY <1>1, SystemInvariance, PTL
-----------------------------------------------------------------------------
(* A client does not wait in vain.                                         *)
LEMMA NoAnswerIsAChat ==
  ASSUME NEW r, NEW m \in Reply, m.type \in AnswerType(r)
  PROVE  m \notin Chat
<1>1. m.type # "FORWARD_CHAT_MESSAGE"
  BY DEF AnswerType
<1> QED
  BY <1>1 DEF Chat

(* Messages that arrive leave the answers that are there, and an answer    *)
(* among them is one more.                                                 *)
LEMMA AnswersGrow ==
  ASSUME NEW c \in Conn, outq[c] \in Seq(Reply), NEW msgs \in Seq(Reply),
         outq'[c] = outq[c] \o msgs,
         Answers(c) # {} \/ \E i \in DOMAIN msgs : msgs[i] \notin Chat
  PROVE  Answers(c)' # {}
<1>1. /\ Len(outq[c]) \in Nat /\ Len(msgs) \in Nat
      /\ DOMAIN outq[c] = 1..Len(outq[c]) /\ DOMAIN msgs = 1..Len(msgs)
  BY LenProperties
<1>2. /\ DOMAIN outq'[c] = 1..(Len(outq[c]) + Len(msgs))
      /\ \A i \in 1..(Len(outq[c]) + Len(msgs)) :
           outq'[c][i] = IF i <= Len(outq[c]) THEN outq[c][i]
                         ELSE msgs[i - Len(outq[c])]
  <2>1. PICK s : s = outq[c] \o msgs
    OBVIOUS
  <2>2. /\ s \in Seq(Reply) /\ Len(s) = Len(outq[c]) + Len(msgs)
        /\ \A i \in 1..(Len(outq[c]) + Len(msgs)) :
             s[i] = IF i <= Len(outq[c]) THEN outq[c][i] ELSE msgs[i - Len(outq[c])]
    BY <1>1, <2>1, ConcatProperties
  <2>3. outq'[c] = s /\ DOMAIN s = 1..(Len(outq[c]) + Len(msgs))
    BY <2>1, <2>2, LenProperties
  <2> QED
    BY <2>2, <2>3
<1>3. \A i \in DOMAIN outq[c] : i \in DOMAIN outq'[c] /\ outq'[c][i] = outq[c][i]
  BY <1>1, <1>2
<1>4. ASSUME NEW i \in DOMAIN msgs
      PROVE  \E j \in DOMAIN outq'[c] : outq'[c][j] = msgs[i]
  <2>1. /\ Len(outq[c]) + i \in 1..(Len(outq[c]) + Len(msgs))
        /\ ~(Len(outq[c]) + i <= Len(outq[c])) /\ (Len(outq[c]) + i) - Len(outq[c]) = i
    BY <1>1
  <2> QED
    BY <1>2, <2>1
<1>5. \A j : j \in DOMAIN outq'[c] /\ outq'[c][j] \notin Chat => j \in Answers(c)'
  BY DEF Answers
<1>6. \A i : i \in Answers(c) => i \in DOMAIN outq[c] /\ outq[c][i] \notin Chat
  BY DEF Answers
<1> QED
  BY <1>3, <1>4, <1>5, <1>6

LEMMA LastOfTail ==
  ASSUME NEW s \in Seq(Request), s # <<>>, Tail(s) # <<>>
  PROVE  Last(Tail(s)) = Last(s)
<1>1. Len(s) \in Nat \ {0} /\ Tail(s) \in Seq(Request)
  BY EmptySeq, LenProperties, HeadTailProperties
<1>2. Len(Tail(s)) \in Nat \ {0}
  BY <1>1, EmptySeq, LenProperties
<1>3. /\ Len(Tail(s)) = Len(s) - 1
      /\ \A i \in 1..Len(Tail(s)) : Tail(s)[i] = s[i + 1]
  BY HeadTailProperties
<1> QED
  BY <1>1, <1>2, <1>3 DEF Last

(* An inbox that has outgrown its listing stays so until its session asks  *)
(* for something else, or the session ends.                                *)
LEMMA OutgrownInboxKept ==
  ASSUME ServerInv, ServerStep, NEW c \in Conn, inq[c] = <<>>, Outgrown(c)
  PROVE  m_inbox'[c] = m_inbox[c] \/ ServerGone(c)'
<1>0. IInv /\ TypeOK /\ m_inbox[c] # NoInbox /\ IInv' /\ DescriptorsOwned'
  BY StepInv, OwnedStep DEF ServerInv, IInv, Outgrown, Next
<1>1. InServer(c) /\ sessionState[c] = "STATE_LOGEDON"
  <2>1. m_session[m_inbox[c]] = c /\ m_inbox[c] \in InboxId /\ c # NoSession
    BY <1>0, SessionAssumption
    DEF IInv, SessionInboxAgree, InboxPointsBack, TypeOK, SessionTypeOK
  <2> QED
    BY <1>0, <2>1
    DEF IInv, SessionInboxAgree, LoggedInHasInbox, NoDanglingPointers, SessionsLive
<1>2. ~InBacklog(c)
  BY <1>0, <1>1 DEF IInv, BacklogWaits, InBacklog
<1>3. CASE LetGo(c)
  BY <1>3 DEF LetGo
<1>4. CASE sessionState'[c] = "STATE_LOGEDON"
  <2>1. m_inbox'[c] # NoInbox
    BY <1>0, <1>4 DEF IInv, SessionInboxAgree, LoggedInHasInbox
  <2>2. m_inbox'[c] \in {m_inbox[c], NoInbox} \/ LetGo(c)
    <3>1. ASSUME NEW d \in Conn, CloseSession(d)
          PROVE  m_inbox'[c] \in {m_inbox[c], NoInbox}
      BY <1>0, <3>1 DEF CloseSession, TypeOK, SessionTypeOK
    <3>2. ASSUME NEW d \in Conn, SessionStep(d)
          PROVE  m_inbox'[c] \in {m_inbox[c], NoInbox} \/ LetGo(c)
      <4>1. CASE d = c
        BY <1>0, <3>2, <4>1, SessionStepServes DEF GetsAnswer
      <4>2. CASE d # c /\ ~ProcessEnds
        <5>1. m_inbox' = m_inbox \/ \E k : m_inbox' = [m_inbox EXCEPT ![d] = k]
          BY <3>2, <4>2
          DEF SessionStep, SessionFailure, SessionLogin, InvalidRequest, ShowInbox,
              GetMail, DeleteMail, Compose, Quit, ShowOnlineUsers, ChatUnknownUser,
              ChatTooLong, ChatOnline, ChatOffline, RecvUndefined, AnswerOnly, Answer,
              CloseSession, sessionVars
        <5> QED
          BY <1>0, <4>2, <5>1 DEF TypeOK, SessionTypeOK
      <4>3. CASE ProcessEnds
        BY <4>3, EndsLetGo
      <4> QED
        BY <4>1, <4>2, <4>3
    <3>3. CASE DestroySession
      <4>1. Last(m_sessions) \in Conn
        BY <1>0, <3>3, PopTakesOut, SessionList DEF DestroySession
      <4> QED
        BY <3>1, <3>3, <4>1 DEF DestroySession
    <3>4. CASE ProcessExit
      BY <3>4, EndsLetGo DEF ProcessExit
    <3>5. CASE Accept
      BY <1>0, <3>5 DEF Accept, TypeOK, SessionTypeOK
    <3>6. CASE \/ LoadUsersFromFile \/ Start \/ MainReturns \/ Select \/ NoNewConnection
               \/ AcceptFails \/ ScanSkip \/ ScanEnd \/ ForwardChat \/ ForwardFails
               \/ DestroyInboxes
      BY <3>6
      DEF LoadUsersFromFile, Start, MainReturns, Select, NoNewConnection, AcceptFails,
          ScanSkip, ScanEnd, ForwardChat, ForwardFails, ForwardDone, DestroyInboxes,
          sessionVars
    <3> QED
      BY <3>2, <3>3, <3>4, <3>5, <3>6 DEF ServerStep
  <2> QED
    BY <2>1, <2>2 DEF LetGo
<1> QED
  BY <1>1, <1>2, <1>3, <1>4, ServerStepOn
  DEF ServerInv, Unheard, GetsWelcome, GetsAnswer, GetsNotice

LEMMA OutgrownStays ==
  ASSUME ServerInv, ServerStep, NEW c \in Conn, inq[c] = <<>>, Outgrown(c)
  PROVE  Outgrown(c)' \/ ServerGone(c)'
<1> SUFFICES ASSUME ~ServerGone(c)'
             PROVE  Outgrown(c)'
  OBVIOUS
<1> DEFINE k == m_inbox[c]
<1>0. IInv /\ TypeOK /\ IInv' /\ TypeOK' /\ [Next]_vars
  BY StepInv DEF ServerInv, IInv, Next
<1>1. /\ m_inbox'[c] = k /\ k # NoInbox /\ k \in InboxId
      /\ Len(m_mails[k]) > ShowInboxLimit
  BY <1>0, OutgrownInboxKept DEF Outgrown, TypeOK, SessionTypeOK
<1>2. /\ m_mails[k] \in Seq(Mail) /\ m_mails'[k] \in Seq(Mail)
      /\ m_idOfLastMail[k] \in Nat /\ ShowInboxLimit \in Nat
  BY <1>0, <1>1, BoundAssumption DEF TypeOK, InboxTypeOK
<1>3. /\ Len(m_mails[k]) \in Nat /\ Len(m_mails'[k]) \in Nat
      /\ DOMAIN m_mails'[k] = 1..Len(m_mails'[k])
  BY <1>2, LenProperties
<1>4. m_session[k] = c /\ k \in m_all_inbox'
  BY <1>0, <1>1
  DEF IInv, SessionInboxAgree, InboxPointsBack, NoDanglingPointers, InboxesLive
<1>5. Len(m_mails'[k]) >= Len(m_mails[k])
  <2>1. CASE InboxSame(k)
    BY <1>3, <2>1 DEF InboxSame
  <2>2. CASE InboxGrows(k)
    <3>1. PICK n \in Nat : DOMAIN m_mails'[k] = 1..(Len(m_mails[k]) + n)
      <4>1. PICK n \in Nat, to \in Seq(Name), from \in Name,
                 subject \in Text \union {OfflineSubject}, body \in Text :
              m_mails'[k] = Grown(m_mails[k], m_idOfLastMail[k], n, to, from, subject, body)
        BY <2>2 DEF InboxGrows
      <4>2. IsGrown(m_mails[k], m_idOfLastMail[k], n, m_mails'[k])
        BY <1>2, <4>1, GrownInbox
      <4> QED
        BY <4>2 DEF IsGrown
    <3>2. Len(m_mails[k]) \in DOMAIN m_mails'[k]
      BY <1>1, <1>2, <1>3, <3>1
    <3> QED
      BY <1>3, <3>2
  <2>3. CASE InboxEnds(k)
    BY <1>4, <2>3 DEF InboxEnds
  <2>4. ASSUME NEW d \in Conn, Deletes(d, k)
        PROVE  FALSE
    <3>1. m_inbox[d] = k /\ inq[d] # <<>>
      BY <2>4 DEF Deletes
    <3>2. d = c
      BY <1>0, <1>1, <1>4, <3>1 DEF IInv, SessionInboxAgree, InboxPointsBack
    <3> QED
      BY <3>1, <3>2
  <2> QED
    BY <1>0, <1>1, <2>1, <2>2, <2>3, <2>4, MailSteps DEF InboxStep
<1> QED
  BY <1>1, <1>2, <1>3, <1>5 DEF Outgrown

Awaited(c) ==
    cpc[c] = "await" =>
      \/ inq[c] # <<>> /\ Last(inq[c]) = request[c]
      \/ Answers(c) # {}
      \/ ServerGone(c)
      \/ inq[c] = <<>> /\ Oversize(c)

LEMMA AwaitedAfterServer ==
  ASSUME ServerInv, ServerStep, NEW c \in Conn,
         UNCHANGED <<cpc, request>>, ViewFor(c), Awaited(c)
  PROVE  Awaited(c)'
<1> SUFFICES ASSUME cpc[c] = "await"
             PROVE  Awaited(c)'
  BY DEF Awaited
<1>0. /\ IInv /\ Connected(c) /\ outq[c] \in Seq(Reply) /\ inq[c] \in Seq(Request)
      /\ request' = request
  BY DEF ServerInv, ViewFor, IInv, TypeOK, NetTypeOK
<1>1. ASSUME UNCHANGED inq[c], ServerGone(c) => ServerGone(c)',
             Answers(c) # {} => Answers(c)' # {}
      PROVE  Awaited(c)'
  <2>1. CASE inq[c] = <<>> /\ Oversize(c)
    BY <1>0, <1>1, <2>1, OutgrownStays DEF Awaited, Oversize, Outgrown
  <2> QED
    BY <1>0, <1>1, <2>1 DEF Awaited
<1>2. CASE Unheard(c)
  BY <1>1, <1>2 DEF Unheard, Answers, ServerGone
<1>3. CASE LetGo(c)
  BY <1>3 DEF LetGo, Awaited
<1>4. CASE GetsWelcome(c)
  <2>1. ~InServer(c) /\ ~ServerGone(c)
    BY <1>0, <1>4 DEF GetsWelcome, IInv, BacklogWaits, InBacklog, ServerGone
  <2> QED
    BY <1>0, <2>1 DEF ViewFor, Attached, ViewOf
<1>5. ASSUME NEW msgs \in Seq(Reply), outq'[c] = outq[c] \o msgs,
             \E i \in DOMAIN msgs : msgs[i] \notin Chat
      PROVE  Answers(c)' # {}
  BY <1>0, <1>5, AnswersGrow
<1>6. CASE GetsAnswer(c)
  <2> DEFINE r == Head(inq[c])
  <2>1. PICK m \in Reply :
          /\ m.type \in AnswerType(r)
          /\ \/ outq'[c] = outq[c] \o (TypeReplies(r) \o <<m>>)
             \/ r.type = "SHOW_INBOX" /\ Outgrown(c)' /\ outq'[c] = outq[c]
    BY <1>0, <1>6 DEF GetsAnswer, Hears
  <2>2. CASE outq'[c] = outq[c] \o (TypeReplies(r) \o <<m>>)
    <3>0. m \notin Chat
      BY <2>1, NoAnswerIsAChat
    <3>1. TypeReplies(r) \in Seq(Reply) /\ <<m>> \in Seq(Reply) /\ Len(<<m>>) = 1
      BY TypeRepliesType, OneMessage
    <3>2. PICK s : s = TypeReplies(r) \o <<m>>
      OBVIOUS
    <3>3. s = Append(TypeReplies(r), m)
      BY <3>1, <3>2, AppendIsConcat
    <3>4. /\ s \in Seq(Reply) /\ Len(s) = Len(TypeReplies(r)) + 1
          /\ s[Len(TypeReplies(r)) + 1] = m
      BY <3>1, <3>3, AppendProperties
    <3>5. Len(s) \in DOMAIN s
      BY <3>1, <3>4, LenProperties
    <3>6. Answers(c)' # {}
      BY <1>5, <2>2, <3>0, <3>2, <3>4, <3>5
    <3> QED
      BY <3>6 DEF Awaited
  <2>3. CASE r.type = "SHOW_INBOX" /\ Outgrown(c)' /\ outq'[c] = outq[c]
    <3>1. inq[c] # <<>> /\ inq'[c] = Tail(inq[c]) /\ InServer(c)
      BY <1>6 DEF GetsAnswer
    <3>2. CASE Answers(c) # {}
      BY <2>3, <3>2 DEF Awaited, Answers
    <3>3. CASE Answers(c) = {}
      <4>1. Last(inq[c]) = request[c]
        BY <3>1, <3>3 DEF Awaited, ServerGone
      <4>2. CASE Tail(inq[c]) = <<>>
        <5>1. request[c] = r
          <6>1. Len(inq[c]) \in Nat /\ Head(inq[c]) = inq[c][1]
            BY <1>0, <3>1, HeadTailProperties, LenProperties
          <6>2. Len(Tail(inq[c])) = Len(inq[c]) - 1 /\ Len(Tail(inq[c])) = 0
            BY <1>0, <3>1, <4>2, HeadTailProperties
          <6>3. Len(inq[c]) = 1
            BY <6>1, <6>2
          <6> QED
            BY <4>1, <6>1, <6>3 DEF Last
        <5> QED
          BY <1>0, <2>3, <3>1, <4>2, <5>1 DEF Awaited, Oversize, Outgrown
      <4>3. CASE Tail(inq[c]) # <<>>
        <5>1. Last(Tail(inq[c])) = Last(inq[c])
          BY <1>0, <3>1, <4>3, LastOfTail
        <5> QED
          BY <1>0, <3>1, <4>1, <4>3, <5>1 DEF Awaited
      <4> QED
        BY <4>2, <4>3
    <3> QED
      BY <3>2, <3>3
  <2> QED
    BY <2>1, <2>2, <2>3
<1>7. CASE GetsNotice(c)
  <2>1. PICK m \in Reply : outq'[c] = outq[c] \o <<m>>
    BY <1>0, <1>7 DEF GetsNotice, Hears
  <2>2. inq'[c] = inq[c] /\ (ServerGone(c) => ServerGone(c)')
    BY <1>7 DEF GetsNotice, ServerGone
  <2>3. Answers(c) # {} => Answers(c)' # {}
    BY <1>0, <2>1, OneMessage, AnswersGrow
  <2> QED
    BY <1>1, <2>2, <2>3
<1> QED
  BY <1>2, <1>3, <1>4, <1>6, <1>7, ServerStepOn DEF ServerInv

LEMMA AwaitedAfterClient ==
  ASSUME IInv, ClientTypeOK, NEW c \in Conn, SystemStep(c), Awaited(c)
  PROVE  Awaited(c)'
<1>0. /\ cpc \in [Conn -> ClientPlaces] /\ inq \in [Conn -> Seq(Request)]
      /\ request \in [Conn -> ClientRequests \union {BadLine}]
  BY DEF ClientTypeOK, ClientPlaces, IInv, TypeOK, NetTypeOK
<1>1. CASE Exit(c) \/ StartClient(c) \/ TakesWelcome(c) \/ Wanders(c)
           \/ TakesUnasked(c) \/ TakesAnswer(c)
  <2>1. cpc'[c] # "await"
    BY <1>0, <1>1
    DEF Exit, StartClient, TakesWelcome, Wanders, TakesUnasked, TakesAnswer, Goto, Idling
  <2> QED
    BY <2>1 DEF Awaited
<1>2. CASE Submits(c)
  <2>1. PICK r \in Request : inq'[c] = Append(inq[c], r) /\ request'[c] = r
    BY <1>0, <1>2, RequestAssumption DEF Submits, SendCommand, Send
  <2>2. /\ Len(Append(inq[c], r)) = Len(inq[c]) + 1 /\ Len(inq[c]) \in Nat
        /\ Append(inq[c], r)[Len(inq[c]) + 1] = r
    BY <1>0, AppendProperties, LenProperties
  <2>3. Append(inq[c], r) # <<>> /\ Last(Append(inq[c], r)) = r
    BY <2>2 DEF Last
  <2> QED
    BY <2>1, <2>3 DEF Awaited
<1>3. CASE Waits
  <2>1. UNCHANGED <<cpc, request, inq, outq, m_sessions, backlog, m_inbox, m_mails>>
    BY <1>3 DEF Waits, vars, netVars, sessionVars, inboxVars
  <2> QED
    BY <2>1, SessionsSame, BacklogSame DEF Awaited, Answers, ServerGone, Oversize
<1> QED
  BY <1>1, <1>2, <1>3, ClientStepOn

LEMMA AwaitedUndisturbed ==
  ASSUME NEW c \in Conn, Awaited(c), Undisturbed(c), UNCHANGED <<m_inbox, m_mails>>
  PROVE  Awaited(c)'
BY DEF Awaited, Undisturbed, Answers, ServerGone, Oversize

LEMMA AnswerStep ==
  ASSUME ServerInv, ClientTypeOK, ClientView, AnswerOnTheWay,
         [SystemNext]_systemVars
  PROVE  AnswerOnTheWay'
<1> SUFFICES ASSUME NEW d \in Conn
             PROVE  Awaited(d)'
  BY DEF AnswerOnTheWay, Awaited
<1>0. Awaited(d) /\ ViewFor(d) /\ IInv /\ TypeOK
  BY DEF AnswerOnTheWay, Awaited, ClientView, ServerInv, IInv
<1>1. CASE ServerStep /\ UNCHANGED clientVars
  BY <1>0, <1>1, ServerLeavesClients, AwaitedAfterServer
<1>2. ASSUME NEW c \in Conn, SystemStep(c)
      PROVE  Awaited(d)'
  <2>1. CASE c = d
    BY <1>0, <1>2, <2>1, AwaitedAfterClient
  <2>2. CASE c # d
    <3>1. UNCHANGED <<m_inbox, m_mails>>
      BY <1>2, ClientStepOn
      DEF Exit, StartClient, TakesWelcome, Submits, SendCommand, Wanders, TakesUnasked,
          TakesAnswer, Waits, Connect, Send, Receive, Disconnect, vars, sessionVars,
          inboxVars
    <3> QED
      BY <1>0, <1>2, <2>2, <3>1, ClientStepElsewhere, AwaitedUndisturbed
  <2> QED
    BY <2>1, <2>2
<1>3. CASE (Terminated /\ UNCHANGED clientVars) \/ UNCHANGED systemVars
  <2>1. UNCHANGED <<cpc, request, inq, outq, peer, sessionState, m_sessions, backlog,
                    m_inbox, m_mails>>
    BY <1>3 DEF Terminated, systemVars, clientVars, vars, netVars, sessionVars, inboxVars
  <2>2. Undisturbed(d)
    BY <2>1, SessionsSame, BacklogSame DEF Undisturbed
  <2> QED
    BY <1>0, <2>1, <2>2, AwaitedUndisturbed
<1> QED
  BY <1>1, <1>2, <1>3 DEF SystemNext

(* A client that waits in recvMessage for an answer has its request as the *)
(* last one unread, an answer on its way, or a closed connection to        *)
(* notice, whatever chats arrive and however often it was answered before; *)
(* only a SHOW_INBOX whose listing has outgrown a message (showInboxMails  *)
(* ignores that it could not be sent) may wait in vain.                    *)
THEOREM AnswersAreOnTheWay == SystemSpec => []AnswerOnTheWay
<1>1. SystemInit => AnswerOnTheWay
  BY DEF SystemInit, ClientInit, AnswerOnTheWay
<1>2. ServerInv /\ ClientTypeOK /\ ClientView /\ AnswerOnTheWay
        /\ [SystemNext]_systemVars => AnswerOnTheWay'
  BY AnswerStep
<1> QED
  BY <1>1, <1>2, SystemInvariance, PTL DEF SystemSpec
-----------------------------------------------------------------------------
(* Requests and answers alternate, between clients that send no chats and  *)
(* no frames without a type (Client.cpp has no command that sends one; the *)
(* server answers it twice).                                               *)
PlainRequests == \A r \in ClientRequests : r.type \notin {"SEND_CHAT", "NO_TYPE"}

(* Then nobody ever has a chat to send on.                                 *)
NoChatAsked ==
    /\ forward = <<>>
    /\ \A c \in Conn : inq[c] \in Seq(ClientRequests)

LEMMA NoChatStep ==
  ASSUME PlainRequests, ServerInv, NoChatAsked, [Next]_vars
  PROVE  NoChatAsked'
<1>0. IInv /\ TypeOK /\ inq \in [Conn -> Seq(Request)]
  BY DEF ServerInv, IInv, TypeOK, NetTypeOK
<1>1. \A c \in Conn : ~ChatOnline(c)
  <2>1. ASSUME NEW c \in Conn, inq[c] # <<>>
        PROVE  Head(inq[c]) \in ClientRequests
    BY <2>1, HeadTailProperties DEF NoChatAsked
  <2> QED
    BY <2>1 DEF ChatOnline, HasRequest, PlainRequests
<1>2. forward' = <<>>
  <2>1. ASSUME NEW c \in Conn, SessionStep(c)
        PROVE  forward' = <<>>
    BY <1>1, <2>1
    DEF SessionStep, SessionFailure, SessionLogin, InvalidRequest, ShowInbox,
        GetMail, DeleteMail, Compose, Quit, ShowOnlineUsers, ChatUnknownUser,
        ChatTooLong, ChatOffline, RecvUndefined, ProcessEnds, AnswerOnly,
        Answer, NoChatAsked, serverVars
  <2>2. CASE ServerStep /\ ~ \E c \in Conn : SessionStep(c)
    BY <2>2
    DEF ServerStep, LoadUsersFromFile, Start, MainReturns, Select, NoNewConnection,
        Accept, AcceptFails, ScanSkip, ScanEnd, ForwardChat, ForwardFails,
        DestroySession, DestroyInboxes, ProcessExit, ProcessEnds, NoChatAsked,
        serverVars
  <2>3. CASE (\E c \in Conn : ClientStep(c)) \/ UNCHANGED vars
    BY <2>3
    DEF ClientStep, Connect, Send, FinishFrame, Receive, Disconnect, NoChatAsked,
        serverVars, vars
  <2> QED
    BY <2>1, <2>2, <2>3 DEF Next, Terminated
<1>3. ASSUME NEW d \in Conn
      PROVE  inq'[d] \in Seq(ClientRequests)
  <2>0. inq[d] \in Seq(ClientRequests)
    BY DEF NoChatAsked
  <2>1. CASE ServerStep
    <3>1. inq'[d] = inq[d] \/ inq'[d] = <<>> \/ (inq[d] # <<>> /\ inq'[d] = Tail(inq[d]))
      BY <2>1, ServerStepOn
      DEF ServerInv, Unheard, LetGo, GetsWelcome, GetsAnswer, GetsNotice
    <3>2. inq[d] # <<>> => Tail(inq[d]) \in Seq(ClientRequests)
      BY <2>0, HeadTailProperties
    <3>3. <<>> \in Seq(ClientRequests)
      OBVIOUS
    <3> QED
      BY <2>0, <3>1, <3>2, <3>3
  <2>2. ASSUME NEW c \in Conn, NEW r \in ClientRequests, Send(c, r)
        PROVE  inq'[d] \in Seq(ClientRequests)
    <3>1. inq'[d] = inq[d] \/ inq'[d] = Append(inq[d], r)
      BY <1>0, <2>2 DEF Send
    <3> QED
      BY <2>0, <3>1, AppendProperties
  <2>5. ASSUME NEW c \in Conn, NEW r \in ClientRequests, FinishFrame(c, r)
        PROVE  inq'[d] \in Seq(ClientRequests)
    <3>1. \/ inq'[d] = inq[d]
          \/ inq[d] # <<>> /\ inq'[d] = Append(Front(inq[d]), r)
      BY <1>0, <2>5 DEF FinishFrame, BegunOnly
    <3> QED
      BY <2>0, <3>1, FrontProperties, AppendProperties
  <2>3. CASE UNCHANGED inq
    BY <2>0, <2>3
  <2>4. (\E c \in Conn : Connect(c) \/ Receive(c) \/ Disconnect(c)) \/ UNCHANGED vars
          => UNCHANGED inq
    BY DEF Connect, Receive, Disconnect, vars, netVars
  <2> QED
    BY <2>1, <2>2, <2>3, <2>4, <2>5 DEF Next, ClientStep, Terminated
<1> QED
  BY <1>2, <1>3 DEF NoChatAsked

(* The dialogue of one client, with what its QUIT was.                     *)
OneAnswerDue(c) ==
    /\ inq[c] = <<>> /\ Len(outq[c]) = 1
    /\ outq[c][1].type \in AnswerType(request[c])
Unanswered(c) == inq[c] = <<request[c]>> /\ outq[c] = <<>>
Quiet(c) == inq[c] = <<>> /\ outq[c] = <<>>

DialogueOf(c) ==
    /\ cpc[c] = "await" => Unanswered(c) \/ OneAnswerDue(c)
    /\ cpc[c] = "quit" => Unanswered(c)
    /\ cpc[c] = "welcome" => inq[c] = <<>> /\ outq[c] \in {<<>>, <<Welcome>>}
    /\ cpc[c] \notin {"await", "quit", "welcome"} => Quiet(c)
DialogueFor(c) ==
    /\ cpc[c] = "quit" => request[c].type = "QUIT"
    /\ Attached(c) => DialogueOf(c)
Dialogue == \A c \in Conn : DialogueFor(c)

LEMMA DialogueIsLockstep == Dialogue => ClientInLockstep
BY DEF Dialogue, DialogueFor, DialogueOf, Attached, OneAnswerDue, Unanswered, Quiet,
       ClientInLockstep

LEMMA DialogueUndisturbed ==
  ASSUME NEW c \in Conn, DialogueFor(c), Undisturbed(c)
  PROVE  DialogueFor(c)'
BY DEF DialogueFor, DialogueOf, Undisturbed, Attached, ServerGone, Connected,
       OneAnswerDue, Unanswered, Quiet

LEMMA ListingFits ==
  ASSUME IInv, ListingsFit, NEW c \in Conn
  PROVE  ~Outgrown(c)
<1>1. ASSUME m_inbox[c] # NoInbox
      PROVE  ~(Len(m_mails[m_inbox[c]]) > ShowInboxLimit)
  <2>1. m_inbox[c] \in InboxId /\ m_mails[m_inbox[c]] \in Seq(Mail)
    BY <1>1 DEF IInv, TypeOK, SessionTypeOK, InboxTypeOK
  <2> QED
    BY <2>1, LenProperties, BoundAssumption DEF ListingsFit
<1> QED
  BY <1>1 DEF Outgrown

LEMMA DialogueAfterServer ==
  ASSUME PlainRequests, ServerInv, NoChatAsked, ServerStep, ListingsFit, NEW c \in Conn,
         UNCHANGED <<cpc, request>>, ViewFor(c), ViewFor(c)', DialogueFor(c)
  PROVE  DialogueFor(c)'
<1> SUFFICES ASSUME Attached(c)'
             PROVE  DialogueOf(c)'
  BY DEF DialogueFor
<1>0. IInv /\ Connected(c) /\ outq[c] \in Seq(Reply) /\ inq[c] \in Seq(ClientRequests)
  BY ServerKeepsPeers DEF ServerInv, Attached, IInv, TypeOK, NetTypeOK, NoChatAsked
<1>1. CASE Unheard(c)
  BY <1>0, <1>1
  DEF Unheard, DialogueFor, DialogueOf, Attached, ServerGone, OneAnswerDue, Unanswered,
      Quiet
<1>2. CASE LetGo(c)
  BY <1>2 DEF LetGo, Attached
<1>3. CASE GetsWelcome(c)
  <2>1. ~InServer(c) /\ ~ServerGone(c)
    BY <1>0, <1>3 DEF GetsWelcome, IInv, BacklogWaits, InBacklog, ServerGone
  <2>2. cpc[c] = "welcome"
    BY <1>0, <2>1 DEF ViewFor, Attached, ViewOf, BeforeLogin
  <2>3. BeforeLogin(c)' /\ InServer(c)'
    BY <1>3, <2>2 DEF ViewFor, ViewOf, GetsWelcome
  <2> QED
    BY <2>2, <2>3 DEF BeforeLogin, DialogueOf
<1>4. CASE GetsAnswer(c)
  <2> DEFINE r == Head(inq[c])
  <2>0. ~Outgrown(c)
    BY <1>0, ListingFits
  <2>1. InServer(c) /\ inq[c] # <<>> /\ inq'[c] = Tail(inq[c]) /\ DialogueOf(c)
    BY <1>0, <1>4 DEF GetsAnswer, DialogueFor, Attached, ServerGone
  <2>2. Unanswered(c) /\ cpc[c] \in {"await", "quit"}
    BY <2>1 DEF DialogueOf, OneAnswerDue, Quiet
  <2>3. r = request[c] /\ inq'[c] = <<>> /\ r \in ClientRequests
    BY <1>0, <2>1, <2>2, HeadTailProperties DEF Unanswered
  <2>4. cpc[c] = "await"
    <3>1. ASSUME cpc[c] = "quit"
          PROVE  FALSE
      <4>1. r.type = "QUIT"
        BY <2>3, <3>1 DEF DialogueFor
      <4>2. sessionState[c] = "STATE_LOGEDON"
        BY <1>0, <2>1, <3>1 DEF ViewFor, Attached, ServerGone, ViewOf, LoggingIn
      <4> QED
        BY <1>4, <4>1, <4>2 DEF GetsAnswer
    <3> QED
      BY <2>2, <3>1
  <2>5. PICK m \in Reply : /\ m.type \in AnswerType(r)
                           /\ outq'[c] = outq[c] \o (TypeReplies(r) \o <<m>>)
    BY <1>0, <1>4, <2>0 DEF GetsAnswer, Hears
  <2>6. outq'[c] = <<m>>
    <3>1. TypeReplies(r) = <<>> /\ <<m>> \in Seq(Reply)
      BY <2>3, OneMessage DEF TypeReplies, PlainRequests
    <3> QED
      BY <2>2, <2>5, <3>1, ConcatEmptySeq DEF Unanswered
  <2>7. Len(outq'[c]) = 1 /\ outq'[c][1] = m
    BY <2>6
  <2> HIDE DEF r
  <2> QED
    BY <2>3, <2>4, <2>5, <2>7 DEF DialogueOf, OneAnswerDue
<1>5. ~GetsNotice(c)
  BY DEF GetsNotice, NoChatAsked
<1> QED
  BY <1>1, <1>2, <1>3, <1>4, <1>5, ServerStepOn DEF ServerInv

LEMMA DialogueAfterClient ==
  ASSUME IInv, ClientTypeOK, NEW c \in Conn, SystemStep(c), ViewFor(c), ViewFor(c)',
         DialogueFor(c)
  PROVE  DialogueFor(c)'
<1>0. /\ cpc \in [Conn -> ClientPlaces] /\ request \in [Conn -> ClientRequests \union {BadLine}]
      /\ inq \in [Conn -> Seq(Request)] /\ outq \in [Conn -> Seq(Reply)]
      /\ peer \in [Conn -> {"idle", "connected", "closed"}]
  BY DEF ClientTypeOK, ClientPlaces, IInv, TypeOK, NetTypeOK
<1>1. CASE Exit(c)
  <2>1. cpc'[c] = "off" /\ ~Connected(c)'
    BY <1>0, <1>1 DEF Exit, Goto, Disconnect, Connected
  <2> QED
    BY <2>1 DEF DialogueFor, Attached
<1>2. CASE StartClient(c) \/ TakesWelcome(c)
  <2>1. cpc'[c] \in {"welcome", "login"}
    BY <1>0, <1>2 DEF StartClient, TakesWelcome, Goto
  <2>2. Attached(c)' => BeforeLogin(c)'
    BY <2>1 DEF ViewFor, ViewOf
  <2> QED
    BY <2>1, <2>2 DEF DialogueFor, DialogueOf, BeforeLogin, Quiet
<1>3. CASE Submits(c)
  <2>1. PICK r \in ClientRequests :
          /\ cpc[c] \in Idling \union {"login"}
          /\ SendCommand(c, r)
    BY <1>3 DEF Submits
  <2>2. /\ cpc'[c] = IF r.type = "QUIT" THEN "quit" ELSE "await"
        /\ request'[c] = r /\ inq'[c] = Append(inq[c], r)
        /\ outq'[c] = outq[c] /\ Attached(c)
    BY <1>0, <2>1 DEF SendCommand, Send, Goto, Attached, ServerGone
  <2>3. Quiet(c)
    BY <2>1, <2>2 DEF DialogueFor, DialogueOf, Idling
  <2>4. inq'[c] = <<r>>
    BY <2>2, <2>3 DEF Quiet
  <2>5. Unanswered(c)'
    BY <2>2, <2>3, <2>4 DEF Unanswered, Quiet
  <2> QED
    BY <2>2, <2>5 DEF DialogueFor, DialogueOf
<1>4. CASE Wanders(c)
  <2>1. /\ cpc[c] \in Idling /\ cpc'[c] \in Idling
        /\ UNCHANGED <<inq, outq, peer, m_sessions, backlog>>
    BY <1>0, <1>4 DEF Wanders, Goto, vars, netVars, sessionVars
  <2>2. Attached(c)' => Attached(c)
    BY <2>1, SessionsSame, BacklogSame DEF Attached, ServerGone, Connected
  <2> QED
    BY <2>1, <2>2 DEF DialogueFor, DialogueOf, Quiet, Idling
<1>5. CASE TakesUnasked(c) \/ TakesAnswer(c)
  <2>1. /\ cpc[c] \in {"server", "await"} /\ cpc'[c] = "select"
        /\ outq[c] # <<>> /\ outq'[c] = Tail(outq[c]) /\ inq' = inq
        /\ UNCHANGED <<peer, m_sessions, backlog>>
    BY <1>0, <1>5 DEF TakesUnasked, TakesAnswer, Receive, Goto, sessionVars
  <2>2. ASSUME Attached(c)'
        PROVE  Quiet(c)'
    <3>1. Attached(c)
      BY <2>1, <2>2, SessionsSame, BacklogSame DEF Attached, ServerGone, Connected
    <3>2. OneAnswerDue(c)
      BY <2>1, <3>1 DEF DialogueFor, DialogueOf, Quiet, Unanswered
    <3>3. Len(Tail(outq[c])) = 0 /\ Tail(outq[c]) \in Seq(Reply)
      <4>1. Len(Tail(outq[c])) = Len(outq[c]) - 1 /\ Tail(outq[c]) \in Seq(Reply)
        BY <1>0, <2>1, HeadTailProperties
      <4> QED
        BY <3>2, <4>1 DEF OneAnswerDue
    <3>4. Tail(outq[c]) = <<>>
      BY <3>3, EmptySeq
    <3> QED
      BY <2>1, <3>2, <3>4 DEF OneAnswerDue, Quiet
  <2> QED
    BY <2>1, <2>2 DEF DialogueFor, DialogueOf
<1>6. CASE Waits
  <2>1. UNCHANGED <<cpc, request, inq, outq, peer, sessionState, m_sessions, backlog>>
    BY <1>6 DEF Waits, vars, netVars, sessionVars
  <2>2. Undisturbed(c)
    BY <2>1, SessionsSame, BacklogSame DEF Undisturbed
  <2> QED
    BY <2>2, DialogueUndisturbed
<1> QED
  BY <1>1, <1>2, <1>3, <1>4, <1>5, <1>6, ClientStepOn

LEMMA DialogueStep ==
  ASSUME PlainRequests, ServerInv, NoChatAsked, ClientTypeOK, ClientView, ListingsFit,
         Dialogue, [SystemNext]_systemVars
  PROVE  Dialogue'
<1> SUFFICES ASSUME NEW d \in Conn
             PROVE  DialogueFor(d)'
  BY DEF Dialogue
<1>0. DialogueFor(d) /\ ViewFor(d) /\ ViewFor(d)' /\ IInv /\ TypeOK
  BY ViewStep DEF Dialogue, ClientView, ServerInv, IInv
<1>1. CASE ServerStep /\ UNCHANGED clientVars
  BY <1>0, <1>1, ServerLeavesClients, DialogueAfterServer
<1>2. ASSUME NEW c \in Conn, SystemStep(c)
      PROVE  DialogueFor(d)'
  <2>1. CASE c = d
    BY <1>0, <1>2, <2>1, DialogueAfterClient
  <2>2. CASE c # d
    BY <1>0, <1>2, <2>2, ClientStepElsewhere, DialogueUndisturbed
  <2> QED
    BY <2>1, <2>2
<1>3. CASE (Terminated /\ UNCHANGED clientVars) \/ UNCHANGED systemVars
  <2>1. UNCHANGED <<cpc, request, inq, outq, peer, sessionState, m_sessions, backlog>>
    BY <1>3 DEF Terminated, systemVars, clientVars, vars, netVars, sessionVars
  <2>2. Undisturbed(d)
    BY <2>1, SessionsSame, BacklogSame DEF Undisturbed
  <2> QED
    BY <1>0, <2>2, DialogueUndisturbed
<1> QED
  BY <1>1, <1>2, <1>3 DEF SystemNext

(* Between clients that do not chat, and while every listing fits into a   *)
(* message, the answer a client reads (sendCommand and the recvMessage     *)
(* after it) is always the one to the request it has just sent: never one  *)
(* left over from an earlier command, never of another command's type.     *)
THEOREM ClientsStayInLockstep ==
  ASSUME PlainRequests
  PROVE  SystemSpec /\ []ListingsFit => []ClientInLockstep
<1>1. Init => NoChatAsked
  BY DEF Init, NoChatAsked
<1>2. ServerInv /\ NoChatAsked /\ [Next]_vars => NoChatAsked'
  BY NoChatStep
<1>3. SystemSpec => []NoChatAsked
  BY <1>1, <1>2, SystemImplementsServer, ServerInvariance, PTL DEF ServerSpec, Spec
<1>4. SystemInit => Dialogue
  BY DEF SystemInit, Init, ClientInit, Dialogue, DialogueFor, Attached, Connected
<1>5. ServerInv /\ NoChatAsked /\ ClientTypeOK /\ ClientView /\ ListingsFit /\ Dialogue
        /\ [SystemNext]_systemVars => Dialogue'
  BY DialogueStep
<1> QED
  BY <1>3, <1>4, <1>5, SystemInvariance, DialogueIsLockstep, PTL DEF SystemSpec
=============================================================================
