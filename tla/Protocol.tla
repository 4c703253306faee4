------------------------------ MODULE Protocol ------------------------------
(***************************************************************************)
(* The messages of the mail protocol: CommandTypes and                     *)
(* GeneralRespondStatuses of Common.h, and the fields each request handler *)
(* of Server.cpp reads and each response writes.  A message is a record    *)
(* whose "type" names the command; its bytes are abstracted.  A request    *)
(* that does not parse is named by the read that fails in the server:      *)
(*                                                                         *)
(*   BAD_FRAME        recvMessage fails: a short or oversized frame        *)
(*   HALF_FRAME       a length field that arrived and nothing behind it    *)
(*   NO_TYPE          a frame too short to hold the type DWord             *)
(*   BAD_LOGIN        LOGIN_REQ one of whose two strings cannot be read    *)
(*   BAD_COMMAND      GET/DELETE_MAIL, COMPOSE or SEND_CHAT with a field   *)
(*                    that cannot be read                                  *)
(*   UNKNOWN          a type DWord no handler is registered for            *)
(***************************************************************************)
EXTENDS Naturals, Sequences

CONSTANTS Name,       \* user names that may appear in a message
          Password,   \* passwords that may appear in a message
          Text,       \* subjects, bodies and chat texts
          MailId      \* the mail ids a client may ask for

(* The subject sessionRequestSendChatMessage gives a chat stored as mail.  *)
OfflineSubject == "Message received offline"

Status ==
    {"SUCCESS", "UNKNOWN_USER", "WRONG_PASS", "NOT_LOGGED_IN",
     "UNKNOWN_MAIL_ID", "USER_ALREADY_LOGGEDON", "UNKNOWN_USER_CHAT",
     "INTERNAL_FAILURE", "UNVALID_MESSAGE", "SESSION_FAILURE"}

Mail == [m_id : Nat, m_to : Seq(Name), m_from : Name,
         m_subject : Text \union {OfflineSubject}, m_body : Text]

LoginReq   == [type : {"LOGIN"}, user : Name, pass : Password]
PlainReq   == [type : {"SHOW_INBOX", "SHOW_ONLINE_USERS", "QUIT", "UNKNOWN",
                       "NO_TYPE", "BAD_FRAME", "HALF_FRAME", "BAD_LOGIN",
                       "BAD_COMMAND"}]
HalfFrame  == [type |-> "HALF_FRAME"]
MailIdReq  == [type : {"GET_MAIL", "DELETE_MAIL"}, id : MailId]
ComposeReq == [type : {"COMPOSE"}, to : Seq(Name), subject : Text, body : Text]
ChatReq    == [type : {"SEND_CHAT"}, to : Name, text : Text]

Request == LoginReq \union PlainReq \union MailIdReq
             \union ComposeReq \union ChatReq

(* One line of the listing: fromMailToShowInboxRaw prints id, sender and   *)
(* subject.                                                                *)
Row == [m_id : Nat, m_from : Name, m_subject : Text \union {OfflineSubject}]

Welcome            == [type |-> "WELCOME"]
General(status)    == [type |-> "GENERAL", status |-> status]
ShowInboxRes(rows) == [type |-> "SHOW_INBOX_RES", rows |-> rows]
GetMailRes(mail)   == [type |-> "GET_MAIL_RES", mail |-> mail]
OnlineRes(users)   == [type |-> "SHOW_ONLINE_USERS_RES", users |-> users]
ChatMessage(from, text) ==
    [type |-> "FORWARD_CHAT_MESSAGE", from |-> from, text |-> text]

Chat == [type : {"FORWARD_CHAT_MESSAGE"}, from : Name, text : Text]

Reply == {Welcome}
           \union [type : {"GENERAL"}, status : Status]
           \union [type : {"SHOW_INBOX_RES"}, rows : Seq(Row)]
           \union [type : {"GET_MAIL_RES"}, mail : Mail]
           \union [type : {"SHOW_ONLINE_USERS_RES"}, users : Seq(Name)]
           \union Chat
=============================================================================
