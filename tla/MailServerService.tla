-------------------------- MODULE MailServerService --------------------------
(***************************************************************************)
(* MailServer implements MailService.  An account is a user name of the    *)
(* file, with the password of its last line, and its box is the inbox      *)
(* getInboxFromUserString finds; who is signed in is what the sessions'    *)
(* pointers say; requests, messages and the pending chat are the same.     *)
(***************************************************************************)
EXTENDS MailServerProps

CONSTANT NoUser    \* nobody is signed in

ASSUME NoUserAssumption == NoUser \notin Name

AccountName == {UsersFile[i].user : i \in DOMAIN UsersFile}
Secret ==
    [u \in AccountName |->
       UsersFile[Max({i \in DOMAIN UsersFile : UsersFile[i].user = u})].pass]

(* The variables of the service, as functions of the server's state.       *)
Stopping == pc \in {"exit", "done"}
Accounts == {u \in AccountName : GetInbox(u) # NoInbox}
Here     == {c \in Conn : Connected(c)}
Waiting  == {c \in Conn : InBacklog(c)}
Welcomed == {c \in Conn : InServer(c)}
Who ==
    [c \in Conn |-> IF m_inbox[c] = NoInbox THEN NoUser
                    ELSE UserOf(m_inbox[c]).user]
Box ==
    [u \in AccountName |->
       IF GetInbox(u) = NoInbox THEN {} ELSE Stored(m_mails[GetInbox(u)])]
LastId ==
    [u \in AccountName |->
       IF GetInbox(u) = NoInbox THEN 0 ELSE m_idOfLastMail[GetInbox(u)]]

Service == INSTANCE MailService WITH
    Client <- Conn,
    ListingMax <- ShowInboxLimit,
    OnlineMax <- OnlineLimit,
    Requests <- ClientRequests,
    stopping <- Stopping,
    accounts <- Accounts,
    here <- Here,
    waiting <- Waiting,
    sessions <- Welcomed,
    who <- Who,
    box <- Box,
    lastId <- LastId,
    asked <- inq,
    told <- outq,
    relay <- forward

(* Every answer the server gives is the one the service promises, to the   *)
(* one who asked, and the mails and the users signed in change with it as  *)
(* promised, unless the step is one of the service's shortcomings and its  *)
(* condition holds.                                                        *)
ServiceSpec == Service!Spec
=============================================================================
