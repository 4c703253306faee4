---------------------------- MODULE MailService ----------------------------
(***************************************************************************)
(* The service the server provides, without its loop, its lists and its    *)
(* pointers: who is signed in, and the mails of every account as a set.    *)
(* A request is answered in one step, with the answer the protocol         *)
(* (docs/readme.docx) describes; only a chat takes a second step, that     *)
(* passes it on.  A client is told something only if it is still here.     *)
(*                                                                         *)
(* Where the server does not do that, it takes one of the steps listed in  *)
(* Shortcoming, each under a condition of its own: they are not promises,  *)
(* but the whole of what may go wrong instead.                             *)
(***************************************************************************)
EXTENDS Protocol, Integers, FiniteSets, Functions

CONSTANTS Client,      \* those who may use the service
          NoUser,      \* nobody is signed in
          Secret,      \* the password of every account
          LongSubject, \* subjects that do not fit in a row of a listing
          LongChat,    \* texts that do not fit behind the server's words
          ListingMax,  \* rows of the longest listing
          OnlineMax,   \* names in the longest list of online users
          Requests     \* what clients ask

VARIABLES stopping,    \* the service has been given up
          accounts,    \* the accounts that exist
          here,        \* clients whose end of the connection is open
          waiting,     \* clients that have come and are not yet welcomed
          sessions,    \* clients that have been welcomed and not let go
          who,         \* who is signed in, by client
          box,         \* the mails of every account
          lastId,      \* the last id given to a mail of every account
          asked,       \* requests of every client, not yet read
          told,        \* messages to every client, not yet read
          relay        \* a chat to be passed on

serviceVars == <<stopping, accounts, here, waiting, sessions, who, box, lastId,
                 asked, told, relay>>

Account == DOMAIN Secret

Init ==
    /\ stopping = FALSE
    /\ accounts = {} /\ here = {} /\ waiting = {} /\ sessions = {}
    /\ who = [c \in Client |-> NoUser]
    /\ box = [u \in Account |-> {}]
    /\ lastId = [u \in Account |-> 0]
    /\ asked = [c \in Client |-> <<>>]
    /\ told = [c \in Client |-> <<>>]
    /\ relay = <<>>

SignedIn(u) == \E c \in Client : who[c] = u

Tell(c, msgs) ==
    told' = IF c \in here THEN [told EXCEPT ![c] = @ \o msgs] ELSE told

-----------------------------------------------------------------------------
(* The service begins, gives up and ends.                                  *)
OpenAccounts ==
    /\ ~stopping /\ sessions = {}
    /\ accounts' = Account
    /\ UNCHANGED <<stopping, here, waiting, sessions, who, box, lastId, asked,
                   told, relay>>

Stop ==
    /\ relay = <<>>
    /\ stopping' = TRUE
    /\ UNCHANGED <<accounts, here, waiting, sessions, who, box, lastId, asked,
                   told, relay>>

CloseAccounts ==
    /\ stopping /\ sessions = {}
    /\ accounts' = {}
    /\ box' = [u \in Account |-> {}]
    /\ lastId' = [u \in Account |-> 0]
    /\ UNCHANGED <<stopping, here, waiting, sessions, who, asked, told, relay>>

(* Nothing is left of the service.                                         *)
Vanish ==
    /\ stopping' = TRUE
    /\ accounts' = {} /\ waiting' = {} /\ sessions' = {}
    /\ who' = [c \in Client |-> NoUser]
    /\ box' = [u \in Account |-> {}]
    /\ lastId' = [u \in Account |-> 0]
    /\ asked' = [c \in Client |-> <<>>]
    /\ relay' = <<>>
    /\ UNCHANGED <<here, told>>

End == stopping /\ sessions = {} /\ accounts = {} /\ Vanish

-----------------------------------------------------------------------------
(* Clients.                                                                *)
Come(c) ==
    /\ ~stopping
    /\ c \notin here \union waiting \union sessions
    /\ here' = here \union {c}
    /\ waiting' = waiting \union {c}
    /\ UNCHANGED <<stopping, accounts, sessions, who, box, lastId, asked, told,
                   relay>>

Go(c) ==
    /\ c \in here
    /\ here' = here \ {c}
    /\ told' = [told EXCEPT ![c] = <<>>]
    /\ UNCHANGED <<stopping, accounts, waiting, sessions, who, box, lastId,
                   asked, relay>>

(* A client may stop inside a message; nothing is done for it before the   *)
(* rest has come.                                                          *)
InMessage(c) == asked[c] # <<>> /\ asked[c][Len(asked[c])] = HalfFrame

Ask(c, r) ==
    /\ c \in here /\ c \in waiting \union sessions
    /\ ~InMessage(c)
    /\ asked' = [asked EXCEPT ![c] = Append(@, r)]
    /\ UNCHANGED <<stopping, accounts, here, waiting, sessions, who, box,
                   lastId, told, relay>>

GoOn(c, r) ==
    /\ c \in here /\ InMessage(c)
    /\ asked' = [asked EXCEPT ![c] = [asked[c] EXCEPT ![Len(asked[c])] = r]]
    /\ UNCHANGED <<stopping, accounts, here, waiting, sessions, who, box,
                   lastId, told, relay>>

Hear(c) ==
    /\ c \in here /\ told[c] # <<>>
    /\ told' = [told EXCEPT ![c] = Tail(@)]
    /\ UNCHANGED <<stopping, accounts, here, waiting, sessions, who, box,
                   lastId, asked, relay>>

-----------------------------------------------------------------------------
(* Sessions begin and end.                                                 *)
Greet(c) ==
    /\ ~stopping /\ relay = <<>>
    /\ c \in waiting
    /\ waiting' = waiting \ {c}
    /\ sessions' = sessions \union {c}
    /\ Tell(c, <<Welcome>>)
    /\ UNCHANGED <<stopping, accounts, here, who, box, lastId, asked, relay>>

LetGo(c) ==
    /\ c \in sessions /\ relay = <<>>
    /\ sessions' = sessions \ {c}
    /\ who' = [who EXCEPT ![c] = NoUser]
    /\ asked' = [asked EXCEPT ![c] = <<>>]
    /\ UNCHANGED <<stopping, accounts, here, waiting, box, lastId, relay>>

(* A client is let go when the service stops, when it asks for it, or when *)
(* it has gone and everything it asked for is done.                        *)
Dismiss(c) == stopping /\ LetGo(c) /\ UNCHANGED told
Leave(c) ==
    /\ asked[c] # <<>> /\ Head(asked[c]).type = "QUIT"
    /\ who[c] # NoUser
    /\ LetGo(c)
    /\ UNCHANGED told
SeeOff(c) ==
    /\ asked[c] = <<>> /\ c \notin here
    /\ LetGo(c)
    /\ UNCHANGED told

(* Shortcoming: a client is let go over a message it has not finished, or  *)
(* has finished but TCP did not deliver as one.                            *)
HangUp(c) ==
    /\ asked[c] # <<>>
    /\ Head(asked[c]) = HalfFrame => c \notin here
    /\ LetGo(c)
    /\ Tell(c, <<General("SESSION_FAILURE")>>)

(* Shortcoming: a client that goes in the middle of a message may take the *)
(* service with it.                                                        *)
Crash(c) ==
    /\ c \in sessions \ here
    /\ asked[c] # <<>>
    /\ Vanish

-----------------------------------------------------------------------------
(* Requests.                                                               *)
Serving(c, types) ==
    /\ asked[c] # <<>> /\ Head(asked[c]).type \in types
    /\ ~stopping /\ relay = <<>> /\ c \in sessions
Answer(c, msgs) ==
    /\ asked' = [asked EXCEPT ![c] = Tail(@)]
    /\ Tell(c, msgs)
    /\ UNCHANGED <<stopping, accounts, here, waiting, sessions>>

(* Nobody is signed in twice.                                              *)
SignInStatus(r) ==
    CASE r.type = "BAD_LOGIN" -> "UNVALID_MESSAGE"
      [] r.type = "LOGIN" ->
           IF r.user \notin accounts THEN "UNKNOWN_USER"
           ELSE IF r.pass # Secret[r.user] THEN "WRONG_PASS"
           ELSE IF SignedIn(r.user) THEN "USER_ALREADY_LOGGEDON"
           ELSE "SUCCESS"
      [] OTHER -> "NOT_LOGGED_IN"

SignIn(c) ==
    /\ Serving(c, {r.type : r \in Requests} \ {"BAD_FRAME", "HALF_FRAME", "NO_TYPE"})
    /\ who[c] = NoUser
    /\ LET r == Head(asked[c]) IN
       /\ Answer(c, <<General(SignInStatus(r))>>)
       /\ who' = IF SignInStatus(r) = "SUCCESS"
                 THEN [who EXCEPT ![c] = r.user] ELSE who
    /\ UNCHANGED <<box, lastId, relay>>

Requested(c, types) == Serving(c, types) /\ who[c] # NoUser

Reject(c) ==
    /\ Requested(c, {"LOGIN", "BAD_LOGIN", "BAD_COMMAND", "UNKNOWN"})
    /\ Answer(c, <<General("UNVALID_MESSAGE")>>)
    /\ UNCHANGED <<who, box, lastId, relay>>

(* Shortcoming: of a frame without a type the client is told twice.        *)
RejectTwice(c) ==
    /\ Serving(c, {"NO_TYPE"})
    /\ LET second == IF who[c] = NoUser THEN "NOT_LOGGED_IN" ELSE "UNVALID_MESSAGE" IN
       Answer(c, <<General("UNVALID_MESSAGE"), General(second)>>)
    /\ UNCHANGED <<who, box, lastId, relay>>

(* The mails of an account, in the order of their ids, each with its       *)
(* sender and subject.                                                     *)
Listings(mails) ==
    {f \in [1..Cardinality(mails) -> mails] :
       \A i, j \in DOMAIN f : i < j => f[i].m_id < f[j].m_id}
RowsOf(f) == [i \in DOMAIN f |-> [m_id |-> f[i].m_id, m_from |-> f[i].m_from,
                                  m_subject |-> f[i].m_subject]]

ListMails(c) ==
    /\ Requested(c, {"SHOW_INBOX"})
    /\ \E f \in Listings(box[who[c]]) : Answer(c, <<ShowInboxRes(RowsOf(f))>>)
    /\ UNCHANGED <<who, box, lastId, relay>>

(* Shortcomings: one long subject makes the listing fail, and nothing is   *)
(* said when there are too many mails.                                     *)
ListingFails(c) ==
    /\ Requested(c, {"SHOW_INBOX"})
    /\ \E m \in box[who[c]] : m.m_subject \in LongSubject
    /\ Answer(c, <<General("INTERNAL_FAILURE")>>)
    /\ UNCHANGED <<who, box, lastId, relay>>
ListingUnanswered(c) ==
    /\ Requested(c, {"SHOW_INBOX"})
    /\ Cardinality(box[who[c]]) > ListingMax
    /\ Answer(c, <<>>)
    /\ UNCHANGED <<who, box, lastId, relay>>

Fetch(c) ==
    /\ Requested(c, {"GET_MAIL"})
    /\ LET found == {m \in box[who[c]] : m.m_id = Head(asked[c]).id} IN
       IF found = {} THEN Answer(c, <<General("UNKNOWN_MAIL_ID")>>)
       ELSE \E m \in found : Answer(c, <<GetMailRes(m)>>)
    /\ UNCHANGED <<who, box, lastId, relay>>

(* Exactly the mail with that id goes.                                     *)
Discard(c) ==
    /\ Requested(c, {"DELETE_MAIL"})
    /\ LET found == {m \in box[who[c]] : m.m_id = Head(asked[c]).id} IN
       /\ box' = [box EXCEPT ![who[c]] = @ \ found]
       /\ Answer(c, <<General(IF found = {} THEN "UNKNOWN_MAIL_ID" ELSE "SUCCESS")>>)
    /\ UNCHANGED <<who, lastId, relay>>

(* Every account named gets a copy for each time it is named, under ids    *)
(* never given before; names without an account are passed over.           *)
Post(to, from, subject, body) ==
    LET times(u) == IF u \in accounts
                    THEN Cardinality({i \in DOMAIN to : to[i] = u}) ELSE 0
    IN  /\ box' = [u \in Account |-> box[u] \union
                     {[m_id |-> lastId[u] + n, m_to |-> to, m_from |-> from,
                       m_subject |-> subject, m_body |-> body] : n \in 1..times(u)}]
        /\ lastId' = [u \in Account |-> lastId[u] + times(u)]

SendMail(c) ==
    /\ Requested(c, {"COMPOSE"})
    /\ LET r == Head(asked[c]) IN Post(r.to, who[c], r.subject, r.body)
    /\ Answer(c, <<General("SUCCESS")>>)
    /\ UNCHANGED <<who, relay>>

(* Everybody who is signed in, once.                                       *)
ListOnline(c) ==
    /\ Requested(c, {"SHOW_ONLINE_USERS"})
    /\ LET online == {who[d] : d \in sessions} \ {NoUser} IN
       \E users \in Bijection(1..Cardinality(online), online) :
         Answer(c, <<OnlineRes(users)>>)
    /\ UNCHANGED <<who, box, lastId, relay>>

(* Shortcomings: a session that is not signed in makes the listing fail    *)
(* for everybody, and a list too long comes without any name.              *)
OnlineFails(c) ==
    /\ Requested(c, {"SHOW_ONLINE_USERS"})
    /\ \E d \in sessions : who[d] = NoUser
    /\ Answer(c, <<General("INTERNAL_FAILURE")>>)
    /\ UNCHANGED <<who, box, lastId, relay>>
OnlineNameless(c) ==
    /\ Requested(c, {"SHOW_ONLINE_USERS"})
    /\ Cardinality(sessions) > OnlineMax
    /\ Answer(c, <<OnlineRes(<<>>)>>)
    /\ UNCHANGED <<who, box, lastId, relay>>

(* A chat goes to the session of its addressee, or into his box.           *)
ChatToNobody(c) ==
    /\ Requested(c, {"SEND_CHAT"})
    /\ Head(asked[c]).to \notin accounts
    /\ Answer(c, <<General("UNKNOWN_USER_CHAT")>>)
    /\ UNCHANGED <<who, box, lastId, relay>>

ChatToBox(c) ==
    /\ Requested(c, {"SEND_CHAT"})
    /\ LET r == Head(asked[c]) IN
       /\ r.to \in accounts /\ ~SignedIn(r.to)
       /\ Post(<<r.to>>, who[c], OfflineSubject, r.text)
    /\ Answer(c, <<General("SUCCESS")>>)
    /\ UNCHANGED <<who, relay>>

ChatToSession(c) ==
    /\ Requested(c, {"SEND_CHAT"})
    /\ LET r == Head(asked[c]) IN
       /\ r.to \in accounts
       /\ \E d \in Client :
            /\ who[d] = r.to
            /\ relay' = <<[from |-> c, to |-> d,
                           chat |-> ChatMessage(who[c], r.text)]>>
    /\ Answer(c, <<General("SUCCESS")>>)
    /\ UNCHANGED <<who, box, lastId>>

(* Shortcoming: a text that could be stored cannot be passed on.           *)
ChatFails(c) ==
    /\ Requested(c, {"SEND_CHAT"})
    /\ SignedIn(Head(asked[c]).to) /\ Head(asked[c]).text \in LongChat
    /\ Answer(c, <<General("INTERNAL_FAILURE")>>)
    /\ UNCHANGED <<who, box, lastId, relay>>

RelayDone ==
    /\ relay' = <<>>
    /\ UNCHANGED <<stopping, accounts, here, waiting, sessions, who, box,
                   lastId, asked>>
PassOn ==
    /\ relay # <<>> /\ relay[1].to \in here
    /\ Tell(relay[1].to, <<relay[1].chat>>)
    /\ RelayDone

(* Shortcoming: the chat to a client that has gone, and is still signed    *)
(* in, is lost; its sender, told that it was sent, may be told otherwise.  *)
LoseChat ==
    /\ relay # <<>> /\ relay[1].to \notin here
    /\ UNCHANGED told \/ Tell(relay[1].from, <<General("INTERNAL_FAILURE")>>)
    /\ RelayDone

-----------------------------------------------------------------------------
ClientNext(c) ==
    \/ Come(c) \/ Go(c) \/ Hear(c)
    \/ \E r \in Requests : Ask(c, r) \/ GoOn(c, r)

Promised(c) ==
    \/ Greet(c) \/ Dismiss(c) \/ Leave(c) \/ SeeOff(c)
    \/ SignIn(c) \/ Reject(c) \/ ListMails(c) \/ Fetch(c) \/ Discard(c)
    \/ SendMail(c) \/ ListOnline(c)
    \/ ChatToNobody(c) \/ ChatToBox(c) \/ ChatToSession(c)

Shortcoming(c) ==
    \/ HangUp(c) \/ Crash(c) \/ RejectTwice(c)
    \/ ListingFails(c) \/ ListingUnanswered(c)
    \/ OnlineFails(c) \/ OnlineNameless(c) \/ ChatFails(c)

Next ==
    \/ OpenAccounts \/ Stop \/ CloseAccounts \/ End \/ PassOn \/ LoseChat
    \/ \E c \in Client : ClientNext(c) \/ Promised(c) \/ Shortcoming(c)

Spec == Init /\ [][Next]_serviceVars
=============================================================================
