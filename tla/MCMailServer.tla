---------------------------- MODULE MCMailServer ----------------------------
(***************************************************************************)
(* Small instances of MailServer.  Each configuration picks a users file,  *)
(* the bounds and the requests its clients may send.                       *)
(***************************************************************************)
EXTENDS MailServerService

CONSTANTS c1, c2, c3, ann, bob, zoe, secret, guess, hi, huge
CONSTANTS MaxInq,          \* bound: unread requests per connection
          MaxOutq,         \* bound: unread messages of a client that sends
          MaxMailId        \* bound: mails ever stored

MCName     == {ann, bob, zoe}
MCPassword == {secret, guess}
MCText     == {hi, huge}
MCLong     == {huge}
MCMailId   == 1..3

TwoConns   == {c1, c2}
ThreeConns == {c1, c2, c3}

User(u) == [user |-> u, pass |-> secret]
TwoUsers      == <<User(ann), User(bob)>>
OneUser       == <<User(ann)>>
(* ann has two lines: only the inbox of her last line can be reached, and  *)
(* only its password counts.                                               *)
DuplicateUser == <<[user |-> ann, pass |-> guess], User(bob), User(ann)>>

Login(u, p) == [type |-> "LOGIN", user |-> u, pass |-> p]
Plain(t)    == [type |-> t]
MailReq(t, i) == [type |-> t, id |-> i]
ComposeTo(to) == [type |-> "COMPOSE", to |-> to, subject |-> hi, body |-> hi]
ChatTo(u, t)  == [type |-> "SEND_CHAT", to |-> u, text |-> t]

(* Connections that compete for a user, and every way a session ends: any  *)
(* message may also arrive in parts.                                       *)
SessionRequests == {Login(ann, secret), HalfFrame, Plain("QUIT")}

(* What happens to chats, to oneself and to the other user, and who is     *)
(* shown to be online.                                                     *)
ChatRequests ==
    {Login(ann, secret), Login(bob, secret), ChatTo(bob, hi),
     Plain("SHOW_ONLINE_USERS")}

(* Every kind of message the parser tells apart; mails to several          *)
(* addressees, one named twice and one unknown, and deletions from the     *)
(* front and from the middle of an inbox.                                  *)
AllRequests ==
    {Login(ann, secret), Login(ann, guess), Login(zoe, secret),
     Plain("SHOW_INBOX"), Plain("SHOW_ONLINE_USERS"), Plain("QUIT"),
     Plain("UNKNOWN"), Plain("NO_TYPE"), Plain("BAD_FRAME"), HalfFrame,
     Plain("BAD_LOGIN"), Plain("BAD_COMMAND"), MailReq("GET_MAIL", 1), MailReq("DELETE_MAIL", 1),
     MailReq("DELETE_MAIL", 2), Login(bob, secret),
     [type |-> "COMPOSE", to |-> <<ann>>, subject |-> huge, body |-> hi],
     ComposeTo(<<ann, zoe, ann>>), ChatTo(ann, huge), ChatTo(bob, hi),
     ChatTo(zoe, hi)}

(* Requests of the progress run: a client that stops inside a message      *)
(* stops the server, until it goes on.                                     *)
LiveRequests == {Login(ann, secret), ChatTo(ann, hi), HalfFrame}

ConnSymmetry == Permutations(Conn)

-----------------------------------------------------------------------------
(* The bounds.  A client sends only while fewer than MaxInq of its         *)
(* messages and at most MaxOutq of the server's are unread, and a message  *)
(* that may store mail only while the copies it and the unread ones may    *)
(* store are at most MaxMailId (fewer where an instance says so).          *)
MailWeight(r) == IF r.type = "COMPOSE" THEN Len(r.to)
                 ELSE IF r.type = "SEND_CHAT" THEN 1 ELSE 0
Unread == UNION {{<<c, i>> : i \in DOMAIN inq[c]} : c \in Conn}
MailBudget(r, most) ==
    MailWeight(r) > 0 =>
      MailWeight(r) + MapThenSumSet(LAMBDA k : m_idOfLastMail[k], InboxId)
        + MapThenSumSet(LAMBDA p : MailWeight(inq[p[1]][p[2]]), Unread)
        <= most

SendsWithin(c, r, most) ==
    /\ MailBudget(r, most)
    /\ \/ Len(inq[c]) < MaxInq /\ Len(outq[c]) <= MaxOutq /\ Send(c, r)
       \/ FinishFrame(c, r)

BoundedClientStep(c) ==
    \/ Connect(c) \/ Receive(c) \/ Disconnect(c)
    \/ \E r \in ClientRequests : SendsWithin(c, r, MaxMailId)

BoundedNext ==
    ServerStep \/ (\E c \in Conn : BoundedClientStep(c)) \/ Terminated

BoundedSpec == Init /\ [][BoundedNext]_vars
LiveSpec == BoundedSpec /\ Fairness /\ FrameFairness
=============================================================================
