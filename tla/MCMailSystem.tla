---------------------------- MODULE MCMailSystem ----------------------------
(***************************************************************************)
(* Small instances of MailSystem.                                          *)
(***************************************************************************)
EXTENDS MailSystem

CONSTANTS c1, c2, ann, bob, zoe, secret, guess, hi, huge
CONSTANTS MaxTyped,        \* bound: entries typed and not yet read
          MaxMailId        \* bound: mails ever stored in one inbox

MCName     == {ann, bob, zoe}
MCPassword == {secret, guess}
MCText     == {hi, huge}
MCLong     == {huge}
MCMailId   == 1..2

OneConn  == {c1}
TwoConns == {c1, c2}

User(u) == [user |-> u, pass |-> secret]
OneUser  == <<User(ann)>>
TwoUsers == <<User(ann), User(bob)>>

Login(u, p) == [type |-> "LOGIN", user |-> u, pass |-> p]
Plain(t)    == [type |-> t]
MailReq(t, i) == [type |-> t, id |-> i]
ComposeTo(to) == [type |-> "COMPOSE", to |-> to, subject |-> hi, body |-> hi]
ChatTo(u, t)  == [type |-> "SEND_CHAT", to |-> u, text |-> t]

(* Every command, from one client.                                         *)
AllCommands ==
    {Login(ann, secret), Login(ann, guess), Login(zoe, secret),
     Plain("SHOW_INBOX"), Plain("SHOW_ONLINE_USERS"), Plain("QUIT"),
     ComposeTo(<<ann>>), MailReq("GET_MAIL", 1), MailReq("DELETE_MAIL", 1)}

(* One user, who chats with himself and looks at his inbox.                *)
SelfChatCommands ==
    {Login(ann, secret), ChatTo(ann, hi), Plain("SHOW_INBOX")}

(* One user, who looks at his inbox.                                       *)
InboxCommands == {Login(ann, secret), Plain("SHOW_INBOX")}

(* Two clients, of whom one chats and the other looks at his inbox or      *)
(* announces a mail.                                                       *)
LiveCommands ==
    {Login(ann, secret), Login(bob, secret), Login(bob, guess), ChatTo(bob, hi),
     Plain("SHOW_INBOX")}

ConnSymmetry == Permutations(Conn)

-----------------------------------------------------------------------------
(* The bounds.  A user types only while fewer than MaxTyped entries are    *)
(* unread, and something that may store mail only while its copies and     *)
(* those of everything not yet handled fit in MaxMailId.                   *)
MailWeight(l) == IF l \in {BadLine, ComposeLine} THEN 0
                 ELSE IF l.type = "COMPOSE" THEN Len(l.to)
                 ELSE IF l.type = "SEND_CHAT" THEN 1 ELSE 0
Weight(s) == FoldSeq(LAMBDA l, sum : MailWeight(l) + sum, 0, s)
MailBudget(l) ==
    MailWeight(l) > 0 =>
      \A k \in InboxId :
        m_idOfLastMail[k] + MailWeight(l)
          + MapThenSumSet(LAMBDA c : Weight(inq[c] \o buffered[c] \o typed[c]), Conn)
          <= MaxMailId

(* Only an instance with a COMPOSE request has a use for its first line.   *)
TypedEntries ==
    IF \E r \in ClientRequests : r.type = "COMPOSE" THEN Entry
    ELSE Entry \ {ComposeLine}

TypesWithin(c, l) ==
    /\ Len(typed[c]) + Len(buffered[c]) < MaxTyped
    /\ MailBudget(l)
    /\ Type(c, l)

BoundedSystemStep(c) ==
    \/ ProgramStep(c) \/ UserStep(c)
    \/ \E l \in TypedEntries : TypesWithin(c, l)

BoundedSystemNext ==
    \/ ServerStep /\ UNCHANGED clientVars
    \/ \E c \in Conn : BoundedSystemStep(c)
    \/ Terminated /\ UNCHANGED clientVars

BoundedSystemSpec == SystemInit /\ [][BoundedSystemNext]_systemVars
InboxLiveSpec == BoundedSystemSpec /\ SystemFairness

(* For liveness each client has a part of its own (a bound on what users   *)
(* do): the first is ann's and chats, the second is bob's, who may type a  *)
(* wrong password where he is asked for it, whose stdin may be closed and  *)
(* who may be killed.                                                      *)
PartOf(c) ==
    IF c = c1 THEN {Login(ann, secret), ChatTo(bob, hi)}
    ELSE {Login(bob, secret), Plain("SHOW_INBOX"), ComposeLine}
           \union IF cpc[c] = "login" THEN {Login(bob, guess)} ELSE {}
LiveSystemStep(c) ==
    \/ ProgramStep(c) \/ StartClient(c)
    \/ c # c1 /\ (CloseStdin(c) \/ Killed(c))
    \/ \E l \in PartOf(c) : TypesWithin(c, l)
LiveSystemNext ==
    \/ ServerStep /\ UNCHANGED clientVars
    \/ \E c \in Conn : LiveSystemStep(c)
    \/ Terminated /\ UNCHANGED clientVars
LiveSystemSpec == SystemInit /\ [][LiveSystemNext]_systemVars /\ SystemFairness
=============================================================================
