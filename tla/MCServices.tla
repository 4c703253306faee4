----------------------------- MODULE MCServices -----------------------------
(***************************************************************************)
(* An instance of MailServer in which a client that is alone uses          *)
(* everything the protocol has, and clients that meet chat.                *)
(***************************************************************************)
EXTENDS MCMailServer

(* The server has let go of all the others.                                *)
OthersAway(c) ==
    \A d \in Conn \ {c} : peer[d] = "idle" /\ ~InServer(d) /\ ~InBacklog(d)

(* Clients meet before any mail has been stored (a bound): another one     *)
(* connects only then, and together they store at most one mail.           *)
NoMailYet ==
    /\ \A k \in InboxId : m_idOfLastMail[k] = 0
    /\ \A p \in Unread : inq[p[1]][p[2]] \in ChatRequests

ServicesClientStep(c) ==
    \/ (OthersAway(c) \/ NoMailYet) /\ Connect(c)
    \/ Receive(c) \/ Disconnect(c)
    \/ OthersAway(c) /\ \E r \in ClientRequests : SendsWithin(c, r, MaxMailId)
    \/ ~OthersAway(c) /\ \E r \in ChatRequests : SendsWithin(c, r, 1)

ServicesNext ==
    ServerStep \/ (\E c \in Conn : ServicesClientStep(c)) \/ Terminated

ServicesSpec == Init /\ [][ServicesNext]_vars
=============================================================================
