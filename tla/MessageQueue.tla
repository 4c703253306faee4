---------------------------- MODULE MessageQueue ----------------------------
(***************************************************************************)
(* What one direction of a connection promises to the two programs: a      *)
(* queue of whole messages, read in the order they were sent, until the    *)
(* reader gives the connection up.  MailServer's inq and outq are such     *)
(* queues.                                                                 *)
(***************************************************************************)
EXTENDS Sequences

CONSTANTS Message,     \* what a sender may put
          Valid        \* the messages a reader accepts

VARIABLES queue,       \* sent and not yet read
          taken,       \* read so far
          reading      \* the reader still reads

queueVars == <<queue, taken, reading>>

Init == queue = <<>> /\ taken = <<>> /\ reading = TRUE

Put ==
    /\ \E m \in Message : queue' = Append(queue, m)
    /\ UNCHANGED <<taken, reading>>

Take ==
    /\ reading
    /\ queue # <<>> /\ Head(queue) \in Valid
    /\ taken' = Append(taken, Head(queue))
    /\ queue' = Tail(queue)
    /\ UNCHANGED reading

GiveUp ==
    /\ reading
    /\ reading' = FALSE
    /\ UNCHANGED <<queue, taken>>

Next == Put \/ Take \/ GiveUp

Spec == Init /\ [][Next]_queueVars
=============================================================================
