--------------------------- MODULE MCSocketFraming ---------------------------
(***************************************************************************)
(* A small instance of SocketFraming: a length field of two bytes, packets *)
(* of one to three bytes, and a kernel that holds less than the two        *)
(* longest messages.  One foreign message claims more than                 *)
(* MAX_PACKET_LENGTH, one a negative length, with as many bytes as the     *)
(* conversion to unsigned short makes of it; the lengths of the others are *)
(* accepted: none, too few and too many bytes.                             *)
(***************************************************************************)
EXTENDS SocketFraming

MCForeign == {[length |-> MAX_PACKET_LENGTH + 1, size |-> 1],
              [length |-> -1, size |-> MAX_PACKET_LENGTH],
              [length |-> 0, size |-> 0],
              [length |-> 1, size |-> 2],
              [length |-> MAX_PACKET_LENGTH, size |-> 1]}

LiveFramingSpec == FramingSpec /\ FramingFairness
=============================================================================
