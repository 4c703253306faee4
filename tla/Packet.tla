------------------------------- MODULE Packet -------------------------------
(***************************************************************************)
(* The packet of Packet.h and Packet.cpp: a buffer of bytes and the index  *)
(* of the next one to read or write.  An operation that changes the packet *)
(* is an operator on packets; one that reads gives whether it succeeded,   *)
(* what it read and the packet it leaves.                                  *)
(***************************************************************************)
EXTENDS Integers, Sequences, FiniteSetsExt

CONSTANTS Base,               \* how many values a byte has
          DWordSize,          \* how many bytes an int32_t has
          MAX_FIELD_LENGTH    \* the longest string field, its NUL included

ASSUME PacketAssumption ==
    /\ Base \in Nat \ {0} /\ Base % 2 = 0
    /\ DWordSize \in Nat \ {0}
    /\ MAX_FIELD_LENGTH \in Nat

NUL  == 0
Byte == 0..(Base - 1)

(* A packet whose index is within its buffer.                              *)
Packets == {p \in [m_buff : Seq(Byte), m_cur : Nat] : p.m_cur <= Len(p.m_buff)}

EmptyPacket == [m_buff |-> <<>>, m_cur |-> 0]
bytesLeft(p) == Len(p.m_buff) - p.m_cur
jumptoStart(p) == [p EXCEPT !.m_cur = 0]

-----------------------------------------------------------------------------
(* An int32_t in network byte order: two's complement, first the most      *)
(* significant byte.  (The faulty variant reads it as unsigned.)           *)
Power[n \in 0..DWordSize] == IF n = 0 THEN 1 ELSE Base * Power[n - 1]
Words == Power[DWordSize]
Int32 == -(Words \div 2)..((Words \div 2) - 1)

htonl(v) == [i \in 1..DWordSize |-> ((v % Words) \div Power[DWordSize - i]) % Base]
Unsigned(s) ==
    LET first[n \in 0..DWordSize] == IF n = 0 THEN 0 ELSE first[n - 1] * Base + s[n]
    IN  first[DWordSize]
ntohlUnsigned_Bug(s) == Unsigned(s)
ntohl(s) == IF Unsigned(s) < Words \div 2 THEN Unsigned(s) ELSE Unsigned(s) - Words

(* A length of a field fits an int32_t.                                    *)
ASSUME LengthAssumption == MAX_FIELD_LENGTH \in Int32

-----------------------------------------------------------------------------
(* Writing.  The buffer grows, by zeros, when there is not enough left.    *)
allocateForward(p, more) ==
    IF more <= bytesLeft(p) THEN p
    ELSE [p EXCEPT !.m_buff = @ \o [i \in 1..(more - bytesLeft(p)) |-> 0]]

writeForward(p, s) ==
    LET q == allocateForward(p, Len(s))
        to == p.m_cur + Len(s)
    IN  [m_buff |-> [i \in 1..Len(q.m_buff) |->
                       IF i > p.m_cur /\ i <= to THEN s[i - p.m_cur] ELSE q.m_buff[i]],
         m_cur  |-> to]

writeForwardDWord(p, v) == writeForward(p, htonl(v))

(* A string that does not fit is not written; no caller in the client      *)
(* looks at the result.                                                    *)
writeForwardStringField(p, str) ==
    IF Len(str) + 1 > MAX_FIELD_LENGTH THEN p
    ELSE writeForward(writeForwardDWord(p, Len(str) + 1), Append(str, NUL))

-----------------------------------------------------------------------------
(* Reading.                                                                *)
Failed(p) == [ok |-> FALSE, out |-> <<>>, pack |-> p]

(* What the next len bytes are, and the packet once they are read.         *)
Forward(p, len) == [p EXCEPT !.m_cur = @ + len]
Ahead(p, len) == SubSeq(p.m_buff, p.m_cur + 1, p.m_cur + len)

readForwardDWord(p) ==
    IF bytesLeft(p) < DWordSize THEN Failed(p)
    ELSE [ok |-> TRUE, out |-> ntohl(Ahead(p, DWordSize)), pack |-> Forward(p, DWordSize)]

(* The last byte of the field is taken for its NUL whatever it is.         *)
readForwardString(p, length) ==
    IF bytesLeft(p) < length THEN Failed(p)
    ELSE [ok |-> TRUE, out |-> Ahead(p, length - 1), pack |-> Forward(p, length)]

(* The length that was read stays read when the field is refused.  (The    *)
(* faulty variant accepts any length.)                                     *)
readAnyLength_Bug(p) ==
    LET l == readForwardDWord(p)
    IN  IF l.ok THEN readForwardString(l.pack, l.out) ELSE Failed(l.pack)
readForwardStringField(p) ==
    LET l == readForwardDWord(p)
    IN  IF l.ok /\ l.out \in 1..MAX_FIELD_LENGTH
        THEN readForwardString(l.pack, l.out)
        ELSE Failed(l.pack)
=============================================================================
