---------------------------- MODULE RequestProofs ----------------------------
(***************************************************************************)
(* The way of a request for all inputs.                                    *)
(*                                                                         *)
(* Packet, for every buffer, every index and every size of a byte, a word  *)
(* and a field: a read never goes past the end of the buffer and never     *)
(* changes it; a write changes only the bytes it writes, and reading them  *)
(* back gives what was written; the bytes of a number are its only ones    *)
(* (NetworkOrder).                                                         *)
(*                                                                         *)
(* ClientInput and RequestPath: the pieces a text is cut into at a         *)
(* character, a frame and what it encodes (FrameIsRead), and the types and *)
(* FrameUnderstood as invariants of PathSpec.                              *)
(***************************************************************************)
EXTENDS RequestPathProps, SeqLemmas, FiniteSetTheorems

(* A read moved the index of p forward, within its buffer, and left the    *)
(* bytes alone.                                                            *)
OnlyAdvances(p, q) ==
    /\ q \in Packets
    /\ q.m_buff = p.m_buff
    /\ q.m_cur >= p.m_cur

-----------------------------------------------------------------------------
(* What is left of a packet.                                               *)
LEMMA BytesLeftType ==
  ASSUME NEW p \in Packets
  PROVE  /\ bytesLeft(p) \in Nat
         /\ p.m_cur \in Nat
         /\ p.m_buff \in Seq(Byte)
         /\ Len(p.m_buff) \in Nat
         /\ p.m_cur + bytesLeft(p) = Len(p.m_buff)
  BY DEF Packets, bytesLeft

(* Moving the index over bytes that are left.                              *)
LEMMA ForwardAdvances ==
  ASSUME NEW p \in Packets, NEW len \in Nat, len <= bytesLeft(p)
  PROVE  OnlyAdvances(p, Forward(p, len))
<1>1. /\ p \in [m_buff : Seq(Byte), m_cur : Nat]
      /\ p.m_cur + len \in Nat
      /\ p.m_cur + len >= p.m_cur
      /\ p.m_cur + len <= Len(p.m_buff)
  BY BytesLeftType DEF Packets
<1>2. Forward(p, len) = [m_buff |-> p.m_buff, m_cur |-> p.m_cur + len]
  BY <1>1 DEF Forward
<1>3. QED
  BY <1>1, <1>2, BytesLeftType DEF OnlyAdvances, Packets

(* What the next bytes of a packet are.                                    *)
LEMMA AheadBytes ==
  ASSUME NEW p \in Packets, NEW len \in Nat, len <= bytesLeft(p)
  PROVE  /\ Ahead(p, len) \in Seq(Byte)
         /\ Len(Ahead(p, len)) = len
         /\ \A i \in 1..len : Ahead(p, len)[i] = p.m_buff[p.m_cur + i]
<1> DEFINE first == p.m_cur + 1
           last == p.m_cur + len
<1>1. /\ p.m_buff \in Seq(Byte)
      /\ p.m_cur \in Nat
      /\ last <= Len(p.m_buff)
      /\ Len(p.m_buff) \in Nat
  BY BytesLeftType
<1>2. first \in Int /\ last \in Int /\ last - first + 1 = len
  BY <1>1
<1>3. \A i \in first..last : i \in 1..Len(p.m_buff)
  BY <1>1
<1>4. \A i \in first..last : p.m_buff[i] \in Byte
  BY <1>1, <1>3, ElementOfSeq
<1>5. Ahead(p, len) = SubSeq(p.m_buff, first, last)
  BY DEF Ahead
<1>6. /\ SubSeq(p.m_buff, first, last) \in Seq(Byte)
      /\ Len(SubSeq(p.m_buff, first, last)) =
           IF first <= last THEN last - first + 1 ELSE 0
      /\ \A i \in 1..(last - first + 1) :
           SubSeq(p.m_buff, first, last)[i] = p.m_buff[first + i - 1]
  <2> HIDE DEF first, last
  <2> QED
    BY <1>2, <1>4, SubSeqProperties
<1>7. (IF first <= last THEN last - first + 1 ELSE 0) = len
  BY <1>1
<1>8. ASSUME NEW i \in 1..len
      PROVE  SubSeq(p.m_buff, first, last)[i] = p.m_buff[p.m_cur + i]
  <2>1. first + i - 1 = p.m_cur + i
    BY <1>1
  <2>2. QED
    BY <1>2, <1>6, <2>1
<1> HIDE DEF first, last
<1>9. QED
  BY <1>5, <1>6, <1>7, <1>8

LEMMA FailedKeeps ==
  ASSUME NEW p \in Packets
  PROVE  Failed(p).pack = p /\ OnlyAdvances(p, p)
  BY BytesLeftType DEF Failed, OnlyAdvances

-----------------------------------------------------------------------------
(* readForward of a number (Packet.cpp) keeps the index in the buffer.     *)
LEMMA DWordAdvances ==
  ASSUME NEW p \in Packets
  PROVE  OnlyAdvances(p, readForwardDWord(p).pack)
<1>1. CASE bytesLeft(p) < DWordSize
  BY <1>1, FailedKeeps DEF readForwardDWord
<1>2. CASE ~ (bytesLeft(p) < DWordSize)
  <2>1. DWordSize \in Nat /\ DWordSize <= bytesLeft(p)
    BY <1>2, BytesLeftType, PacketAssumption
  <2>2. readForwardDWord(p).pack = Forward(p, DWordSize)
    BY <1>2 DEF readForwardDWord
  <2>3. QED
    BY <2>1, <2>2, ForwardAdvances
<1>3. QED
  BY <1>1, <1>2

(* So does the reading of a string whose length the caller accepted.  What *)
(* it gives is one byte shorter, as the last one is taken for the NUL.     *)
LEMMA StringAdvances ==
  ASSUME NEW p \in Packets, NEW length \in Nat \ {0}
  PROVE  /\ OnlyAdvances(p, readForwardString(p, length).pack)
         /\ readForwardString(p, length).ok =>
              /\ readForwardString(p, length).out \in Seq(Byte)
              /\ Len(readForwardString(p, length).out) = length - 1
<1>1. CASE bytesLeft(p) < length
  <2>1. readForwardString(p, length) = Failed(p)
    BY <1>1 DEF readForwardString
  <2>2. QED
    BY <2>1, FailedKeeps DEF Failed
<1>2. CASE ~ (bytesLeft(p) < length)
  <2>1. length - 1 \in Nat /\ length - 1 <= bytesLeft(p) /\ length <= bytesLeft(p)
    BY <1>2, BytesLeftType
  <2>2. readForwardString(p, length) =
          [ok |-> TRUE, out |-> Ahead(p, length - 1), pack |-> Forward(p, length)]
    BY <1>2 DEF readForwardString
  <2>3. Ahead(p, length - 1) \in Seq(Byte) /\ Len(Ahead(p, length - 1)) = length - 1
    BY <2>1, AheadBytes
  <2>4. OnlyAdvances(p, Forward(p, length))
    BY <2>1, ForwardAdvances
  <2>5. QED
    BY <2>2, <2>3, <2>4
<1>3. QED
  BY <1>1, <1>2

(* Whatever bytes a peer put into a packet, and whatever length they claim *)
(* for a field, reading the field never leaves the buffer, never changes   *)
(* it and never goes back (Packet.cpp readForwardStringField).  A field    *)
(* that is accepted is shorter than MAX_FIELD_LENGTH.                      *)
THEOREM FieldReadStaysInside ==
  ASSUME NEW p \in Packets
  PROVE  /\ OnlyAdvances(p, readForwardStringField(p).pack)
         /\ readForwardStringField(p).ok =>
              /\ readForwardStringField(p).out \in Seq(Byte)
              /\ Len(readForwardStringField(p).out) < MAX_FIELD_LENGTH
<1> DEFINE l == readForwardDWord(p)
<1>1. OnlyAdvances(p, l.pack)
  BY DWordAdvances
<1>2. l.pack \in Packets
  BY <1>1 DEF OnlyAdvances
<1>3. CASE l.ok /\ l.out \in 1..MAX_FIELD_LENGTH
  <2> DEFINE s == readForwardString(l.pack, l.out)
  <2>1. readForwardStringField(p) = s
    BY <1>3 DEF readForwardStringField
  <2>2. l.out \in Nat \ {0} /\ l.out <= MAX_FIELD_LENGTH
    BY <1>3, PacketAssumption
  <2>3. /\ OnlyAdvances(l.pack, s.pack)
        /\ s.ok => s.out \in Seq(Byte) /\ Len(s.out) = l.out - 1
    BY <1>2, <2>2, StringAdvances
  <2>4. OnlyAdvances(p, s.pack)
    <3>1. /\ s.pack \in Packets
          /\ s.pack.m_buff = p.m_buff
      BY <1>1, <2>3 DEF OnlyAdvances
    <3>2. s.pack.m_cur >= l.pack.m_cur /\ l.pack.m_cur >= p.m_cur
      BY <1>1, <2>3 DEF OnlyAdvances
    <3>3. s.pack.m_cur \in Nat /\ l.pack.m_cur \in Nat /\ p.m_cur \in Nat
      BY <1>2, <3>1, BytesLeftType
    <3>4. QED
      BY <3>1, <3>2, <3>3 DEF OnlyAdvances
  <2>5. s.ok => Len(s.out) < MAX_FIELD_LENGTH
    BY <2>2, <2>3, PacketAssumption
  <2>6. QED
    BY <2>1, <2>3, <2>4, <2>5
<1>4. CASE ~ (l.ok /\ l.out \in 1..MAX_FIELD_LENGTH)
  <2>1. readForwardStringField(p) = Failed(l.pack)
    BY <1>4 DEF readForwardStringField
  <2>2. Failed(l.pack).pack = l.pack /\ ~ Failed(l.pack).ok
    BY DEF Failed
  <2>3. QED
    BY <1>1, <2>1, <2>2
<1>5. QED
  BY <1>3, <1>4

-----------------------------------------------------------------------------
(* Making room leaves the index and the bytes of the packet as they were.  *)
LEMMA AllocateMakesRoom ==
  ASSUME NEW p \in Packets, NEW more \in Nat
  PROVE  /\ allocateForward(p, more) \in Packets
         /\ allocateForward(p, more).m_cur = p.m_cur
         /\ more <= bytesLeft(allocateForward(p, more))
         /\ Len(allocateForward(p, more).m_buff) >= Len(p.m_buff)
         /\ \A i \in 1..Len(p.m_buff) :
              allocateForward(p, more).m_buff[i] = p.m_buff[i]
<1>1. CASE more <= bytesLeft(p)
  BY <1>1, BytesLeftType DEF allocateForward
<1>2. CASE ~ (more <= bytesLeft(p))
  <2> DEFINE zeros == [i \in 1..(more - bytesLeft(p)) |-> 0]
             q == [m_buff |-> p.m_buff \o zeros, m_cur |-> p.m_cur]
  <2>1. /\ p \in [m_buff : Seq(Byte), m_cur : Nat]
        /\ p.m_cur <= Len(p.m_buff)
        /\ bytesLeft(p) \in Nat
        /\ more - bytesLeft(p) \in Nat
    BY <1>2, BytesLeftType DEF Packets
  <2>2. allocateForward(p, more) = q
    BY <1>2, <2>1 DEF allocateForward
  <2>3. zeros \in Seq(Byte) /\ Len(zeros) = more - bytesLeft(p)
    <3>1. 0 \in Byte
      BY PacketAssumption DEF Byte
    <3>2. QED
      BY <2>1, <3>1
  <2> HIDE DEF zeros
  <2>4. /\ p.m_buff \o zeros \in Seq(Byte)
        /\ Len(p.m_buff \o zeros) = Len(p.m_buff) + (more - bytesLeft(p))
        /\ \A i \in 1..Len(p.m_buff) : (p.m_buff \o zeros)[i] = p.m_buff[i]
    <3>1. p.m_buff \in Seq(Byte) /\ Len(p.m_buff) \in Nat
      BY BytesLeftType
    <3>2. /\ p.m_buff \o zeros \in Seq(Byte)
          /\ Len(p.m_buff \o zeros) = Len(p.m_buff) + Len(zeros)
          /\ \A i \in 1..(Len(p.m_buff) + Len(zeros)) :
               (p.m_buff \o zeros)[i] = IF i <= Len(p.m_buff) THEN p.m_buff[i]
                                        ELSE zeros[i - Len(p.m_buff)]
      BY <2>3, <3>1, ConcatProperties
    <3>3. QED
      BY <2>1, <2>3, <3>1, <3>2
  <2>5. q \in Packets
    BY <2>1, <2>4, BytesLeftType DEF Packets
  <2>6. more <= bytesLeft(q)
    BY <2>1, <2>4, BytesLeftType DEF bytesLeft
  <2>7. Len(q.m_buff) >= Len(p.m_buff)
    BY <2>1, <2>4, BytesLeftType
  <2>8. QED
    BY <2>2, <2>4, <2>5, <2>6, <2>7
<1>3. QED
  BY <1>1, <1>2

(* A write (Packet.cpp writeForward) leaves the bytes before the index as  *)
(* they were, puts the written ones where the index was and moves it past  *)
(* them; the packet stays a packet however often it grows.                 *)
LEMMA WriteForwardWrites ==
  ASSUME NEW p \in Packets, NEW s \in Seq(Byte)
  PROVE  /\ writeForward(p, s) \in Packets
         /\ writeForward(p, s).m_cur = p.m_cur + Len(s)
         /\ \A i \in 1..p.m_cur : writeForward(p, s).m_buff[i] = p.m_buff[i]
         /\ \A i \in 1..Len(s) : writeForward(p, s).m_buff[p.m_cur + i] = s[i]
<1> DEFINE q == allocateForward(p, Len(s))
           to == p.m_cur + Len(s)
           b == [i \in 1..Len(q.m_buff) |->
                   IF i > p.m_cur /\ i <= to THEN s[i - p.m_cur] ELSE q.m_buff[i]]
<1>1. Len(s) \in Nat
  OBVIOUS
<1>2. /\ q \in Packets
      /\ q.m_cur = p.m_cur
      /\ Len(s) <= bytesLeft(q)
      /\ \A i \in 1..Len(p.m_buff) : q.m_buff[i] = p.m_buff[i]
  BY <1>1, AllocateMakesRoom
<1>3. /\ q.m_buff \in Seq(Byte)
      /\ Len(q.m_buff) \in Nat
      /\ p.m_cur \in Nat
      /\ p.m_cur <= Len(p.m_buff)
      /\ Len(p.m_buff) \in Nat
      /\ to \in Nat
      /\ to <= Len(q.m_buff)
  BY <1>1, <1>2, BytesLeftType DEF bytesLeft
<1>4. writeForward(p, s) = [m_buff |-> b, m_cur |-> to]
  BY DEF writeForward
<1> HIDE DEF q
<1>5. b \in Seq(Byte) /\ Len(b) = Len(q.m_buff)
  <2>1. ASSUME NEW i \in 1..Len(q.m_buff)
        PROVE  (IF i > p.m_cur /\ i <= to THEN s[i - p.m_cur] ELSE q.m_buff[i]) \in Byte
    <3>1. CASE i > p.m_cur /\ i <= to
      <4>1. i - p.m_cur \in 1..Len(s)
        BY <1>1, <1>3, <3>1
      <4>2. QED
        BY <3>1, <4>1
    <3>2. CASE ~ (i > p.m_cur /\ i <= to)
      BY <1>3, <3>2
    <3>3. QED
      BY <3>1, <3>2
  <2>2. QED
    BY <1>3, <2>1
<1>6. \A i \in 1..p.m_cur : b[i] = p.m_buff[i]
  BY <1>2, <1>3
<1>7. \A i \in 1..Len(s) : b[p.m_cur + i] = s[i]
  <2>1. TAKE i \in 1..Len(s)
  <2>2. /\ p.m_cur + i \in 1..Len(q.m_buff)
        /\ p.m_cur + i > p.m_cur
        /\ p.m_cur + i <= to
        /\ (p.m_cur + i) - p.m_cur = i
    BY <1>1, <1>3
  <2>3. QED
    BY <2>2
<1> HIDE DEF b
<1>8. [m_buff |-> b, m_cur |-> to] \in Packets
  BY <1>3, <1>5 DEF Packets
<1>9. QED
  BY <1>4, <1>6, <1>7, <1>8

(* What is written with one call is read back by one of the same length,   *)
(* from the same place, whatever the packet held before: a grown buffer    *)
(* loses nothing and a reused one mixes nothing in.                        *)
THEOREM WrittenIsRead ==
  ASSUME NEW p \in Packets, NEW s \in Seq(Byte)
  PROVE  LET w == [writeForward(p, s) EXCEPT !.m_cur = p.m_cur]
         IN  w \in Packets /\ Ahead(w, Len(s)) = s
<1> DEFINE v == writeForward(p, s)
           w == [m_buff |-> v.m_buff, m_cur |-> p.m_cur]
<1>1. /\ v \in Packets
      /\ v.m_cur = p.m_cur + Len(s)
      /\ \A i \in 1..Len(s) : v.m_buff[p.m_cur + i] = s[i]
  BY WriteForwardWrites
<1> HIDE DEF v
<1>2. Len(s) \in Nat /\ p.m_cur \in Nat
  BY BytesLeftType
<1>3. /\ v.m_buff \in Seq(Byte)
      /\ Len(v.m_buff) \in Nat
      /\ p.m_cur + Len(s) <= Len(v.m_buff)
  BY <1>1, BytesLeftType DEF Packets
<1>4. w \in Packets /\ Len(s) <= bytesLeft(w)
  BY <1>2, <1>3 DEF Packets, bytesLeft
<1>5. /\ Ahead(w, Len(s)) \in Seq(Byte)
      /\ Len(Ahead(w, Len(s))) = Len(s)
      /\ \A i \in 1..Len(s) : Ahead(w, Len(s))[i] = w.m_buff[w.m_cur + i]
  BY <1>2, <1>4, AheadBytes
<1>6. \A i \in 1..Len(s) : Ahead(w, Len(s))[i] = s[i]
  BY <1>1, <1>5
<1>7. Ahead(w, Len(s)) = s
  BY <1>5, <1>6
<1>8. [v EXCEPT !.m_cur = p.m_cur] = w
  BY <1>1 DEF Packets
<1>9. QED
  BY <1>4, <1>7, <1>8 DEF v
-----------------------------------------------------------------------------
(* Division of natural numbers.                                            *)
LEMMA Division ==
  ASSUME NEW x \in Nat, NEW b \in Nat \ {0}
  PROVE  /\ x \div b \in Nat /\ x % b \in 0..(b - 1)
         /\ x = (x \div b) * b + (x % b)
  OBVIOUS

LEMMA DivisionIs ==
  ASSUME NEW b \in Nat \ {0}, NEW q \in Nat, NEW r \in 0..(b - 1)
  PROVE  (q * b + r) \div b = q /\ (q * b + r) % b = r
  OBVIOUS

LEMMA DivisionTwice ==
  ASSUME NEW x \in Nat, NEW b \in Nat \ {0}, NEW p \in Nat \ {0}
  PROVE  x \div (b * p) = (x \div p) \div b
  OBVIOUS

LEMMA DivisionSmall ==
  ASSUME NEW b \in Nat \ {0}, NEW x \in 0..(b - 1)
  PROVE  x \div b = 0 /\ x % b = x
  OBVIOUS

(* The powers of Base.                                                     *)
LEMMA PowerValues ==
  /\ \A i \in 0..DWordSize : Power[i] \in Nat \ {0}
  /\ Power[0] = 1
  /\ \A i \in 1..DWordSize : Power[i] = Base * Power[i - 1]
<1> DEFINE Rec(g) == g = [n \in 0..DWordSize |-> IF n = 0 THEN 1 ELSE Base * g[n - 1]]
           step == [i \in 1..DWordSize |-> [m \in Nat |-> Base * m]]
<1>1. DWordSize \in Nat /\ Base \in Nat \ {0} /\ 1 \in Nat
  BY PacketAssumption
<1>2. IsStep(step, DWordSize, Nat)
  BY <1>1 DEF IsStep
<1>3. \A i \in 1..DWordSize, m \in Nat : step[i][m] = Base * m
  OBVIOUS
<1> HIDE DEF step
<1> DEFINE f == Recursion(DWordSize, Nat, 1, step)
<1>4. /\ f \in [0..DWordSize -> Nat] /\ f[0] = 1
      /\ \A i \in 1..DWordSize : f[i] = step[i][f[i - 1]]
  <2>1. IsRecursive(f, DWordSize, Nat, 1, step)
    BY <1>1, <1>2, RecursionDefines
  <2> QED
    BY <2>1 DEF IsRecursive
<1> HIDE DEF f
<1>5. ASSUME NEW i \in 1..DWordSize
      PROVE  f[i] = Base * f[i - 1]
  <2>1. i - 1 \in 0..DWordSize /\ f[i - 1] \in Nat
    BY <1>1, <1>4
  <2> QED
    BY <1>3, <1>4, <2>1
<1>6. Rec(f)
  BY <1>1, <1>4, <1>5
<1>7. Power = CHOOSE g : Rec(g)
  BY DEF Power
<1>8. Rec(Power)
  BY <1>6, <1>7
<1>9. Power[0] = 1 /\ \A i \in 1..DWordSize : Power[i] = Base * Power[i - 1]
  BY <1>1, <1>8
<1> DEFINE S == {i \in 0..DWordSize : Power[i] \in Nat \ {0}}
<1>10. 0 \in S
  BY <1>1, <1>9
<1>11. ASSUME NEW i \in 0..(DWordSize - 1), i \in S
       PROVE  i + 1 \in S
  <2>1. i + 1 \in 1..DWordSize /\ (i + 1) - 1 = i
    BY <1>1
  <2>2. Power[i + 1] = Base * Power[i]
    BY <1>9, <2>1
  <2>3. Base * Power[i] \in Nat \ {0}
    BY <1>1, <1>11
  <2> QED
    BY <1>1, <2>1, <2>2, <2>3
<1> HIDE DEF S
<1>12. \A i \in 0..DWordSize : i \in S
  BY <1>1, <1>10, <1>11, IntervalInduction
<1> QED
  BY <1>9, <1>12 DEF S

LEMMA WordsValues ==
  /\ Words \in Nat \ {0} /\ Words \div 2 \in Nat \ {0}
  /\ Words = 2 * (Words \div 2)
<1> DEFINE p == Power[DWordSize - 1]
<1>1. /\ Base \in Nat /\ Base # 0 /\ Base % 2 = 0
      /\ DWordSize - 1 \in 0..DWordSize /\ DWordSize \in 1..DWordSize
  BY PacketAssumption
<1>2. p \in Nat \ {0} /\ Words = Base * p
  BY <1>1, PowerValues DEF Words
<1> HIDE DEF p
<1>3. PICK h \in Nat \ {0} : Base = 2 * h
  <2>1. Base = 2 * (Base \div 2) /\ Base \div 2 \in Nat \ {0}
    BY <1>1
  <2> QED
    BY <2>1
<1>4. Words = 2 * (h * p) /\ h * p \in Nat \ {0}
  BY <1>2, <1>3
<1> QED
  BY <1>4
-----------------------------------------------------------------------------
(* The unsigned number of DWordSize bytes is the last of a recursion.      *)
IsUnsigned(f, s) ==
    /\ f \in [0..DWordSize -> Nat] /\ f[0] = 0
    /\ \A i \in 1..DWordSize : f[i] = f[i - 1] * Base + s[i]

LEMMA UnsignedValue ==
  ASSUME NEW s \in Seq(Byte), Len(s) = DWordSize
  PROVE  \E f : IsUnsigned(f, s) /\ f[DWordSize] = Unsigned(s)
<1> DEFINE Rec(g) == g = [n \in 0..DWordSize |-> IF n = 0 THEN 0 ELSE g[n - 1] * Base + s[n]]
           step == [i \in 1..DWordSize |-> [m \in Nat |-> m * Base + s[i]]]
<1>1. DWordSize \in Nat \ {0} /\ Base \in Nat \ {0} /\ 0 \in Nat
  BY PacketAssumption
<1>2. \A i \in 1..DWordSize : s[i] \in Nat
  <2>1. ASSUME NEW i \in 1..DWordSize
        PROVE  s[i] \in Byte
    BY ElementOfSeq
  <2> QED
    BY <1>1, <2>1 DEF Byte
<1>3. IsStep(step, DWordSize, Nat)
  <2>1. ASSUME NEW i \in 1..DWordSize, NEW m \in Nat
        PROVE  m * Base + s[i] \in Nat
    BY <1>1, <1>2
  <2> QED
    BY <2>1 DEF IsStep
<1>4. \A i \in 1..DWordSize, m \in Nat : step[i][m] = m * Base + s[i]
  OBVIOUS
<1> HIDE DEF step
<1> DEFINE f == Recursion(DWordSize, Nat, 0, step)
<1>5. /\ f \in [0..DWordSize -> Nat] /\ f[0] = 0
      /\ \A i \in 1..DWordSize : f[i] = step[i][f[i - 1]]
  <2>1. IsRecursive(f, DWordSize, Nat, 0, step)
    BY <1>1, <1>3, RecursionDefines
  <2> QED
    BY <2>1 DEF IsRecursive
<1> HIDE DEF f
<1>6. ASSUME NEW i \in 1..DWordSize
      PROVE  f[i] = f[i - 1] * Base + s[i]
  <2>1. i - 1 \in 0..DWordSize /\ f[i - 1] \in Nat
    BY <1>1, <1>5
  <2> QED
    BY <1>4, <1>5, <2>1
<1>7. Rec(f)
  BY <1>1, <1>5, <1>6
<1> DEFINE u == CHOOSE g : Rec(g)
<1>8. Rec(u)
  BY <1>7
<1>9. Unsigned(s) = u[DWordSize]
  BY DEF Unsigned
<1> HIDE DEF u
<1>10. u[0] = 0 /\ \A i \in 1..DWordSize : u[i] = u[i - 1] * Base + s[i]
  BY <1>1, <1>8
<1> DEFINE S == {i \in 0..DWordSize : u[i] = f[i]}
<1>11. 0 \in S
  BY <1>1, <1>5, <1>10
<1>12. ASSUME NEW i \in 0..(DWordSize - 1), i \in S
       PROVE  i + 1 \in S
  <2>1. i + 1 \in 1..DWordSize /\ (i + 1) - 1 = i /\ i + 1 \in 0..DWordSize
    BY <1>1
  <2>2. u[i] = f[i]
    BY <1>12
  <2>3. u[i + 1] = u[i] * Base + s[i + 1] /\ f[i + 1] = f[i] * Base + s[i + 1]
    BY <1>6, <1>10, <2>1
  <2> QED
    BY <2>1, <2>2, <2>3
<1>13. DWordSize \in S
  <2> HIDE DEF S
  <2>1. \A i \in 0..DWordSize : i \in S
    BY <1>1, <1>11, <1>12, IntervalInduction
  <2> QED
    BY <1>1, <2>1
<1> QED
  BY <1>5, <1>6, <1>9, <1>13 DEF IsUnsigned

(* ... and of no other.                                                    *)
LEMMA UnsignedUnique ==
  ASSUME NEW s \in Seq(Byte), Len(s) = DWordSize, NEW f, IsUnsigned(f, s)
  PROVE  f[DWordSize] = Unsigned(s)
<1>1. PICK u : IsUnsigned(u, s) /\ u[DWordSize] = Unsigned(s)
  BY UnsignedValue
<1>2. DWordSize \in Nat \ {0}
  BY PacketAssumption
<1> DEFINE S == {i \in 0..DWordSize : u[i] = f[i]}
<1>3. 0 \in S
  BY <1>1, <1>2 DEF IsUnsigned
<1>4. ASSUME NEW i \in 0..(DWordSize - 1), i \in S
      PROVE  i + 1 \in S
  <2>1. i + 1 \in 1..DWordSize /\ (i + 1) - 1 = i /\ i + 1 \in 0..DWordSize
    BY <1>2
  <2>2. u[i] = f[i]
    BY <1>4
  <2>3. u[i + 1] = u[i] * Base + s[i + 1] /\ f[i + 1] = f[i] * Base + s[i + 1]
    BY <1>1, <2>1 DEF IsUnsigned
  <2> QED
    BY <2>1, <2>2, <2>3
<1>5. DWordSize \in S
  <2> HIDE DEF S
  <2>1. \A i \in 0..DWordSize : i \in S
    BY <1>2, <1>3, <1>4, IntervalInduction
  <2> QED
    BY <1>2, <2>1
<1> QED
  BY <1>1, <1>5
-----------------------------------------------------------------------------
(* The bytes of a number, and the number of the bytes.                     *)
LEMMA htonlBytes ==
  ASSUME NEW v \in Int
  PROVE  htonl(v) \in Seq(Byte) /\ Len(htonl(v)) = DWordSize
<1> DEFINE x == v % Words
<1>1. Words \in Nat \ {0} /\ DWordSize \in Nat \ {0} /\ Base \in Nat \ {0}
  BY WordsValues, PacketAssumption
<1>2. x \in Nat
  BY <1>1
<1> HIDE DEF x
<1>3. ASSUME NEW i \in 1..DWordSize
      PROVE  (x \div Power[DWordSize - i]) % Base \in Byte
  <2>1. DWordSize - i \in 0..DWordSize
    BY <1>1
  <2>2. x \div Power[DWordSize - i] \in Nat
    BY <1>2, <2>1, PowerValues, Division
  <2> QED
    BY <1>1, <2>2, Division DEF Byte
<1>4. htonl(v) \in [1..DWordSize -> Byte]
  BY <1>3 DEF htonl, x
<1> QED
  BY <1>1, <1>4

LEMMA UnsignedOfBytes ==
  ASSUME NEW v \in Int
  PROVE  Unsigned(htonl(v)) = v % Words
<1> DEFINE x == v % Words
           s == htonl(v)
           f == [i \in 0..DWordSize |-> x \div Power[DWordSize - i]]
<1>1. Words \in Nat \ {0} /\ DWordSize \in Nat \ {0} /\ Base \in Nat \ {0}
  BY WordsValues, PacketAssumption
<1>2. x \in 0..(Words - 1) /\ x \in Nat
  BY <1>1
<1>3. \A i \in 1..DWordSize : s[i] = (x \div Power[DWordSize - i]) % Base
  BY <1>1 DEF htonl
<1>4. s \in Seq(Byte) /\ Len(s) = DWordSize
  BY htonlBytes
<1> HIDE DEF x, s
<1>5. ASSUME NEW i \in 0..DWordSize
      PROVE  x \div Power[DWordSize - i] \in Nat
  <2>1. DWordSize - i \in 0..DWordSize
    BY <1>1
  <2> QED
    BY <1>2, <2>1, PowerValues, Division
<1>6. f[0] = 0
  <2>1. DWordSize - 0 = DWordSize /\ 0 \in 0..DWordSize
    BY <1>1
  <2>2. x \div Words = 0
    BY <1>1, <1>2, DivisionSmall
  <2> QED
    BY <2>1, <2>2 DEF Words
<1>7. ASSUME NEW i \in 1..DWordSize
      PROVE  f[i] = f[i - 1] * Base + s[i]
  <2> DEFINE p == Power[DWordSize - i]
             q == x \div p
  <2>1. /\ DWordSize - i \in 0..DWordSize /\ i - 1 \in 0..DWordSize /\ i \in 0..DWordSize
        /\ DWordSize - (i - 1) \in 1..DWordSize
        /\ (DWordSize - (i - 1)) - 1 = DWordSize - i
    BY <1>1
  <2>2. p \in Nat \ {0} /\ Power[DWordSize - (i - 1)] = Base * p
    BY <2>1, PowerValues
  <2>3. f[i] = q /\ f[i - 1] = x \div (Base * p)
    BY <2>1, <2>2
  <2>4. s[i] = q % Base
    BY <1>3
  <2> HIDE DEF p, f
  <2>5. x \div (Base * p) = q \div Base
    BY <1>1, <1>2, <2>2, DivisionTwice
  <2>6. q \in Nat
    BY <1>2, <2>2, Division
  <2> HIDE DEF q
  <2>7. q = (q \div Base) * Base + (q % Base)
    BY <1>1, <2>6, Division
  <2> QED
    BY <2>3, <2>4, <2>5, <2>7
<1>8. IsUnsigned(f, s)
  BY <1>5, <1>6, <1>7 DEF IsUnsigned
<1>9. f[DWordSize] = x
  <2>1. DWordSize - DWordSize = 0 /\ DWordSize \in 0..DWordSize
    BY <1>1
  <2>2. x \div 1 = x
    BY <1>2
  <2> QED
    BY <2>1, <2>2, PowerValues
<1> HIDE DEF f
<1>10. f[DWordSize] = Unsigned(s)
  BY <1>4, <1>8, UnsignedUnique
<1> QED
  BY <1>9, <1>10 DEF x, s

LEMMA BytesOfUnsigned ==
  ASSUME NEW s \in Seq(Byte), Len(s) = DWordSize
  PROVE  /\ Unsigned(s) \in 0..(Words - 1)
         /\ \A i \in 1..DWordSize : s[i] = (Unsigned(s) \div Power[DWordSize - i]) % Base
<1>1. Words \in Nat \ {0} /\ DWordSize \in Nat \ {0} /\ Base \in Nat \ {0}
  BY WordsValues, PacketAssumption
<1>2. \A i \in 1..DWordSize : s[i] \in 0..(Base - 1)
  <2>1. ASSUME NEW i \in 1..DWordSize
        PROVE  s[i] \in Byte
    BY ElementOfSeq
  <2> QED
    BY <2>1 DEF Byte
<1>3. PICK f : IsUnsigned(f, s) /\ f[DWordSize] = Unsigned(s)
  BY UnsignedValue
<1>4. /\ \A i \in 0..DWordSize : f[i] \in Nat
      /\ f[0] = 0 /\ \A i \in 1..DWordSize : f[i] = f[i - 1] * Base + s[i]
  BY <1>3 DEF IsUnsigned
<1> DEFINE S == {i \in 0..DWordSize : f[i] \in 0..(Power[i] - 1)}
<1>5. 0 \in S
  BY <1>1, <1>4, PowerValues
<1>6. ASSUME NEW i \in 0..(DWordSize - 1), i \in S
      PROVE  i + 1 \in S
  <2>1. i + 1 \in 1..DWordSize /\ (i + 1) - 1 = i /\ i + 1 \in 0..DWordSize /\ i \in 0..DWordSize
    BY <1>1
  <2> DEFINE p == Power[i]
             q == f[i]
             d == s[i + 1]
  <2>2. p \in Nat \ {0} /\ Power[i + 1] = Base * p /\ q \in 0..(p - 1) /\ d \in 0..(Base - 1)
    BY <1>2, <1>6, <2>1, PowerValues
  <2>3. f[i + 1] = q * Base + d
    BY <1>4, <2>1
  <2> HIDE DEF p, q, d
  <2>4. q * Base + d \in 0..(Base * p - 1)
    <3>1. q * Base <= (p - 1) * Base
      BY <1>1, <2>2
    <3>2. (p - 1) * Base = Base * p - Base
      BY <1>1, <2>2
    <3>3. q * Base \in Nat /\ Base * p \in Nat
      BY <1>1, <2>2
    <3> HIDE DEF S
    <3> QED
      BY <1>1, <2>2, <3>1, <3>2, <3>3
  <2> QED
    BY <2>1, <2>2, <2>3, <2>4
<1>7. \A i \in 0..DWordSize : i \in S
  <2> HIDE DEF S
  <2> QED
    BY <1>1, <1>5, <1>6, IntervalInduction
<1>8. Unsigned(s) \in 0..(Words - 1)
  <2>1. DWordSize \in S
    BY <1>1, <1>7
  <2> QED
    BY <1>3, <2>1 DEF Words
<1> HIDE DEF S
<1> DEFINE x == Unsigned(s)
           R == {k \in 0..DWordSize : f[DWordSize - k] = x \div Power[k]}
<1>9. x \in Nat
  BY <1>1, <1>8
<1> HIDE DEF x
<1>10. 0 \in R
  <2>1. DWordSize - 0 = DWordSize /\ 0 \in 0..DWordSize
    BY <1>1
  <2>2. x \div 1 = x
    BY <1>9
  <2> QED
    BY <1>3, <2>1, <2>2, PowerValues DEF x
<1>11. ASSUME NEW k \in 0..(DWordSize - 1), k \in R
       PROVE  k + 1 \in R
  <2> DEFINE p == Power[k]
             i == DWordSize - k
             q == f[i - 1]
             d == s[i]
  <2>1. /\ k \in 0..DWordSize /\ k + 1 \in 1..DWordSize /\ (k + 1) - 1 = k /\ k + 1 \in 0..DWordSize
        /\ i \in 1..DWordSize /\ i - 1 \in 0..DWordSize /\ DWordSize - (k + 1) = i - 1
    BY <1>1
  <2>2. p \in Nat \ {0} /\ Power[k + 1] = Base * p
    BY <2>1, PowerValues
  <2>3. f[i] = x \div p
    BY <1>11
  <2>4. q \in Nat /\ d \in 0..(Base - 1) /\ f[i] = q * Base + d
    BY <1>2, <1>4, <2>1
  <2> HIDE DEF p, q, d
  <2>5. q = f[i] \div Base
    BY <1>1, <2>4, DivisionIs
  <2>6. x \div (Base * p) = (x \div p) \div Base
    BY <1>1, <1>9, <2>2, DivisionTwice
  <2>7. f[DWordSize - (k + 1)] = x \div Power[k + 1]
    BY <2>1, <2>2, <2>3, <2>5, <2>6 DEF q
  <2> QED
    BY <2>1, <2>7
<1>12. \A k \in 0..DWordSize : k \in R
  <2> HIDE DEF R
  <2> QED
    BY <1>1, <1>10, <1>11, IntervalInduction
<1>13. ASSUME NEW i \in 1..DWordSize
       PROVE  s[i] = (x \div Power[DWordSize - i]) % Base
  <2> DEFINE q == f[i - 1]
             d == s[i]
  <2>1. /\ DWordSize - i \in 0..DWordSize /\ DWordSize - (DWordSize - i) = i
        /\ i - 1 \in 0..DWordSize
    BY <1>1
  <2>2. f[i] = x \div Power[DWordSize - i]
    <3>1. DWordSize - i \in R
      BY <1>12, <2>1
    <3> QED
      BY <2>1, <3>1
  <2>3. q \in Nat /\ d \in 0..(Base - 1) /\ f[i] = q * Base + d
    BY <1>2, <1>4, <2>1
  <2> HIDE DEF q, d, R
  <2>4. d = f[i] % Base
    BY <1>1, <2>3, DivisionIs
  <2> QED
    BY <2>2, <2>4 DEF d
<1> QED
  BY <1>8, <1>13 DEF x
(* The network byte order of int32_t (Packet.cpp, readForwardDWord and     *)
(* writeForwardDWord): what has been written is what is read, for every    *)
(* int32_t, the negative ones included; and any bytes are those of one     *)
(* int32_t.                                                                *)
THEOREM NetworkOrder ==
  /\ \A v \in Int32 : ntohl(htonl(v)) = v
  /\ \A s \in Seq(Byte) : Len(s) = DWordSize => ntohl(s) \in Int32 /\ htonl(ntohl(s)) = s
<1> DEFINE half == Words \div 2
<1>1. /\ Words \in Nat \ {0} /\ half \in Nat \ {0} /\ Words = 2 * half
      /\ DWordSize \in Nat \ {0} /\ Base \in Nat \ {0}
  BY WordsValues, PacketAssumption
<1>2. Int32 = -half..(half - 1)
  BY DEF Int32
<1> HIDE DEF half
<1>3. ASSUME NEW v \in Int32
      PROVE  ntohl(htonl(v)) = v
  <2>1. v \in Int /\ v \in -half..(half - 1)
    BY <1>1, <1>2
  <2>2. Unsigned(htonl(v)) = v % Words
    BY <2>1, UnsignedOfBytes
  <2>3. v % Words = IF v >= 0 THEN v ELSE v + Words
    BY <1>1, <2>1
  <2> QED
    BY <1>1, <2>1, <2>2, <2>3 DEF ntohl, half
<1>4. ASSUME NEW s \in Seq(Byte), Len(s) = DWordSize
      PROVE  ntohl(s) \in Int32 /\ htonl(ntohl(s)) = s
  <2> DEFINE x == Unsigned(s)
             v == ntohl(s)
  <2>1. x \in 0..(Words - 1) /\ \A i \in 1..DWordSize : s[i] = (x \div Power[DWordSize - i]) % Base
    BY <1>4, BytesOfUnsigned
  <2>2. v = IF x < half THEN x ELSE x - Words
    BY DEF ntohl, half
  <2> HIDE DEF v, x
  <2>3. v \in Int /\ v \in -half..(half - 1)
    BY <1>1, <2>1, <2>2
  <2>4. v % Words = x
    BY <1>1, <2>1, <2>2
  <2>5. htonl(v) = [i \in 1..DWordSize |-> (x \div Power[DWordSize - i]) % Base]
    BY <2>4 DEF htonl
  <2>6. htonl(v) \in Seq(Byte) /\ Len(htonl(v)) = DWordSize
    BY <2>3, htonlBytes
  <2>7. \A i \in 1..DWordSize : htonl(v)[i] = s[i]
    BY <2>1, <2>5
  <2>8. htonl(v) = s
    BY <1>4, <2>6, <2>7, SeqEqual
  <2> QED
    BY <1>2, <2>3, <2>8 DEF v
<1> QED
  BY <1>3, <1>4
-----------------------------------------------------------------------------
(* Where a scan of the line input or of getline stops.                     *)
LEMMA FirstInStops ==
  ASSUME NEW T, NEW s \in Seq(T), NEW S, NEW i \in 1..(Len(s) + 1)
  PROVE  StopsAt(s, S, i, FirstIn(s, S, i))
<1>1. PICK j : StopsAt(s, S, i, j)
  BY StopsSomewhere
<1>2. Len(s) \in Nat
  OBVIOUS
<1>3. CASE j <= Len(s)
  <2>1. j \in i..Len(s) /\ s[j] \in S /\ \A k \in i..(j - 1) : s[k] \notin S
    BY <1>1, <1>2, <1>3 DEF StopsAt
  <2> DEFINE u == CHOOSE u \in i..Len(s) : s[u] \in S /\ \A k \in i..(u - 1) : s[k] \notin S
  <2>2. u \in i..Len(s) /\ s[u] \in S /\ \A k \in i..(u - 1) : s[k] \notin S
    BY <2>1
  <2>3. FirstIn(s, S, i) = u
    BY <2>1 DEF FirstIn
  <2> HIDE DEF u
  <2> QED
    BY <1>2, <2>2, <2>3 DEF StopsAt
<1>4. CASE ~(j <= Len(s))
  <2>1. \A k \in i..Len(s) : s[k] \notin S
    BY <1>1, <1>2, <1>4 DEF StopsAt
  <2>2. FirstIn(s, S, i) = Len(s) + 1
    BY <2>1 DEF FirstIn
  <2> QED
    BY <1>2, <2>1, <2>2 DEF StopsAt
<1> QED
  BY <1>3, <1>4

LEMMA FirstInIs ==
  ASSUME NEW T, NEW s \in Seq(T), NEW S, NEW i \in 1..(Len(s) + 1),
         NEW j, StopsAt(s, S, i, j)
  PROVE  FirstIn(s, S, i) = j
<1>1. StopsAt(s, S, i, FirstIn(s, S, i))
  BY FirstInStops
<1> QED
  BY <1>1, StopsOnce

-----------------------------------------------------------------------------
(* The pieces of a string: where the k-th begins and what ends it.         *)
PieceAt(s, c, k) == CHOOSE i \in PieceStarts(s, c) : PiecesUpto(s, c, i) = k
PieceEnd(s, c, k) == FirstIn(s, {c}, PieceAt(s, c, k))

LEMMA PieceStartsType ==
  ASSUME NEW T, NEW s \in Seq(T), NEW c
  PROVE  LET S == PieceStarts(s, c)
         IN  /\ S \subseteq Nat /\ S \subseteq 1..Len(s) /\ IsFiniteSet(S)
             /\ Cardinality(S) \in Nat
             /\ \A i \in S : i \in 1..Len(s) /\ (i = 1 \/ s[i - 1] = c)
             /\ \A i \in 1..Len(s) : i = 1 \/ s[i - 1] = c => i \in S
             /\ \A i : PiecesUpto(s, c, i) = Rank(S, i)
<1> DEFINE S == PieceStarts(s, c)
<1>1. Len(s) \in Nat
  OBVIOUS
<1>2. S \subseteq 1..Len(s)
  BY DEF PieceStarts
<1>3. IsFiniteSet(1..Len(s))
  BY <1>1, FS_Interval
<1>4. IsFiniteSet(S)
  BY <1>2, <1>3, FS_Subset
<1>5. Cardinality(S) \in Nat
  BY <1>4, FS_CardinalityType
<1>6. S \subseteq Nat
  BY <1>1, <1>2
<1>7. /\ \A i \in S : i \in 1..Len(s) /\ (i = 1 \/ s[i - 1] = c)
      /\ \A i \in 1..Len(s) : i = 1 \/ s[i - 1] = c => i \in S
  BY <1>1 DEF PieceStarts
<1>8. \A i : PiecesUpto(s, c, i) = Rank(S, i)
  BY DEF PiecesUpto, Rank
<1> QED
  BY <1>2, <1>4, <1>5, <1>6, <1>7, <1>8

(* A piece goes from its beginning to the next c.                          *)
LEMMA PieceFound ==
  ASSUME NEW T, NEW s \in Seq(T), NEW c, NEW k \in 1..Cardinality(PieceStarts(s, c))
  PROVE  LET i == PieceAt(s, c, k)
             e == PieceEnd(s, c, k)
         IN  /\ i \in PieceStarts(s, c) /\ Rank(PieceStarts(s, c), i) = k
             /\ i \in 1..Len(s) /\ e \in i..(Len(s) + 1)
             /\ \A j \in i..(e - 1) : s[j] # c
             /\ e <= Len(s) => s[e] = c
             /\ Pieces(s, c)[k] = SubSeq(s, i, e - 1)
             /\ Pieces(s, c)[k] \in Seq(T) /\ Len(Pieces(s, c)[k]) = e - i
             /\ \A j \in 1..(e - i) : Pieces(s, c)[k][j] = s[i + j - 1]
<1> DEFINE S == PieceStarts(s, c)
           i == PieceAt(s, c, k)
           e == PieceEnd(s, c, k)
           p == Pieces(s, c)[k]
<1>1. S \subseteq Nat /\ IsFiniteSet(S) /\ Len(s) \in Nat
  BY PieceStartsType
<1>2. \E j \in S : Rank(S, j) = k
  BY <1>1, Ranked
<1>3. i \in S /\ Rank(S, i) = k
  <2>1. \E j \in S : PiecesUpto(s, c, j) = k
    BY <1>2, PieceStartsType
  <2>2. i \in S /\ PiecesUpto(s, c, i) = k
    BY <2>1 DEF PieceAt
  <2> QED
    BY <2>2, PieceStartsType
<1>4. p = SubSeq(s, i, e - 1)
  BY DEF Pieces, PieceFrom, PieceAt, PieceEnd
<1>5. i \in 1..Len(s)
  BY <1>3, PieceStartsType
<1>6. StopsAt(s, {c}, i, e)
  <2>1. i \in 1..(Len(s) + 1)
    BY <1>1, <1>5
  <2> QED
    BY <2>1, FirstInStops DEF PieceEnd
<1> HIDE DEF i, e, p, S
<1>7. /\ e \in i..(Len(s) + 1) /\ \A j \in i..(e - 1) : s[j] # c
      /\ e <= Len(s) => s[e] = c
  BY <1>6 DEF StopsAt
<1>8. /\ p \in Seq(T) /\ Len(p) = e - i
      /\ \A j \in 1..(e - i) : p[j] = s[i + j - 1]
  <2>1. i \in 1..(Len(s) + 1) /\ e - 1 \in 0..Len(s) /\ i <= (e - 1) + 1 /\ (e - 1) - i + 1 = e - i
    BY <1>1, <1>5, <1>7
  <2> QED
    BY <1>4, <2>1, Part
<1> QED
  BY <1>3, <1>4, <1>5, <1>7, <1>8 DEF i, e, p, S

(* The first begins at 1, the next behind the end of one, and the last     *)
(* leaves nothing.                                                         *)
LEMMA PiecesInRow ==
  ASSUME NEW T, NEW s \in Seq(T), NEW c
  PROVE  LET n == Cardinality(PieceStarts(s, c))
         IN  /\ n \in Nat /\ (n = 0 <=> s = <<>>) /\ Len(Pieces(s, c)) = n
             /\ n > 0 => PieceAt(s, c, 1) = 1 /\ PieceEnd(s, c, n) >= Len(s)
             /\ \A k \in 1..(n - 1) : PieceAt(s, c, k + 1) = PieceEnd(s, c, k) + 1
             /\ \A k \in 1..(n - 1) : PieceEnd(s, c, k) < Len(s)
<1> DEFINE S == PieceStarts(s, c)
           n == Cardinality(S)
           At(k) == PieceAt(s, c, k)
           End(k) == PieceEnd(s, c, k)
<1>1. /\ S \subseteq Nat /\ IsFiniteSet(S) /\ Len(s) \in Nat /\ n \in Nat
      /\ \A i \in S : i \in 1..Len(s) /\ (i = 1 \/ s[i - 1] = c)
      /\ \A i \in 1..Len(s) : i = 1 \/ s[i - 1] = c => i \in S
  BY PieceStartsType
<1>2. \A k \in 1..n :
        /\ At(k) \in S /\ Rank(S, At(k)) = k
        /\ At(k) \in 1..Len(s) /\ End(k) \in At(k)..(Len(s) + 1)
        /\ \A j \in At(k)..(End(k) - 1) : s[j] # c
        /\ End(k) <= Len(s) => s[End(k)] = c
  BY PieceFound
<1>3. Len(Pieces(s, c)) = n
  BY <1>1 DEF Pieces
<1>4. /\ \A i \in S : Rank(S, i) \in 1..n
      /\ \A i, j \in S : Rank(S, i) = Rank(S, j) => i = j
  BY <1>1, Ranked
<1> HIDE DEF S, n, At, End
<1>5. n = 0 <=> s = <<>>
  <2>1. ASSUME s = <<>>
        PROVE  n = 0
    <3>1. ~(1 \in 1..n)
      <4>1. Len(s) = 0
        BY <2>1
      <4> QED
        BY <1>2, <4>1
    <3> QED
      BY <1>1, <3>1
  <2>2. ASSUME s # <<>>
        PROVE  n # 0
    <3>1. 1 \in 1..Len(s)
      BY <2>2
    <3>2. Rank(S, 1) \in 1..n
      BY <1>1, <1>4, <3>1
    <3> QED
      BY <1>1, <3>2
  <2> QED
    BY <2>1, <2>2
<1>6. ASSUME n > 0
      PROVE  At(1) = 1
  <2>1. 1 \in 1..n /\ 1 \in 1..Len(s)
    BY <1>1, <1>2, <1>6
  <2>2. 1 \in S
    BY <1>1, <2>1
  <2>3. Rank(S, 1) \in 1..n /\ At(1) \in S /\ Rank(S, At(1)) = 1
    BY <1>2, <1>4, <2>1, <2>2
  <2>4. ~(1 < At(1))
    <3>1. 1 < At(1) => Rank(S, 1) < Rank(S, At(1))
      BY <1>1, <2>3, RankGrows
    <3> QED
      BY <1>1, <2>3, <3>1
  <2>5. At(1) \in 1..Len(s)
    BY <1>2, <2>1
  <2> QED
    BY <1>1, <2>4, <2>5
<1>7. ASSUME NEW k \in 1..n, End(k) < Len(s)
      PROVE  k + 1 \in 1..n /\ At(k + 1) = End(k) + 1
  <2> DEFINE i == At(k)
             e == End(k)
  <2>1. /\ i \in S /\ Rank(S, i) = k /\ i \in 1..Len(s) /\ e \in i..(Len(s) + 1)
        /\ \A j \in i..(e - 1) : s[j] # c
        /\ e <= Len(s) => s[e] = c
    BY <1>2
  <2>2. e < Len(s)
    BY <1>7
  <2> HIDE DEF i, e
  <2>3. e + 1 \in S
    <3>1. (e + 1) - 1 = e /\ e + 1 \in 1..Len(s) /\ s[e] = c
      BY <1>1, <2>1, <2>2
    <3> QED
      BY <1>1, <3>1
  <2>4. ASSUME NEW j \in S, j > i
        PROVE  j >= e + 1
    <3>1. j \in 1..Len(s) /\ (j = 1 \/ s[j - 1] = c)
      BY <1>1
    <3>2. ~(j - 1 \in i..(e - 1))
      BY <1>1, <2>1, <2>4, <3>1
    <3> QED
      BY <1>1, <2>1, <2>4, <3>1, <3>2
  <2>5. e + 1 > i /\ i \in Nat
    BY <1>1, <2>1
  <2>6. Rank(S, e + 1) = k + 1
    BY <1>1, <2>1, <2>3, <2>4, <2>5, RankStep
  <2>7. k + 1 \in 1..n
    BY <1>4, <2>3, <2>6
  <2>8. At(k + 1) \in S /\ Rank(S, At(k + 1)) = k + 1
    BY <1>2, <2>7
  <2> QED
    BY <1>4, <2>3, <2>6, <2>7, <2>8 DEF e
<1>8. ASSUME NEW k \in 1..n, k + 1 \in 1..n
      PROVE  End(k) < Len(s)
  <2> DEFINE i == At(k)
             e == End(k)
             j == At(k + 1)
  <2>1. /\ i \in S /\ Rank(S, i) = k /\ i \in 1..Len(s) /\ e \in i..(Len(s) + 1)
        /\ \A h \in i..(e - 1) : s[h] # c
    BY <1>2
  <2>2. j \in S /\ Rank(S, j) = k + 1 /\ j \in 1..Len(s)
    BY <1>2, <1>8
  <2> HIDE DEF i, e, j
  <2>3. ~(j < i)
    <3>1. j \in Nat /\ i \in Nat
      BY <1>1, <2>1, <2>2
    <3>2. j < i => Rank(S, j) < Rank(S, i)
      BY <1>1, <2>1, <3>1, RankGrows
    <3> QED
      BY <1>1, <2>1, <2>2, <3>2
  <2>4. j # i
    BY <1>1, <2>1, <2>2
  <2>5. s[j - 1] = c /\ j - 1 >= i
    BY <1>1, <2>1, <2>2, <2>3, <2>4
  <2>6. ~(j - 1 \in i..(e - 1))
    BY <2>1, <2>5
  <2>7. e < Len(s)
    BY <1>1, <2>1, <2>2, <2>5, <2>6
  <2> QED
    BY <2>7 DEF e
<1>9. ASSUME n > 0
      PROVE  End(n) >= Len(s)
  <2>1. n \in 1..n /\ ~(n + 1 \in 1..n)
    BY <1>1, <1>9
  <2>2. ~(End(n) < Len(s))
    BY <1>7, <2>1
  <2>3. End(n) \in Int
    BY <1>1, <1>2, <2>1
  <2> QED
    BY <1>1, <2>2, <2>3
<1>10. \A k \in 1..(n - 1) : k \in 1..n /\ k + 1 \in 1..n
  BY <1>1
<1>11. \A k \in 1..(n - 1) : End(k) < Len(s) /\ At(k + 1) = End(k) + 1
  BY <1>7, <1>8, <1>10
<1> QED
  BY <1>1, <1>3, <1>5, <1>6, <1>9, <1>11 DEF S, n, At, End
(* The pieces with their ends, one after the other, are the string, to     *)
(* which a last end may have been missing.                                 *)
Closed(s, c) == IF s = <<>> \/ Last(s) = c THEN s ELSE Append(s, c)

LEMMA ClosedBytes ==
  ASSUME NEW T, NEW s \in Seq(T), NEW c \in T
  PROVE  /\ Closed(s, c) \in Seq(T) /\ Len(Closed(s, c)) \in Nat
         /\ Len(s) <= Len(Closed(s, c)) /\ Len(Closed(s, c)) <= Len(s) + 1
         /\ \A i \in 1..Len(s) : Closed(s, c)[i] = s[i]
         /\ Len(Closed(s, c)) = Len(s) + 1 => Closed(s, c)[Len(s) + 1] = c
         /\ Len(Closed(s, c)) = Len(s) <=> (s = <<>> \/ s[Len(s)] = c)
<1>1. Len(s) \in Nat /\ Last(s) = s[Len(s)]
  BY DEF Last
<1>2. /\ Append(s, c) \in Seq(T) /\ Len(Append(s, c)) = Len(s) + 1
      /\ \A i \in 1..Len(s) : Append(s, c)[i] = s[i]
      /\ Append(s, c)[Len(s) + 1] = c
  BY AppendProperties
<1>3. CASE s = <<>> \/ Last(s) = c
  <2>1. Closed(s, c) = s
    BY <1>3 DEF Closed
  <2> QED
    BY <1>1, <1>3, <2>1
<1>4. CASE ~(s = <<>> \/ Last(s) = c)
  <2>1. Closed(s, c) = Append(s, c)
    BY <1>4 DEF Closed
  <2> QED
    BY <1>1, <1>2, <1>4, <2>1
<1> QED
  BY <1>3, <1>4

LEMMA PiecesJoined ==
  ASSUME NEW T, NEW s \in Seq(T), NEW c \in T
  PROVE  FlattenSeq([k \in DOMAIN Pieces(s, c) |-> Append(Pieces(s, c)[k], c)]) = Closed(s, c)
<1> DEFINE n == Cardinality(PieceStarts(s, c))
           names == Pieces(s, c)
           full == Closed(s, c)
           seqs == [k \in 1..n |-> Append(names[k], c)]
           At(k) == PieceAt(s, c, k)
           End(k) == PieceEnd(s, c, k)
           Rec(g) == g = [i \in 1..Len(seqs) |-> IF i = 1 THEN seqs[i] ELSE g[i - 1] \o seqs[i]]
           part == [k \in 1..n |-> SubSeq(full, 1, End(k))]
<1>1. /\ n \in Nat /\ (n = 0 <=> s = <<>>) /\ Len(names) = n
      /\ n > 0 => At(1) = 1 /\ End(n) >= Len(s)
      /\ \A k \in 1..(n - 1) : At(k + 1) = End(k) + 1
      /\ \A k \in 1..(n - 1) : End(k) < Len(s)
  BY PiecesInRow
<1>2. \A k \in 1..n :
        /\ At(k) \in 1..Len(s) /\ End(k) \in At(k)..(Len(s) + 1)
        /\ \A j \in At(k)..(End(k) - 1) : s[j] # c
        /\ End(k) <= Len(s) => s[End(k)] = c
        /\ names[k] \in Seq(T) /\ Len(names[k]) = End(k) - At(k)
        /\ \A j \in 1..(End(k) - At(k)) : names[k][j] = s[At(k) + j - 1]
  BY PieceFound
<1>3. /\ full \in Seq(T) /\ Len(full) \in Nat /\ Len(s) \in Nat
      /\ Len(s) <= Len(full) /\ Len(full) <= Len(s) + 1
      /\ \A i \in 1..Len(s) : full[i] = s[i]
      /\ Len(full) = Len(s) + 1 => full[Len(s) + 1] = c
      /\ Len(full) = Len(s) <=> (s = <<>> \/ s[Len(s)] = c)
  BY ClosedBytes
<1>4. names = [k \in 1..n |-> names[k]] /\ DOMAIN names = 1..n
  BY DEF Pieces
<1>5. [k \in DOMAIN names |-> Append(names[k], c)] = seqs
  BY <1>4
<1>6. Len(seqs) = n /\ \A k \in 1..n : seqs[k] = Append(names[k], c)
  BY <1>1
<1> HIDE DEF n, names, full, At, End, seqs
<1>7. ASSUME NEW k \in 1..n
      PROVE  /\ End(k) \in 1..Len(full) /\ full[End(k)] = c
             /\ k = n => End(k) = Len(full)
  <2> DEFINE a == At(k)
             e == End(k)
  <2>1. /\ a \in 1..Len(s) /\ e \in a..(Len(s) + 1)
        /\ \A j \in a..(e - 1) : s[j] # c
        /\ e <= Len(s) => s[e] = c
    BY <1>2
  <2>2. k < n => e < Len(s)
    <3>1. k < n => k \in 1..(n - 1)
      BY <1>1
    <3> QED
      BY <1>1, <3>1
  <2>3. k = n => e >= Len(s)
    BY <1>1
  <2>4. k = n \/ k < n
    BY <1>1
  <2> HIDE DEF a, e
  <2>5. CASE e < Len(s)
    BY <1>1, <1>3, <2>1, <2>3, <2>5 DEF e
  <2>6. CASE e = Len(s)
    <3>1. s[Len(s)] = c
      BY <1>3, <2>1, <2>6
    <3>2. Len(full) = Len(s) /\ Len(s) \in 1..Len(s)
      BY <1>3, <2>1, <3>1
    <3> QED
      BY <1>3, <2>6, <3>1, <3>2 DEF e
  <2>7. CASE e = Len(s) + 1
    <3>1. Len(s) \in a..(e - 1)
      BY <1>3, <2>1, <2>7
    <3>2. s[Len(s)] # c /\ s # <<>>
      BY <2>1, <3>1
    <3>3. Len(full) = Len(s) + 1
      BY <1>3, <3>2
    <3> QED
      BY <1>3, <2>7, <3>3 DEF e
  <2> QED
    BY <1>3, <2>1, <2>5, <2>6, <2>7
<1>8. ASSUME NEW k \in 1..n
      PROVE  /\ part[k] \in Seq(T) /\ Len(part[k]) = End(k)
             /\ \A j \in 1..End(k) : part[k][j] = full[j]
  <2>1. /\ 1 \in 1..(Len(full) + 1) /\ End(k) \in 0..Len(full) /\ 1 <= End(k) + 1
        /\ End(k) - 1 + 1 = End(k)
    BY <1>3, <1>7
  <2>2. /\ part[k] \in Seq(T) /\ Len(part[k]) = End(k) - 1 + 1
        /\ \A j \in 1..(End(k) - 1 + 1) : part[k][j] = full[1 + j - 1]
    BY <1>3, <2>1, Part
  <2>3. \A j \in 1..End(k) : 1 + j - 1 = j
    BY <2>1
  <2> QED
    BY <2>1, <2>2, <2>3
<1>9. ASSUME NEW k \in 1..n
      PROVE  /\ seqs[k] \in Seq(T) /\ Len(seqs[k]) = End(k) - At(k) + 1
             /\ \A j \in 1..(End(k) - At(k) + 1) : seqs[k][j] = full[At(k) + j - 1]
  <2> DEFINE a == At(k)
             e == End(k)
             p == names[k]
  <2>1. /\ a \in 1..Len(s) /\ e \in a..(Len(s) + 1)
        /\ p \in Seq(T) /\ Len(p) = e - a
        /\ \A j \in 1..(e - a) : p[j] = s[a + j - 1]
    BY <1>2
  <2>2. full[e] = c
    BY <1>7
  <2>3. seqs[k] = Append(p, c)
    BY <1>6
  <2> HIDE DEF a, e, p
  <2>4. /\ Append(p, c) \in Seq(T) /\ Len(Append(p, c)) = Len(p) + 1
        /\ \A j \in 1..Len(p) : Append(p, c)[j] = p[j]
        /\ Append(p, c)[Len(p) + 1] = c
    <3>1. p \in Seq(T) /\ c \in T
      BY <2>1
    <3> QED
      BY <3>1, AppendProperties
  <2>5. ASSUME NEW j \in 1..(e - a + 1)
        PROVE  Append(p, c)[j] = full[a + j - 1]
    <3>1. CASE j = e - a + 1
      <4>1. a + j - 1 = e /\ j = Len(p) + 1
        BY <1>3, <2>1, <3>1
      <4> QED
        BY <2>2, <2>4, <4>1
    <3>2. CASE j # e - a + 1
      <4>1. j \in 1..(e - a) /\ a + j - 1 \in 1..Len(s)
        BY <1>3, <2>1, <3>2
      <4>2. Append(p, c)[j] = s[a + j - 1]
        BY <2>1, <2>4, <4>1
      <4>3. full[a + j - 1] = s[a + j - 1]
        BY <1>3, <4>1
      <4> QED
        BY <4>2, <4>3
    <3> QED
      BY <3>1, <3>2
  <2> QED
    BY <2>1, <2>3, <2>4, <2>5 DEF a, e
<1> HIDE DEF part
<1>10. ASSUME NEW k \in 1..n
       PROVE  part[k] = IF k = 1 THEN seqs[k] ELSE part[k - 1] \o seqs[k]
  <2>1. /\ At(k) \in 1..Len(s) /\ End(k) \in At(k)..(Len(s) + 1) /\ End(k) \in Nat
    BY <1>2, <1>3
  <2>2. CASE k = 1
    <3>1. At(k) = 1
      BY <1>1, <2>2
    <3>2. Len(seqs[k]) = End(k) /\ seqs[k] \in Seq(T) /\ \A j \in 1..End(k) : seqs[k][j] = full[j]
      <4>1. End(k) - 1 + 1 = End(k)
        BY <2>1
      <4>2. \A j \in 1..End(k) : 1 + j - 1 = j
        BY <2>1
      <4> QED
        BY <1>9, <3>1, <4>1, <4>2
    <3>3. part[k] = seqs[k]
      BY <1>8, <3>2, SeqEqual
    <3> QED
      BY <2>2, <3>3
  <2>3. CASE k # 1
    <3> DEFINE b == End(k - 1)
               x == part[k - 1]
               y == seqs[k]
    <3>1. k - 1 \in 1..(n - 1) /\ k - 1 \in 1..n /\ (k - 1) + 1 = k
      BY <1>1, <2>3
    <3>2. At(k) = b + 1 /\ b \in Nat
      <4>1. At((k - 1) + 1) = End(k - 1) + 1
        BY <1>1, <3>1
      <4>2. End(k - 1) \in Nat
        BY <1>3, <1>7, <3>1
      <4> QED
        BY <3>1, <4>1, <4>2
    <3>3. /\ x \in Seq(T) /\ Len(x) = b
          /\ \A j \in 1..b : x[j] = full[j]
      BY <1>8, <3>1
    <3>4. /\ y \in Seq(T) /\ Len(y) = End(k) - b
          /\ \A j \in 1..(End(k) - b) : y[j] = full[b + j]
      <4>1. End(k) - (b + 1) + 1 = End(k) - b
        BY <2>1, <3>2
      <4>2. \A j \in 1..(End(k) - b) : (b + 1) + j - 1 = b + j
        BY <2>1, <3>2
      <4> QED
        BY <1>9, <3>2, <4>1, <4>2
    <3> HIDE DEF b, x, y
    <3>5. /\ x \o y \in Seq(T) /\ Len(x \o y) = Len(x) + Len(y)
          /\ \A j \in 1..Len(x) : (x \o y)[j] = x[j]
          /\ \A j \in 1..Len(y) : (x \o y)[Len(x) + j] = y[j]
      <4>1. x \in Seq(T) /\ y \in Seq(T)
        BY <3>3, <3>4
      <4> QED
        BY <4>1, Joined
    <3>6. Len(x \o y) = End(k)
      BY <2>1, <3>2, <3>3, <3>4, <3>5
    <3>7. ASSUME NEW j \in 1..End(k)
          PROVE  (x \o y)[j] = full[j]
      <4>1. CASE j <= b
        BY <2>1, <3>2, <3>3, <3>5, <4>1
      <4>2. CASE j > b
        <5>1. j - b \in 1..(End(k) - b) /\ b + (j - b) = j
          BY <2>1, <3>2, <4>2
        <5>2. (x \o y)[Len(x) + (j - b)] = y[j - b]
          BY <3>4, <3>5, <5>1
        <5>3. Len(x) + (j - b) = j
          BY <3>3, <5>1
        <5>4. (x \o y)[j] = y[j - b]
          BY <5>2, <5>3
        <5>5. y[j - b] = full[b + (j - b)]
          BY <3>4, <5>1
        <5> QED
          BY <5>1, <5>4, <5>5
      <4>3. j \in Int /\ b \in Int
        BY <2>1, <3>2
      <4>4. j <= b \/ j > b
        BY <4>3
      <4> QED
        BY <4>1, <4>2, <4>4
    <3>8. part[k] = x \o y
      <4>1. /\ part[k] \in Seq(T) /\ Len(part[k]) = End(k)
            /\ \A j \in 1..End(k) : part[k][j] = full[j]
        BY <1>8
      <4>2. x \o y \in Seq(T) /\ Len(part[k]) = Len(x \o y)
        BY <3>5, <3>6, <4>1
      <4>3. \A j \in 1..Len(part[k]) : part[k][j] = (x \o y)[j]
        BY <3>7, <4>1
      <4> QED
        BY <4>1, <4>2, <4>3, SeqEqual
    <3> QED
      BY <2>3, <3>8 DEF x, y
  <2> QED
    BY <2>2, <2>3
<1>11. CASE n = 0
  <2>1. full = <<>> /\ seqs = <<>>
    BY <1>1, <1>6, <1>11 DEF full, Closed, seqs
  <2> QED
    BY <1>5, <1>6, <1>11, <2>1 DEF FlattenSeq, names, full
<1>12. CASE n # 0
  <2> DEFINE u == CHOOSE g : Rec(g)
  <2>1. FlattenSeq(seqs) = u[n]
    BY <1>6, <1>12 DEF FlattenSeq
  <2>2. Rec(part)
    <3>1. part = [k \in 1..n |-> part[k]]
      BY DEF part
    <3> QED
      BY <1>6, <1>10, <3>1
  <2>3. Rec(u)
    BY <2>2
  <2> HIDE DEF u
  <2>4. \A i \in 1..n : u[i] = IF i = 1 THEN seqs[i] ELSE u[i - 1] \o seqs[i]
    BY <1>6, <2>3
  <2> HIDE DEF Rec
  <2> DEFINE S == {k \in 0..(n - 1) : u[k + 1] = part[k + 1]}
  <2>5. n - 1 \in Nat
    BY <1>1, <1>12
  <2>6. 0 \in S
    <3>1. 1 \in 1..n /\ 0 + 1 = 1 /\ 0 \in 0..(n - 1)
      BY <1>1, <2>5
    <3> QED
      BY <1>10, <2>4, <3>1
  <2>7. ASSUME NEW k \in 0..((n - 1) - 1), k \in S
        PROVE  k + 1 \in S
    <3> DEFINE i == (k + 1) + 1
    <3>1. i \in 1..n /\ i # 1 /\ i - 1 = k + 1 /\ k + 1 \in 0..(n - 1)
      BY <1>1, <2>5
    <3>2. u[k + 1] = part[k + 1]
      BY <2>7
    <3>3. u[i] = u[k + 1] \o seqs[i] /\ part[i] = part[k + 1] \o seqs[i]
      <4> HIDE DEF i
      <4> QED
        BY <1>10, <2>4, <3>1
    <3> QED
      BY <3>1, <3>2, <3>3
  <2>8. n - 1 \in S
    <3> HIDE DEF S
    <3>1. \A k \in 0..(n - 1) : k \in S
      BY <2>5, <2>6, <2>7, IntervalInduction
    <3> QED
      BY <2>5, <3>1
  <2>9. u[n] = part[n]
    <3>1. (n - 1) + 1 = n
      BY <1>1
    <3> QED
      BY <2>8, <3>1
  <2>10. part[n] = full
    <3>1. n \in 1..n
      BY <1>1, <1>12
    <3>2. End(n) = Len(full)
      BY <1>7, <3>1
    <3> QED
      BY <1>3, <1>8, <3>1, <3>2, SeqEqual
  <2> QED
    BY <1>5, <2>1, <2>9, <2>10 DEF names, full
<1> QED
  BY <1>11, <1>12
(* The addressees of a mail (Server.cpp, splitDelimiterString with the     *)
(* commas of the To field): whatever bytes the field has, the names found  *)
(* in it have no comma, and written one after the other, each with a comma *)
(* behind it, they are the field; none is lost, added or cut.              *)
THEOREM RecipientsAreListed ==
  ASSUME NEW to \in Seq(Byte)
  PROVE  Lists(Recipients(to), to)
<1> DEFINE names == Pieces(to, Comma)
           n == Cardinality(PieceStarts(to, Comma))
<1>1. Comma \in Byte
  BY PathAssumption
<1>2. Recipients(to) = names
  BY DEF Recipients
<1>3. n \in Nat /\ Len(names) = n /\ DOMAIN names = 1..n
  <2>1. n \in Nat /\ Len(names) = n
    BY PiecesInRow
  <2>2. DOMAIN names = 1..n
    BY DEF Pieces
  <2> QED
    BY <2>1, <2>2
<1>4. ASSUME NEW k \in 1..n, NEW j \in DOMAIN names[k]
      PROVE  names[k][j] # Comma
  <2> DEFINE i == PieceAt(to, Comma, k)
             e == PieceEnd(to, Comma, k)
  <2>1. /\ i \in 1..Len(to) /\ e \in i..(Len(to) + 1)
        /\ \A m \in i..(e - 1) : to[m] # Comma
        /\ names[k] \in Seq(Byte) /\ Len(names[k]) = e - i
        /\ \A m \in 1..(e - i) : names[k][m] = to[i + m - 1]
    BY PieceFound
  <2> HIDE DEF i, e, names
  <2>2. j \in 1..(e - i)
    BY <1>4, <2>1
  <2>3. i + j - 1 \in i..(e - 1)
    BY <2>1, <2>2
  <2> QED
    BY <2>1, <2>2, <2>3
<1>5. FlattenSeq([k \in DOMAIN names |-> Append(names[k], Comma)]) = Closed(to, Comma)
  BY <1>1, PiecesJoined
<1>6. Closed(to, Comma) = IF to = <<>> \/ Last(to) = Comma THEN to ELSE Append(to, Comma)
  BY DEF Closed
<1> HIDE DEF names, n
<1> QED
  BY <1>2, <1>3, <1>4, <1>5, <1>6 DEF Lists

-----------------------------------------------------------------------------
(* A frame whose first at bytes have been read.                            *)
ReadUpto(frame, at) == [m_buff |-> frame, m_cur |-> at]

LEMMA ReadUptoType ==
  ASSUME NEW frame \in Seq(Byte), NEW at \in 0..Len(frame)
  PROVE  /\ ReadUpto(frame, at) \in Packets
         /\ ReadUpto(frame, at).m_buff = frame /\ ReadUpto(frame, at).m_cur = at
         /\ bytesLeft(ReadUpto(frame, at)) = Len(frame) - at
         /\ at \in Nat /\ Len(frame) \in Nat
<1>1. Len(frame) \in Nat /\ at \in Nat /\ at <= Len(frame)
  OBVIOUS
<1> QED
  BY <1>1 DEF ReadUpto, Packets, bytesLeft

(* A number is read when there are bytes enough, and it is the one that    *)
(* these bytes are written for.                                            *)
LEMMA DWordRead ==
  ASSUME NEW frame \in Seq(Byte), NEW at \in 0..Len(frame)
  PROVE  LET r == readForwardDWord(ReadUpto(frame, at))
         IN  /\ r.ok \in BOOLEAN
             /\ r.ok <=> at + DWordSize <= Len(frame)
             /\ r.ok => /\ r.out \in Int32 /\ r.pack = ReadUpto(frame, at + DWordSize)
                        /\ at + DWordSize \in 0..Len(frame)
             /\ r.ok => \A n \in Int32 :
                          SubSeq(frame, at + 1, at + DWordSize) = htonl(n) <=> n = r.out
<1> DEFINE p == ReadUpto(frame, at)
           r == readForwardDWord(p)
<1>1. /\ p \in Packets /\ p.m_buff = frame /\ p.m_cur = at
      /\ bytesLeft(p) = Len(frame) - at
      /\ at \in Nat /\ Len(frame) \in Nat /\ DWordSize \in Nat
  BY ReadUptoType, PacketAssumption
<1>2. CASE Len(frame) - at < DWordSize
  <2>1. r = Failed(p)
    BY <1>1, <1>2 DEF readForwardDWord
  <2> QED
    BY <1>1, <1>2, <2>1 DEF Failed
<1>3. CASE ~(Len(frame) - at < DWordSize)
  <2> DEFINE s == SubSeq(frame, at + 1, at + DWordSize)
  <2>1. r = [ok |-> TRUE, out |-> ntohl(Ahead(p, DWordSize)), pack |-> Forward(p, DWordSize)]
    BY <1>1, <1>3 DEF readForwardDWord
  <2>2. Ahead(p, DWordSize) = s
    BY <1>1 DEF Ahead
  <2>3. Forward(p, DWordSize) = ReadUpto(frame, at + DWordSize)
    BY <1>1 DEF Forward, ReadUpto
  <2>4. Ahead(p, DWordSize) \in Seq(Byte) /\ Len(Ahead(p, DWordSize)) = DWordSize
    <3>1. DWordSize \in Nat /\ DWordSize <= bytesLeft(p)
      BY <1>1, <1>3
    <3> QED
      BY <1>1, <3>1, AheadBytes
  <2> HIDE DEF s
  <2>5. ntohl(s) \in Int32 /\ htonl(ntohl(s)) = s
    BY <2>2, <2>4, NetworkOrder
  <2>6. \A n \in Int32 : s = htonl(n) <=> n = ntohl(s)
    <3>1. \A n \in Int32 : ntohl(htonl(n)) = n
      BY NetworkOrder
    <3> QED
      BY <2>5, <3>1
  <2>7. at + DWordSize \in 0..Len(frame)
    BY <1>1, <1>3
  <2> QED
    BY <1>1, <1>3, <2>1, <2>2, <2>3, <2>5, <2>6, <2>7 DEF s
<1> QED
  BY <1>2, <1>3
LEMMA FieldLengths == \A n \in 1..MAX_FIELD_LENGTH : n \in Int32
<1>1. Words \div 2 \in Nat \ {0}
  BY WordsValues
<1>2. MAX_FIELD_LENGTH \in Nat /\ MAX_FIELD_LENGTH <= (Words \div 2) - 1
  BY <1>1, PacketAssumption, LengthAssumption DEF Int32
<1> QED
  BY <1>1, <1>2 DEF Int32

(* A string field is read when one is encoded there, and it is that one.   *)
LEMMA FieldRead ==
  ASSUME NEW frame \in Seq(Byte), NEW at \in 0..Len(frame)
  PROVE  LET r == readForwardStringField(ReadUpto(frame, at))
         IN  /\ r.ok \in BOOLEAN
             /\ ~r.ok => StringsAt(frame, at) = {}
             /\ r.ok => /\ StringsAt(frame, at) = {<<r.out, r.pack.m_cur>>}
                        /\ r.pack.m_cur \in 0..Len(frame)
                        /\ r.pack = ReadUpto(frame, r.pack.m_cur)
                        /\ r.out \in Seq(Byte)
<1> DEFINE p == ReadUpto(frame, at)
           l == readForwardDWord(p)
           r == readForwardStringField(p)
           S == {n \in 1..(Len(frame) - at - DWordSize) :
                   n <= MAX_FIELD_LENGTH /\ SubSeq(frame, at + 1, at + DWordSize) = htonl(n)}
           String(n) == <<SubSeq(frame, at + DWordSize + 1, at + DWordSize + n - 1),
                          at + DWordSize + n>>
<1>1. /\ p \in Packets /\ at \in Nat /\ Len(frame) \in Nat /\ DWordSize \in Nat
      /\ MAX_FIELD_LENGTH \in Nat
  BY ReadUptoType, PacketAssumption
<1>2. /\ l.ok \in BOOLEAN
      /\ l.ok <=> at + DWordSize <= Len(frame)
      /\ l.ok => /\ l.out \in Int32 /\ l.pack = ReadUpto(frame, at + DWordSize)
                 /\ at + DWordSize \in 0..Len(frame)
      /\ l.ok => \A n \in Int32 :
                   SubSeq(frame, at + 1, at + DWordSize) = htonl(n) <=> n = l.out
  BY DWordRead
<1>3. StringsAt(frame, at) = {String(n) : n \in S}
  BY DEF StringsAt
<1>4. \A n : n \in S => n \in Int32 /\ n \in 1..MAX_FIELD_LENGTH /\ n \in Nat
  <2>1. \A n : n \in S => n \in 1..MAX_FIELD_LENGTH
    BY <1>1
  <2> HIDE DEF S
  <2> QED
    BY <1>1, <2>1, FieldLengths
<1>5. ASSUME ~(l.ok /\ l.out \in 1..MAX_FIELD_LENGTH)
      PROVE  r.ok = FALSE /\ S = {}
  <2>1. r = Failed(l.pack)
    BY <1>5 DEF readForwardStringField
  <2>2. ASSUME NEW n \in S PROVE FALSE
    <3>1. /\ n \in 1..(Len(frame) - at - DWordSize)
          /\ SubSeq(frame, at + 1, at + DWordSize) = htonl(n)
      BY <2>2
    <3>2. l.ok
      BY <1>1, <1>2, <3>1
    <3>3. n = l.out
      <4> HIDE DEF S
      <4> QED
        BY <1>2, <1>4, <2>2, <3>1, <3>2
    <3> QED
      <4> HIDE DEF S
      <4> QED
        BY <1>4, <1>5, <2>2, <3>2, <3>3
  <2> QED
    BY <2>1, <2>2 DEF Failed
<1>6. ASSUME l.ok, l.out \in 1..MAX_FIELD_LENGTH
      PROVE  /\ r.ok \in BOOLEAN
             /\ ~r.ok => S = {}
             /\ r.ok => /\ S = {l.out} /\ <<r.out, r.pack.m_cur>> = String(l.out)
                        /\ r.pack.m_cur \in 0..Len(frame)
                        /\ r.pack = ReadUpto(frame, r.pack.m_cur)
                        /\ r.out \in Seq(Byte)
  <2> DEFINE n == l.out
             m == at + DWordSize
             q == ReadUpto(frame, m)
  <2>1. n \in Nat \ {0} /\ n <= MAX_FIELD_LENGTH /\ m \in 0..Len(frame)
    BY <1>1, <1>2, <1>6
  <2>2. r = readForwardString(q, n)
    BY <1>2, <1>6 DEF readForwardStringField
  <2>3. /\ q \in Packets /\ q.m_buff = frame /\ q.m_cur = m
        /\ bytesLeft(q) = Len(frame) - m /\ m \in Nat
    BY <2>1, ReadUptoType
  <2>4. \A x : x \in S => x = n
    <3>1. \A x : x \in S => x \in Int32 /\ SubSeq(frame, at + 1, m) = htonl(x)
      <4>1. \A x : x \in S => SubSeq(frame, at + 1, m) = htonl(x)
        OBVIOUS
      <4> HIDE DEF S
      <4> QED
        BY <1>4, <4>1
    <3> HIDE DEF S
    <3> QED
      BY <1>2, <1>6, <3>1
  <2>5. CASE Len(frame) - m < n
    <3>1. r = Failed(q)
      BY <2>2, <2>3, <2>5 DEF readForwardString
    <3>2. n \notin S
      BY <1>1, <2>1, <2>5
    <3>3. S = {}
      <4> HIDE DEF S
      <4> QED
        BY <2>4, <3>2
    <3> QED
      BY <3>1, <3>3 DEF Failed
  <2>6. CASE ~(Len(frame) - m < n)
    <3>1. r = [ok |-> TRUE, out |-> Ahead(q, n - 1), pack |-> Forward(q, n)]
      BY <2>2, <2>3, <2>6 DEF readForwardString
    <3>2. n \in S
      <4>1. SubSeq(frame, at + 1, m) = htonl(n)
        BY <1>2, <1>6
      <4>2. n \in 1..(Len(frame) - at - DWordSize)
        BY <1>1, <2>1, <2>6
      <4> QED
        BY <2>1, <4>1, <4>2
    <3>3. S = {n}
      <4> HIDE DEF S
      <4> QED
        BY <2>4, <3>2
    <3>4. Forward(q, n) = ReadUpto(frame, m + n) /\ m + n \in 0..Len(frame)
      BY <1>1, <2>1, <2>3, <2>6 DEF Forward, ReadUpto
    <3>5. Ahead(q, n - 1) = SubSeq(frame, m + 1, m + n - 1)
      <4>1. m + (n - 1) = m + n - 1
        BY <2>1, <2>3
      <4> QED
        BY <2>3, <4>1 DEF Ahead
    <3>6. Ahead(q, n - 1) \in Seq(Byte)
      <4>1. n - 1 \in Nat /\ n - 1 <= bytesLeft(q)
        BY <2>1, <2>3, <2>6
      <4> QED
        BY <2>3, <4>1, AheadBytes
    <3>7. ReadUpto(frame, m + n).m_cur = m + n
      BY DEF ReadUpto
    <3> HIDE DEF S
    <3> QED
      BY <3>1, <3>3, <3>4, <3>5, <3>6, <3>7
  <2> QED
    BY <2>5, <2>6
<1> HIDE DEF S
<1>7. CASE ~(l.ok /\ l.out \in 1..MAX_FIELD_LENGTH)
  BY <1>3, <1>5, <1>7
<1>8. CASE l.ok /\ l.out \in 1..MAX_FIELD_LENGTH
  <2> HIDE DEF r, l, String
  <2>1. S = {} => {String(n) : n \in S} = {}
    OBVIOUS
  <2>2. S = {l.out} => {String(n) : n \in S} = {String(l.out)}
    OBVIOUS
  <2>3. (r.ok = TRUE \/ r.ok = FALSE) /\ (r.ok => <<r.out, r.pack.m_cur>> = String(l.out))
    BY <1>6, <1>8
  <2> QED
    BY <1>3, <1>6, <1>8, <2>1, <2>2, <2>3 DEF r
<1> QED
  BY <1>7, <1>8
(* Two fields are read when two are encoded there, one behind the other.   *)
TwoAt(frame, at) ==
    UNION {{<<a[1], b[1], b[2]>> : b \in StringsAt(frame, a[2])} : a \in StringsAt(frame, at)}

LEMMA TwoRead ==
  ASSUME NEW frame \in Seq(Byte), NEW at \in 0..Len(frame)
  PROVE  LET a == readForwardStringField(ReadUpto(frame, at))
             b == readForwardStringField(a.pack)
         IN  /\ ~(a.ok /\ b.ok) => TwoAt(frame, at) = {}
             /\ a.ok /\ b.ok => /\ TwoAt(frame, at) = {<<a.out, b.out, b.pack.m_cur>>}
                                /\ b.pack.m_cur \in 0..Len(frame)
                                /\ b.pack = ReadUpto(frame, b.pack.m_cur)
<1> DEFINE a == readForwardStringField(ReadUpto(frame, at))
           b == readForwardStringField(a.pack)
           e == a.pack.m_cur
           Second(x) == {<<x[1], y[1], y[2]>> : y \in StringsAt(frame, x[2])}
<1>1. /\ a.ok \in BOOLEAN
      /\ ~a.ok => StringsAt(frame, at) = {}
      /\ a.ok => /\ StringsAt(frame, at) = {<<a.out, e>>}
                 /\ e \in 0..Len(frame) /\ a.pack = ReadUpto(frame, e)
  BY FieldRead
<1>2. TwoAt(frame, at) = UNION {Second(x) : x \in StringsAt(frame, at)}
  BY DEF TwoAt
<1>3. CASE ~a.ok
  <2>1. UNION {Second(x) : x \in StringsAt(frame, at)} = {}
    BY <1>1, <1>3
  <2> QED
    BY <1>2, <1>3, <2>1
<1>4. CASE a.ok
  <2>1. /\ b.ok \in BOOLEAN
        /\ ~b.ok => StringsAt(frame, e) = {}
        /\ b.ok => /\ StringsAt(frame, e) = {<<b.out, b.pack.m_cur>>}
                   /\ b.pack.m_cur \in 0..Len(frame)
                   /\ b.pack = ReadUpto(frame, b.pack.m_cur)
    <3>1. e \in 0..Len(frame) /\ a.pack = ReadUpto(frame, e)
      BY <1>1, <1>4
    <3> HIDE DEF e
    <3>2. b = readForwardStringField(ReadUpto(frame, e))
      BY <3>1
    <3> QED
      BY <3>1, <3>2, FieldRead
  <2> DEFINE x == <<a.out, e>>
  <2>2. StringsAt(frame, at) = {x}
    BY <1>1, <1>4
  <2> HIDE DEF a, b
  <2>3. UNION {Second(z) : z \in StringsAt(frame, at)} = Second(x)
    <3> HIDE DEF x, Second
    <3> QED
      BY <2>2
  <2>4. Second(x) = {<<a.out, y[1], y[2]>> : y \in StringsAt(frame, e)}
    BY DEF x
  <2>5. StringsAt(frame, e) = {} => {<<a.out, y[1], y[2]>> : y \in StringsAt(frame, e)} = {}
    OBVIOUS
  <2>6. StringsAt(frame, e) = {<<b.out, b.pack.m_cur>>}
          => {<<a.out, y[1], y[2]>> : y \in StringsAt(frame, e)}
               = {<<a.out, b.out, b.pack.m_cur>>}
    OBVIOUS
  <2> QED
    <3> HIDE DEF x, Second, e
    <3> QED
      BY <1>2, <1>4, <2>1, <2>3, <2>4, <2>5, <2>6 DEF a, b
<1> QED
  BY <1>3, <1>4
-----------------------------------------------------------------------------
(* The requests that may be encoded in a frame, by their type.             *)
Begins(frame, t) == Len(frame) >= DWordSize /\ SubSeq(frame, 1, DWordSize) = htonl(t)
PlainsOf(frame) ==
    {Plain(c[2]) :
       c \in {c \in {<<COMMANDTYPE_SHOW_INBOX_REQ, "SHOW_INBOX">>,
                     <<COMMANDTYPE_QUIT_REQ, "QUIT">>,
                     <<COMMANDTYPE_SHOW_ONLINE_USERS_REQ, "SHOW_ONLINE_USERS">>} :
                Begins(frame, c[1])}}
IdsOf(frame, t) ==
    {n \in Int32 : Begins(frame, t) /\ Len(frame) >= 2 * DWordSize
                   /\ SubSeq(frame, DWordSize + 1, 2 * DWordSize) = htonl(n)}
PairsOf(frame, t) ==
    UNION {{<<a[1], b[1], b[2]>> : b \in StringsAt(frame, a[2])} :
             a \in {f \in StringsAt(frame, DWordSize) : Begins(frame, t)}}
GetsOf(frame) ==
    {[type |-> "GET_MAIL", id |-> n] : n \in IdsOf(frame, COMMANDTYPE_GET_MAIL_REQ)}
DeletesOf(frame) ==
    {[type |-> "DELETE_MAIL", id |-> n] : n \in IdsOf(frame, COMMANDTYPE_DELETE_MAIL_REQ)}
LoginsOf(frame) ==
    {[type |-> "LOGIN", user |-> f[1], pass |-> f[2]] :
       f \in PairsOf(frame, COMMANDTYPE_LOGIN_REQ)}
ChatsOf(frame) ==
    {[type |-> "SEND_CHAT", to |-> f[1], text |-> f[2]] :
       f \in PairsOf(frame, COMMANDTYPE_SEND_CHAT_MESSAGE_REQ)}
ComposesOf(frame) ==
    UNION {{[type |-> "COMPOSE", to |-> f[1], subject |-> f[2], body |-> g[1]] :
              g \in StringsAt(frame, f[3])} : f \in PairsOf(frame, COMMANDTYPE_COMPOSE_REQ)}

LEMMA EncodedParts ==
  ASSUME NEW frame
  PROVE  Encoded(frame) = PlainsOf(frame) \union GetsOf(frame) \union DeletesOf(frame)
                            \union LoginsOf(frame) \union ChatsOf(frame)
                            \union ComposesOf(frame)
  BY DEF Encoded, PlainsOf, GetsOf, DeletesOf, LoginsOf, ChatsOf, ComposesOf,
         IdsOf, PairsOf, Begins

(* A frame begins with the type that is read out of it and with no other.  *)
LEMMA BeginsWith ==
  ASSUME NEW frame \in Seq(Byte)
  PROVE  LET t == readForwardDWord(ReadUpto(frame, 0))
         IN  /\ t.ok \in BOOLEAN
             /\ \A x \in Int32 : Begins(frame, x) <=> t.ok /\ x = t.out
             /\ t.ok => t.pack = ReadUpto(frame, DWordSize) /\ DWordSize \in 0..Len(frame)
<1> DEFINE t == readForwardDWord(ReadUpto(frame, 0))
<1>1. 0 \in 0..Len(frame) /\ 0 + 1 = 1 /\ 0 + DWordSize = DWordSize /\ Len(frame) \in Nat
  BY PacketAssumption
<1>2. /\ t.ok \in BOOLEAN
      /\ t.ok <=> DWordSize <= Len(frame)
      /\ t.ok => t.pack = ReadUpto(frame, DWordSize) /\ DWordSize \in 0..Len(frame)
      /\ t.ok => \A n \in Int32 : SubSeq(frame, 1, DWordSize) = htonl(n) <=> n = t.out
  <2>1. LET r == readForwardDWord(ReadUpto(frame, 0))
        IN  /\ r.ok \in BOOLEAN
            /\ r.ok <=> 0 + DWordSize <= Len(frame)
            /\ r.ok => /\ r.out \in Int32 /\ r.pack = ReadUpto(frame, 0 + DWordSize)
                       /\ 0 + DWordSize \in 0..Len(frame)
            /\ r.ok => \A n \in Int32 :
                         SubSeq(frame, 0 + 1, 0 + DWordSize) = htonl(n) <=> n = r.out
    BY <1>1, DWordRead
  <2> QED
    BY <1>1, <2>1
<1> HIDE DEF t
<1>3. Len(frame) >= DWordSize <=> DWordSize <= Len(frame)
  BY <1>1, PacketAssumption
<1> QED
  BY <1>2, <1>3 DEF Begins, t

(* What the sets are when the frame begins with their type, and when not.  *)
LEMMA NotBegun ==
  ASSUME NEW frame, NEW x, ~Begins(frame, x)
  PROVE  IdsOf(frame, x) = {} /\ PairsOf(frame, x) = {}
  BY DEF IdsOf, PairsOf

LEMMA IdsRead ==
  ASSUME NEW frame \in Seq(Byte), NEW x, Begins(frame, x), DWordSize \in 0..Len(frame)
  PROVE  LET id == readForwardDWord(ReadUpto(frame, DWordSize))
         IN  /\ id.ok \in BOOLEAN
             /\ id.ok => id.out \in Int32
             /\ IdsOf(frame, x) = IF id.ok THEN {id.out} ELSE {}
<1> DEFINE id == readForwardDWord(ReadUpto(frame, DWordSize))
<1>1. DWordSize + DWordSize = 2 * DWordSize /\ DWordSize \in Nat /\ Len(frame) \in Nat
  BY PacketAssumption
<1>2. /\ id.ok \in BOOLEAN
      /\ id.ok <=> 2 * DWordSize <= Len(frame)
      /\ id.ok => id.out \in Int32
      /\ id.ok => \A n \in Int32 :
                    SubSeq(frame, DWordSize + 1, 2 * DWordSize) = htonl(n) <=> n = id.out
  <2>1. LET r == readForwardDWord(ReadUpto(frame, DWordSize))
        IN  /\ r.ok \in BOOLEAN
            /\ r.ok <=> DWordSize + DWordSize <= Len(frame)
            /\ r.ok => /\ r.out \in Int32
                       /\ r.pack = ReadUpto(frame, DWordSize + DWordSize)
                       /\ DWordSize + DWordSize \in 0..Len(frame)
            /\ r.ok => \A n \in Int32 :
                         SubSeq(frame, DWordSize + 1, DWordSize + DWordSize) = htonl(n)
                           <=> n = r.out
    BY DWordRead
  <2> QED
    BY <1>1, <2>1
<1> HIDE DEF id
<1>3. Len(frame) >= 2 * DWordSize <=> 2 * DWordSize <= Len(frame)
  BY <1>1
<1>4. CASE ~id.ok
  <2>1. IdsOf(frame, x) = {}
    BY <1>2, <1>3, <1>4 DEF IdsOf
  <2> QED
    BY <1>2, <1>4, <2>1 DEF id
<1>5. CASE id.ok
  <2>1. IdsOf(frame, x) = {id.out}
    BY <1>2, <1>3, <1>5 DEF IdsOf
  <2> QED
    BY <1>2, <1>5, <2>1 DEF id
<1> QED
  BY <1>4, <1>5

LEMMA PairsRead ==
  ASSUME NEW frame, NEW x, Begins(frame, x)
  PROVE  PairsOf(frame, x) = TwoAt(frame, DWordSize)
<1>1. {f \in StringsAt(frame, DWordSize) : Begins(frame, x)} = StringsAt(frame, DWordSize)
  OBVIOUS
<1> QED
  BY <1>1 DEF PairsOf, TwoAt
LEMMA NoneBegun ==
  ASSUME NEW frame
  PROVE  /\ ~Begins(frame, COMMANDTYPE_GET_MAIL_REQ) => GetsOf(frame) = {}
         /\ ~Begins(frame, COMMANDTYPE_DELETE_MAIL_REQ) => DeletesOf(frame) = {}
         /\ ~Begins(frame, COMMANDTYPE_LOGIN_REQ) => LoginsOf(frame) = {}
         /\ ~Begins(frame, COMMANDTYPE_SEND_CHAT_MESSAGE_REQ) => ChatsOf(frame) = {}
         /\ ~Begins(frame, COMMANDTYPE_COMPOSE_REQ) => ComposesOf(frame) = {}
<1>1. \A x : ~Begins(frame, x) => IdsOf(frame, x) = {} /\ PairsOf(frame, x) = {}
  BY NotBegun
<1>2. ~Begins(frame, COMMANDTYPE_GET_MAIL_REQ) => GetsOf(frame) = {}
  BY <1>1 DEF GetsOf
<1>3. ~Begins(frame, COMMANDTYPE_DELETE_MAIL_REQ) => DeletesOf(frame) = {}
  BY <1>1 DEF DeletesOf
<1>4. ~Begins(frame, COMMANDTYPE_LOGIN_REQ) => LoginsOf(frame) = {}
  BY <1>1 DEF LoginsOf
<1>5. ~Begins(frame, COMMANDTYPE_SEND_CHAT_MESSAGE_REQ) => ChatsOf(frame) = {}
  BY <1>1 DEF ChatsOf
<1>6. ~Begins(frame, COMMANDTYPE_COMPOSE_REQ) => ComposesOf(frame) = {}
  BY <1>1 DEF ComposesOf
<1> QED
  BY <1>2, <1>3, <1>4, <1>5, <1>6

LEMMA PlainsRead ==
  ASSUME NEW frame
  PROVE  \A r : r \in PlainsOf(frame) <=>
           \/ Begins(frame, COMMANDTYPE_SHOW_INBOX_REQ) /\ r = Plain("SHOW_INBOX")
           \/ Begins(frame, COMMANDTYPE_QUIT_REQ) /\ r = Plain("QUIT")
           \/ Begins(frame, COMMANDTYPE_SHOW_ONLINE_USERS_REQ) /\ r = Plain("SHOW_ONLINE_USERS")
<1> DEFINE c1 == <<COMMANDTYPE_SHOW_INBOX_REQ, "SHOW_INBOX">>
           c2 == <<COMMANDTYPE_QUIT_REQ, "QUIT">>
           c3 == <<COMMANDTYPE_SHOW_ONLINE_USERS_REQ, "SHOW_ONLINE_USERS">>
           Is(c, r) == Begins(frame, c[1]) /\ r = Plain(c[2])
<1>1. PlainsOf(frame) = {Plain(c[2]) : c \in {c \in {c1, c2, c3} : Begins(frame, c[1])}}
  BY DEF PlainsOf
<1>2. \A r : /\ Is(c1, r) <=> /\ Begins(frame, COMMANDTYPE_SHOW_INBOX_REQ)
                               /\ r = Plain("SHOW_INBOX")
             /\ Is(c2, r) <=> Begins(frame, COMMANDTYPE_QUIT_REQ) /\ r = Plain("QUIT")
             /\ Is(c3, r) <=> /\ Begins(frame, COMMANDTYPE_SHOW_ONLINE_USERS_REQ)
                              /\ r = Plain("SHOW_ONLINE_USERS")
  OBVIOUS
<1> HIDE DEF c1, c2, c3
<1>3. TAKE r
<1>4. r \in PlainsOf(frame) <=> Is(c1, r) \/ Is(c2, r) \/ Is(c3, r)
  BY <1>1
<1> HIDE DEF Is
<1> QED
  BY <1>2, <1>4
(* The one part of what a frame encodes that may have a request in it.     *)
LEMMA EncodedOnce ==
  ASSUME NEW frame \in Seq(Byte)
  PROVE  LET t == readForwardDWord(ReadUpto(frame, 0))
             Is(x) == t.ok /\ t.out = x
         IN  /\ Is(COMMANDTYPE_LOGIN_REQ) => Encoded(frame) = LoginsOf(frame)
             /\ Is(COMMANDTYPE_SHOW_INBOX_REQ) => Encoded(frame) = {Plain("SHOW_INBOX")}
             /\ Is(COMMANDTYPE_GET_MAIL_REQ) => Encoded(frame) = GetsOf(frame)
             /\ Is(COMMANDTYPE_DELETE_MAIL_REQ) => Encoded(frame) = DeletesOf(frame)
             /\ Is(COMMANDTYPE_COMPOSE_REQ) => Encoded(frame) = ComposesOf(frame)
             /\ Is(COMMANDTYPE_QUIT_REQ) => Encoded(frame) = {Plain("QUIT")}
             /\ Is(COMMANDTYPE_SHOW_ONLINE_USERS_REQ)
                  => Encoded(frame) = {Plain("SHOW_ONLINE_USERS")}
             /\ Is(COMMANDTYPE_SEND_CHAT_MESSAGE_REQ) => Encoded(frame) = ChatsOf(frame)
             /\ (\A x \in Int32 : Begins(frame, x) =>
                   x \notin {COMMANDTYPE_LOGIN_REQ, COMMANDTYPE_SHOW_INBOX_REQ,
                             COMMANDTYPE_GET_MAIL_REQ, COMMANDTYPE_DELETE_MAIL_REQ,
                             COMMANDTYPE_COMPOSE_REQ, COMMANDTYPE_QUIT_REQ,
                             COMMANDTYPE_SHOW_ONLINE_USERS_REQ,
                             COMMANDTYPE_SEND_CHAT_MESSAGE_REQ})
                  => Encoded(frame) = {}
<1> DEFINE t == readForwardDWord(ReadUpto(frame, 0))
           B(x) == Begins(frame, x)
           l == COMMANDTYPE_LOGIN_REQ
           i == COMMANDTYPE_SHOW_INBOX_REQ
           g == COMMANDTYPE_GET_MAIL_REQ
           d == COMMANDTYPE_DELETE_MAIL_REQ
           c == COMMANDTYPE_COMPOSE_REQ
           q == COMMANDTYPE_QUIT_REQ
           o == COMMANDTYPE_SHOW_ONLINE_USERS_REQ
           s == COMMANDTYPE_SEND_CHAT_MESSAGE_REQ
<1>1. \A x \in Int32 : B(x) <=> t.ok /\ x = t.out
  BY BeginsWith
<1>2. /\ l \in Int32 /\ i \in Int32 /\ g \in Int32 /\ d \in Int32
      /\ c \in Int32 /\ q \in Int32 /\ o \in Int32 /\ s \in Int32
  BY TypeAssumption
<1>3. /\ l = 1 /\ i = 2 /\ g = 4 /\ d = 6 /\ c = 7 /\ q = 10 /\ o = 11 /\ s = 13
  BY DEF COMMANDTYPE_LOGIN_REQ, COMMANDTYPE_SHOW_INBOX_REQ, COMMANDTYPE_GET_MAIL_REQ,
         COMMANDTYPE_DELETE_MAIL_REQ, COMMANDTYPE_COMPOSE_REQ, COMMANDTYPE_QUIT_REQ,
         COMMANDTYPE_SHOW_ONLINE_USERS_REQ, COMMANDTYPE_SEND_CHAT_MESSAGE_REQ
<1>4. Encoded(frame) = PlainsOf(frame) \union GetsOf(frame) \union DeletesOf(frame)
                         \union LoginsOf(frame) \union ChatsOf(frame) \union ComposesOf(frame)
  BY EncodedParts
<1>5. /\ ~B(g) => GetsOf(frame) = {}
      /\ ~B(d) => DeletesOf(frame) = {}
      /\ ~B(l) => LoginsOf(frame) = {}
      /\ ~B(s) => ChatsOf(frame) = {}
      /\ ~B(c) => ComposesOf(frame) = {}
  BY NoneBegun
<1>6. \A r : r \in PlainsOf(frame) <=>
        \/ B(i) /\ r = Plain("SHOW_INBOX")
        \/ B(q) /\ r = Plain("QUIT")
        \/ B(o) /\ r = Plain("SHOW_ONLINE_USERS")
  BY PlainsRead
<1> HIDE DEF B, l, i, g, d, c, q, o, s
<1>7. /\ B(l) <=> t.ok /\ t.out = l
      /\ B(i) <=> t.ok /\ t.out = i
      /\ B(g) <=> t.ok /\ t.out = g
      /\ B(d) <=> t.ok /\ t.out = d
      /\ B(c) <=> t.ok /\ t.out = c
      /\ B(q) <=> t.ok /\ t.out = q
      /\ B(o) <=> t.ok /\ t.out = o
      /\ B(s) <=> t.ok /\ t.out = s
  BY <1>1, <1>2
<1> HIDE DEF t
<1>8. ~B(i) /\ ~B(q) /\ ~B(o) => PlainsOf(frame) = {}
  BY <1>6
<1>9. t.ok /\ t.out = l => Encoded(frame) = LoginsOf(frame)
  BY <1>3, <1>4, <1>5, <1>7, <1>8
<1>10. t.ok /\ t.out = g => Encoded(frame) = GetsOf(frame)
  BY <1>3, <1>4, <1>5, <1>7, <1>8
<1>11. t.ok /\ t.out = d => Encoded(frame) = DeletesOf(frame)
  BY <1>3, <1>4, <1>5, <1>7, <1>8
<1>12. t.ok /\ t.out = c => Encoded(frame) = ComposesOf(frame)
  BY <1>3, <1>4, <1>5, <1>7, <1>8
<1>13. t.ok /\ t.out = s => Encoded(frame) = ChatsOf(frame)
  BY <1>3, <1>4, <1>5, <1>7, <1>8
<1>14. ASSUME t.ok, t.out = i \/ t.out = q \/ t.out = o
       PROVE  Encoded(frame) = PlainsOf(frame)
  BY <1>3, <1>4, <1>5, <1>7, <1>14
<1>15. t.ok /\ t.out = i => PlainsOf(frame) = {Plain("SHOW_INBOX")}
  <2>1. t.ok /\ t.out = i => B(i) /\ ~B(q) /\ ~B(o)
    BY <1>3, <1>7
  <2> QED
    BY <1>6, <2>1
<1>16. t.ok /\ t.out = q => PlainsOf(frame) = {Plain("QUIT")}
  <2>1. t.ok /\ t.out = q => B(q) /\ ~B(i) /\ ~B(o)
    BY <1>3, <1>7
  <2> QED
    BY <1>6, <2>1
<1>17. t.ok /\ t.out = o => PlainsOf(frame) = {Plain("SHOW_ONLINE_USERS")}
  <2>1. t.ok /\ t.out = o => B(o) /\ ~B(i) /\ ~B(q)
    BY <1>3, <1>7
  <2> QED
    BY <1>6, <2>1
<1>18. (\A x \in Int32 : B(x) => x \notin {l, i, g, d, c, q, o, s}) => Encoded(frame) = {}
  <2>1. (\A x \in Int32 : B(x) => x \notin {l, i, g, d, c, q, o, s})
          => ~B(l) /\ ~B(i) /\ ~B(g) /\ ~B(d) /\ ~B(c) /\ ~B(q) /\ ~B(o) /\ ~B(s)
    BY <1>2
  <2> QED
    BY <1>4, <1>5, <1>8, <2>1
<1> QED
  BY <1>9, <1>10, <1>11, <1>12, <1>13, <1>14, <1>15, <1>16, <1>17, <1>18
     DEF t, B, l, i, g, d, c, q, o, s
(* A frame is understood as what it encodes, type by type.                 *)
LEMMA LoginMeant ==
  ASSUME NEW frame \in Seq(Byte), DWordSize \in 0..Len(frame), Begins(frame, COMMANDTYPE_LOGIN_REQ)
  PROVE  LET a == readForwardStringField(ReadUpto(frame, DWordSize))
             b == readForwardStringField(a.pack)
         IN  Means(LoginsOf(frame),
                   IF a.ok /\ b.ok THEN [type |-> "LOGIN", user |-> a.out, pass |-> b.out]
                   ELSE Plain("BAD_LOGIN"))
<1> DEFINE a == readForwardStringField(ReadUpto(frame, DWordSize))
           b == readForwardStringField(a.pack)
           x == COMMANDTYPE_LOGIN_REQ
           z == <<a.out, b.out, b.pack.m_cur>>
           Made(f) == [type |-> "LOGIN", user |-> f[1], pass |-> f[2]]
           u == [type |-> "LOGIN", user |-> a.out, pass |-> b.out]
<1>1. /\ ~(a.ok /\ b.ok) => PairsOf(frame, x) = {}
      /\ a.ok /\ b.ok => PairsOf(frame, x) = {z}
  BY TwoRead, PairsRead
<1>2. LoginsOf(frame) = {Made(f) : f \in PairsOf(frame, x)}
  BY DEF LoginsOf
<1>3. Made(z) = u
  OBVIOUS
<1>4. u.type = "LOGIN"
  OBVIOUS
<1>5. IsRequest(u) /\ Agree(u, u)
  BY <1>4 DEF IsRequest, Agree
<1> HIDE DEF a, b, x, z, u, Made
<1>6. CASE a.ok /\ b.ok
  <2>1. LoginsOf(frame) = {u}
    BY <1>1, <1>2, <1>3, <1>6
  <2>2. Means(LoginsOf(frame), u)
    BY <1>5, <2>1 DEF Means
  <2> QED
    BY <1>6, <2>2 DEF u, a, b
<1>7. CASE ~(a.ok /\ b.ok)
  <2>1. LoginsOf(frame) = {}
    BY <1>1, <1>2, <1>7
  <2>2. Means(LoginsOf(frame), Plain("BAD_LOGIN"))
    BY <2>1 DEF Means, IsRequest, Plain
  <2> QED
    BY <1>7, <2>2 DEF a, b
<1> QED
  BY <1>6, <1>7

LEMMA ChatMeant ==
  ASSUME NEW frame \in Seq(Byte), DWordSize \in 0..Len(frame), Begins(frame, COMMANDTYPE_SEND_CHAT_MESSAGE_REQ)
  PROVE  LET a == readForwardStringField(ReadUpto(frame, DWordSize))
             b == readForwardStringField(a.pack)
         IN  Means(ChatsOf(frame),
                   IF a.ok /\ b.ok THEN [type |-> "SEND_CHAT", to |-> a.out, text |-> b.out]
                   ELSE Plain("BAD_COMMAND"))
<1> DEFINE a == readForwardStringField(ReadUpto(frame, DWordSize))
           b == readForwardStringField(a.pack)
           x == COMMANDTYPE_SEND_CHAT_MESSAGE_REQ
           z == <<a.out, b.out, b.pack.m_cur>>
           Made(f) == [type |-> "SEND_CHAT", to |-> f[1], text |-> f[2]]
           u == [type |-> "SEND_CHAT", to |-> a.out, text |-> b.out]
<1>1. /\ ~(a.ok /\ b.ok) => PairsOf(frame, x) = {}
      /\ a.ok /\ b.ok => PairsOf(frame, x) = {z}
  BY TwoRead, PairsRead
<1>2. ChatsOf(frame) = {Made(f) : f \in PairsOf(frame, x)}
  BY DEF ChatsOf
<1>3. Made(z) = u
  OBVIOUS
<1>4. u.type = "SEND_CHAT"
  OBVIOUS
<1>5. IsRequest(u) /\ Agree(u, u)
  BY <1>4 DEF IsRequest, Agree
<1> HIDE DEF a, b, x, z, u, Made
<1>6. CASE a.ok /\ b.ok
  <2>1. ChatsOf(frame) = {u}
    BY <1>1, <1>2, <1>3, <1>6
  <2>2. Means(ChatsOf(frame), u)
    BY <1>5, <2>1 DEF Means
  <2> QED
    BY <1>6, <2>2 DEF u, a, b
<1>7. CASE ~(a.ok /\ b.ok)
  <2>1. ChatsOf(frame) = {}
    BY <1>1, <1>2, <1>7
  <2>2. Means(ChatsOf(frame), Plain("BAD_COMMAND"))
    BY <2>1 DEF Means, IsRequest, Plain
  <2> QED
    BY <1>7, <2>2 DEF a, b
<1> QED
  BY <1>6, <1>7

LEMMA MailIdMeant ==
  ASSUME NEW frame \in Seq(Byte), DWordSize \in 0..Len(frame), NEW x, Begins(frame, x),
         NEW type \in {"GET_MAIL", "DELETE_MAIL"}
  PROVE  Means({[type |-> type, id |-> n] : n \in IdsOf(frame, x)},
               MailIdRead(ReadUpto(frame, DWordSize), type))
<1> DEFINE id == readForwardDWord(ReadUpto(frame, DWordSize))
           u == [type |-> type, id |-> id.out]
<1>1. id.ok \in BOOLEAN /\ IdsOf(frame, x) = IF id.ok THEN {id.out} ELSE {}
  BY IdsRead
<1>2. MailIdRead(ReadUpto(frame, DWordSize), type)
        = IF id.ok THEN u ELSE Plain("BAD_COMMAND")
  BY DEF MailIdRead
<1> HIDE DEF id
<1>3. CASE id.ok
  <2>1. {[type |-> type, id |-> n] : n \in IdsOf(frame, x)} = {u}
    BY <1>1, <1>3
  <2>2. IsRequest(u) /\ Agree(u, u)
    BY DEF IsRequest, Agree
  <2>3. Means({u}, u)
    <3> HIDE DEF u
    <3> QED
      BY <2>2 DEF Means
  <2> QED
    BY <1>2, <1>3, <2>1, <2>3
<1>4. CASE ~id.ok
  BY <1>1, <1>2, <1>4 DEF Means, IsRequest, Plain
<1> QED
  BY <1>3, <1>4

LEMMA ComposeMeant ==
  ASSUME NEW frame \in Seq(Byte), DWordSize \in 0..Len(frame),
         Begins(frame, COMMANDTYPE_COMPOSE_REQ)
  PROVE  LET a == readForwardStringField(ReadUpto(frame, DWordSize))
             b == readForwardStringField(a.pack)
             c == readForwardStringField(b.pack)
         IN  Means(ComposesOf(frame),
                   IF a.ok
                   THEN IF b.ok /\ c.ok
                        THEN [type |-> "COMPOSE", to |-> Recipients(a.out),
                              subject |-> b.out, body |-> c.out]
                        ELSE Plain("BAD_COMMAND")
                   ELSE Plain("BAD_COMMAND"))
<1> DEFINE a == readForwardStringField(ReadUpto(frame, DWordSize))
           b == readForwardStringField(a.pack)
           c == readForwardStringField(b.pack)
           e == b.pack.m_cur
           x == COMMANDTYPE_COMPOSE_REQ
           y == <<a.out, b.out, e>>
           z == <<c.out, c.pack.m_cur>>
           Made(f, g) == [type |-> "COMPOSE", to |-> f[1], subject |-> f[2], body |-> g[1]]
           r == [type |-> "COMPOSE", to |-> a.out, subject |-> b.out, body |-> c.out]
           u == [type |-> "COMPOSE", to |-> Recipients(a.out), subject |-> b.out,
                 body |-> c.out]
<1>1. /\ ~(a.ok /\ b.ok) => PairsOf(frame, x) = {}
      /\ a.ok /\ b.ok => PairsOf(frame, x) = {y}
  BY TwoRead, PairsRead
<1>2. a.ok => a.out \in Seq(Byte)
  BY FieldRead
<1>3. a.ok /\ b.ok => e \in 0..Len(frame) /\ b.pack = ReadUpto(frame, e)
  BY TwoRead
<1>4. ASSUME a.ok, b.ok
      PROVE  /\ ~c.ok => StringsAt(frame, e) = {}
             /\ c.ok => StringsAt(frame, e) = {z}
  <2>1. e \in 0..Len(frame) /\ b.pack = ReadUpto(frame, e)
    BY <1>3, <1>4
  <2> HIDE DEF e
  <2>2. c = readForwardStringField(ReadUpto(frame, e))
    BY <2>1
  <2> QED
    BY <2>1, <2>2, FieldRead
<1>5. ComposesOf(frame)
        = UNION {{Made(f, g) : g \in StringsAt(frame, f[3])} : f \in PairsOf(frame, x)}
  BY DEF ComposesOf
<1>6. Made(y, z) = r /\ y[3] = e
  OBVIOUS
<1>7. r.type = "COMPOSE" /\ u.type = "COMPOSE" /\ r.to = a.out /\ u.to = Recipients(a.out)
      /\ r.subject = u.subject /\ r.body = u.body
  OBVIOUS
<1> HIDE DEF a, b, c, e, x, y, z, r, u, Made
<1>8. CASE a.ok /\ b.ok /\ c.ok
  <2>1. ComposesOf(frame) = {Made(y, g) : g \in StringsAt(frame, e)}
    BY <1>1, <1>5, <1>6, <1>8
  <2>2. ComposesOf(frame) = {r}
    BY <1>4, <1>6, <1>8, <2>1
  <2>3. Agree(r, u)
    <3>1. Lists(Recipients(a.out), a.out)
      BY <1>2, <1>8, RecipientsAreListed
    <3> QED
      BY <1>7, <3>1 DEF Agree
  <2>4. IsRequest(u)
    BY <1>7 DEF IsRequest
  <2>5. Means(ComposesOf(frame), u)
    BY <2>2, <2>3, <2>4 DEF Means
  <2> QED
    BY <1>8, <2>5 DEF u, a, b, c
<1>9. CASE ~(a.ok /\ b.ok /\ c.ok)
  <2>1. ComposesOf(frame) = {}
    <3>1. CASE ~(a.ok /\ b.ok)
      BY <1>1, <1>5, <3>1
    <3>2. CASE a.ok /\ b.ok /\ ~c.ok
      <4>1. ComposesOf(frame) = {Made(y, g) : g \in StringsAt(frame, e)}
        BY <1>1, <1>5, <1>6, <3>2
      <4> QED
        BY <1>4, <3>2, <4>1
    <3> QED
      BY <1>9, <3>1, <3>2
  <2>2. Means(ComposesOf(frame), Plain("BAD_COMMAND"))
    BY <2>1 DEF Means, IsRequest, Plain
  <2> QED
    BY <1>9, <2>2 DEF a, b, c
<1> QED
  BY <1>8, <1>9
(* The eight types of Common.h are different.                              *)
LEMMA TypeValues ==
  /\ COMMANDTYPE_LOGIN_REQ = 1 /\ COMMANDTYPE_SHOW_INBOX_REQ = 2
  /\ COMMANDTYPE_GET_MAIL_REQ = 4 /\ COMMANDTYPE_DELETE_MAIL_REQ = 6
  /\ COMMANDTYPE_COMPOSE_REQ = 7 /\ COMMANDTYPE_QUIT_REQ = 10
  /\ COMMANDTYPE_SHOW_ONLINE_USERS_REQ = 11 /\ COMMANDTYPE_SEND_CHAT_MESSAGE_REQ = 13
  BY DEF COMMANDTYPE_LOGIN_REQ, COMMANDTYPE_SHOW_INBOX_REQ, COMMANDTYPE_GET_MAIL_REQ,
     COMMANDTYPE_DELETE_MAIL_REQ, COMMANDTYPE_COMPOSE_REQ, COMMANDTYPE_QUIT_REQ,
     COMMANDTYPE_SHOW_ONLINE_USERS_REQ, COMMANDTYPE_SEND_CHAT_MESSAGE_REQ

(* What the handlers read, all in one.                                     *)
LEMMA UnderstoodIs ==
  ASSUME NEW frame
  PROVE  LET t == readForwardDWord(ReadUpto(frame, 0))
             p == t.pack
             a == readForwardStringField(p)
             b == readForwardStringField(a.pack)
             c == readForwardStringField(b.pack)
         IN  Understood(frame) =
               IF ~t.ok THEN Plain("NO_TYPE") ELSE
               CASE t.out = COMMANDTYPE_LOGIN_REQ ->
                      IF a.ok /\ b.ok THEN [type |-> "LOGIN", user |-> a.out, pass |-> b.out]
                      ELSE Plain("BAD_LOGIN")
                 [] t.out = COMMANDTYPE_SHOW_INBOX_REQ -> Plain("SHOW_INBOX")
                 [] t.out = COMMANDTYPE_GET_MAIL_REQ -> MailIdRead(p, "GET_MAIL")
                 [] t.out = COMMANDTYPE_DELETE_MAIL_REQ -> MailIdRead(p, "DELETE_MAIL")
                 [] t.out = COMMANDTYPE_COMPOSE_REQ ->
                      IF a.ok THEN IF b.ok /\ c.ok
                                   THEN [type |-> "COMPOSE", to |-> Recipients(a.out),
                                         subject |-> b.out, body |-> c.out]
                                   ELSE Plain("BAD_COMMAND")
                      ELSE Plain("BAD_COMMAND")
                 [] t.out = COMMANDTYPE_QUIT_REQ -> Plain("QUIT")
                 [] t.out = COMMANDTYPE_SHOW_ONLINE_USERS_REQ -> Plain("SHOW_ONLINE_USERS")
                 [] t.out = COMMANDTYPE_SEND_CHAT_MESSAGE_REQ ->
                      IF a.ok /\ b.ok THEN [type |-> "SEND_CHAT", to |-> a.out, text |-> b.out]
                      ELSE Plain("BAD_COMMAND")
                 [] OTHER -> Plain("UNKNOWN")
  BY DEF Understood, ThreeStrings, TwoStrings, ReadUpto

(* The request handlers of Server.cpp on a frame of any bytes, of any      *)
(* program: the handler reads the one request the frame begins with, and   *)
(* none when it begins with none, whatever lengths it claims for its       *)
(* fields and however it ends.                                             *)
THEOREM FrameIsRead ==
  ASSUME NEW frame \in Seq(Byte)
  PROVE  Means(Encoded(frame), Understood(frame))
<1> DEFINE start == ReadUpto(frame, 0)
           t == readForwardDWord(start)
           p == t.pack
           a == readForwardStringField(p)
           b == readForwardStringField(a.pack)
           c == readForwardStringField(b.pack)
           id == readForwardDWord(p)
<1>1. /\ t.ok \in BOOLEAN
      /\ \A x \in Int32 : Begins(frame, x) <=> t.ok /\ x = t.out
      /\ t.ok => p = ReadUpto(frame, DWordSize) /\ DWordSize \in 0..Len(frame)
  BY BeginsWith
<1>2. Understood(frame) =
        IF ~t.ok THEN Plain("NO_TYPE") ELSE
        CASE t.out = COMMANDTYPE_LOGIN_REQ ->
               IF a.ok /\ b.ok THEN [type |-> "LOGIN", user |-> a.out, pass |-> b.out]
               ELSE Plain("BAD_LOGIN")
          [] t.out = COMMANDTYPE_SHOW_INBOX_REQ -> Plain("SHOW_INBOX")
          [] t.out = COMMANDTYPE_GET_MAIL_REQ -> MailIdRead(p, "GET_MAIL")
          [] t.out = COMMANDTYPE_DELETE_MAIL_REQ -> MailIdRead(p, "DELETE_MAIL")
          [] t.out = COMMANDTYPE_COMPOSE_REQ ->
               IF a.ok THEN IF b.ok /\ c.ok
                            THEN [type |-> "COMPOSE", to |-> Recipients(a.out),
                                  subject |-> b.out, body |-> c.out]
                            ELSE Plain("BAD_COMMAND")
               ELSE Plain("BAD_COMMAND")
          [] t.out = COMMANDTYPE_QUIT_REQ -> Plain("QUIT")
          [] t.out = COMMANDTYPE_SHOW_ONLINE_USERS_REQ -> Plain("SHOW_ONLINE_USERS")
          [] t.out = COMMANDTYPE_SEND_CHAT_MESSAGE_REQ ->
               IF a.ok /\ b.ok THEN [type |-> "SEND_CHAT", to |-> a.out, text |-> b.out]
               ELSE Plain("BAD_COMMAND")
          [] OTHER -> Plain("UNKNOWN")
  BY UnderstoodIs
<1>3. LET Is(x) == t.ok /\ t.out = x
      IN  /\ Is(COMMANDTYPE_LOGIN_REQ) => Encoded(frame) = LoginsOf(frame)
          /\ Is(COMMANDTYPE_SHOW_INBOX_REQ) => Encoded(frame) = {Plain("SHOW_INBOX")}
          /\ Is(COMMANDTYPE_GET_MAIL_REQ) => Encoded(frame) = GetsOf(frame)
          /\ Is(COMMANDTYPE_DELETE_MAIL_REQ) => Encoded(frame) = DeletesOf(frame)
          /\ Is(COMMANDTYPE_COMPOSE_REQ) => Encoded(frame) = ComposesOf(frame)
          /\ Is(COMMANDTYPE_QUIT_REQ) => Encoded(frame) = {Plain("QUIT")}
          /\ Is(COMMANDTYPE_SHOW_ONLINE_USERS_REQ)
               => Encoded(frame) = {Plain("SHOW_ONLINE_USERS")}
          /\ Is(COMMANDTYPE_SEND_CHAT_MESSAGE_REQ) => Encoded(frame) = ChatsOf(frame)
          /\ (\A x \in Int32 : Begins(frame, x) =>
                x \notin {COMMANDTYPE_LOGIN_REQ, COMMANDTYPE_SHOW_INBOX_REQ,
                          COMMANDTYPE_GET_MAIL_REQ, COMMANDTYPE_DELETE_MAIL_REQ,
                          COMMANDTYPE_COMPOSE_REQ, COMMANDTYPE_QUIT_REQ,
                          COMMANDTYPE_SHOW_ONLINE_USERS_REQ,
                          COMMANDTYPE_SEND_CHAT_MESSAGE_REQ})
               => Encoded(frame) = {}
  BY EncodedOnce
<1>5. /\ COMMANDTYPE_LOGIN_REQ \in Int32 /\ COMMANDTYPE_GET_MAIL_REQ \in Int32
      /\ COMMANDTYPE_DELETE_MAIL_REQ \in Int32 /\ COMMANDTYPE_COMPOSE_REQ \in Int32
      /\ COMMANDTYPE_SEND_CHAT_MESSAGE_REQ \in Int32
  BY TypeAssumption
<1>6. \A type \in {"SHOW_INBOX", "QUIT", "SHOW_ONLINE_USERS"} :
        Means({Plain(type)}, Plain(type))
  BY DEF Means, IsRequest, Agree, Plain
<1>7. \A type \in {"NO_TYPE", "UNKNOWN"} : Means({}, Plain(type))
  BY DEF Means, IsRequest, Plain
<1>8. CASE ~t.ok
  BY <1>1, <1>2, <1>3, <1>7, <1>8
<1>9. CASE t.ok /\ t.out = COMMANDTYPE_LOGIN_REQ
  <2>1. Begins(frame, COMMANDTYPE_LOGIN_REQ) /\ DWordSize \in 0..Len(frame)
        /\ p = ReadUpto(frame, DWordSize)
    BY <1>1, <1>5, <1>9
  <2>2. Understood(frame) =
          IF a.ok /\ b.ok THEN [type |-> "LOGIN", user |-> a.out, pass |-> b.out]
          ELSE Plain("BAD_LOGIN")
    <3> HIDE DEF a, b, c, id, t
    <3> QED
      BY <1>2, TypeValues, <1>9
  <2>3. Encoded(frame) = LoginsOf(frame)
    BY <1>3, <1>9
  <2> HIDE DEF p
  <2> QED
    BY <2>1, <2>2, <2>3, LoginMeant
<1>10. CASE t.ok /\ t.out = COMMANDTYPE_SEND_CHAT_MESSAGE_REQ
  <2>1. Begins(frame, COMMANDTYPE_SEND_CHAT_MESSAGE_REQ) /\ DWordSize \in 0..Len(frame)
        /\ p = ReadUpto(frame, DWordSize)
    BY <1>1, <1>5, <1>10
  <2>2. Understood(frame) =
          IF a.ok /\ b.ok THEN [type |-> "SEND_CHAT", to |-> a.out, text |-> b.out]
          ELSE Plain("BAD_COMMAND")
    <3> HIDE DEF a, b, c, id, t
    <3> QED
      BY <1>2, TypeValues, <1>10
  <2>3. Encoded(frame) = ChatsOf(frame)
    BY <1>3, <1>10
  <2> HIDE DEF p
  <2> QED
    BY <2>1, <2>2, <2>3, ChatMeant
<1>11. CASE t.ok /\ t.out = COMMANDTYPE_COMPOSE_REQ
  <2>1. Begins(frame, COMMANDTYPE_COMPOSE_REQ) /\ DWordSize \in 0..Len(frame)
        /\ p = ReadUpto(frame, DWordSize)
    BY <1>1, <1>5, <1>11
  <2>2. Understood(frame) =
          IF a.ok THEN IF b.ok /\ c.ok
                       THEN [type |-> "COMPOSE", to |-> Recipients(a.out),
                             subject |-> b.out, body |-> c.out]
                       ELSE Plain("BAD_COMMAND")
          ELSE Plain("BAD_COMMAND")
    <3> HIDE DEF a, b, c, id, t
    <3> QED
      BY <1>2, TypeValues, <1>11
  <2>3. Encoded(frame) = ComposesOf(frame)
    BY <1>3, <1>11
  <2> HIDE DEF p
  <2> QED
    BY <2>1, <2>2, <2>3, ComposeMeant
<1>12. CASE t.ok /\ t.out = COMMANDTYPE_GET_MAIL_REQ
  <2>1. Begins(frame, COMMANDTYPE_GET_MAIL_REQ) /\ DWordSize \in 0..Len(frame)
        /\ p = ReadUpto(frame, DWordSize)
    BY <1>1, <1>5, <1>12
  <2>2. Understood(frame) = MailIdRead(p, "GET_MAIL")
    <3> HIDE DEF a, b, c, id, t
    <3> QED
      BY <1>2, TypeValues, <1>12
  <2>3. Encoded(frame) = GetsOf(frame)
    BY <1>3, <1>12
  <2> HIDE DEF p
  <2> QED
    BY <2>1, <2>2, <2>3, MailIdMeant DEF GetsOf
<1>13. CASE t.ok /\ t.out = COMMANDTYPE_DELETE_MAIL_REQ
  <2>1. Begins(frame, COMMANDTYPE_DELETE_MAIL_REQ) /\ DWordSize \in 0..Len(frame)
        /\ p = ReadUpto(frame, DWordSize)
    BY <1>1, <1>5, <1>13
  <2>2. Understood(frame) = MailIdRead(p, "DELETE_MAIL")
    <3> HIDE DEF a, b, c, id, t
    <3> QED
      BY <1>2, TypeValues, <1>13
  <2>3. Encoded(frame) = DeletesOf(frame)
    BY <1>3, <1>13
  <2> HIDE DEF p
  <2> QED
    BY <2>1, <2>2, <2>3, MailIdMeant DEF DeletesOf
<1>14. CASE t.ok /\ t.out \in {COMMANDTYPE_SHOW_INBOX_REQ, COMMANDTYPE_QUIT_REQ,
                               COMMANDTYPE_SHOW_ONLINE_USERS_REQ}
  <2> HIDE DEF a, b, c, id, t
  <2>1. CASE t.out = COMMANDTYPE_SHOW_INBOX_REQ
    <3>1. Understood(frame) = Plain("SHOW_INBOX")
      BY <1>2, TypeValues, <1>14, <2>1
    <3>2. Encoded(frame) = {Plain("SHOW_INBOX")}
      BY <1>3, <1>14, <2>1
    <3>3. Means({Plain("SHOW_INBOX")}, Plain("SHOW_INBOX"))
      BY <1>6
    <3> QED
      BY <3>1, <3>2, <3>3
  <2>2. CASE t.out = COMMANDTYPE_QUIT_REQ
    <3>1. Understood(frame) = Plain("QUIT")
      BY <1>2, TypeValues, <1>14, <2>2
    <3>2. Encoded(frame) = {Plain("QUIT")}
      BY <1>3, <1>14, <2>2
    <3>3. Means({Plain("QUIT")}, Plain("QUIT"))
      BY <1>6
    <3> QED
      BY <3>1, <3>2, <3>3
  <2>3. CASE t.out = COMMANDTYPE_SHOW_ONLINE_USERS_REQ
    <3>1. Understood(frame) = Plain("SHOW_ONLINE_USERS")
      BY <1>2, TypeValues, <1>14, <2>3
    <3>2. Encoded(frame) = {Plain("SHOW_ONLINE_USERS")}
      BY <1>3, <1>14, <2>3
    <3>3. Means({Plain("SHOW_ONLINE_USERS")}, Plain("SHOW_ONLINE_USERS"))
      BY <1>6
    <3> QED
      BY <3>1, <3>2, <3>3
  <2> QED
    BY <1>14, <2>1, <2>2, <2>3
<1>15. CASE t.ok /\ t.out \notin {COMMANDTYPE_LOGIN_REQ, COMMANDTYPE_SHOW_INBOX_REQ,
                                  COMMANDTYPE_GET_MAIL_REQ, COMMANDTYPE_DELETE_MAIL_REQ,
                                  COMMANDTYPE_COMPOSE_REQ, COMMANDTYPE_QUIT_REQ,
                                  COMMANDTYPE_SHOW_ONLINE_USERS_REQ,
                                  COMMANDTYPE_SEND_CHAT_MESSAGE_REQ}
  <2> HIDE DEF a, b, c, id, t
  <2>1. Understood(frame) = Plain("UNKNOWN")
    BY <1>2, <1>15
  <2>2. Encoded(frame) = {}
    BY <1>1, <1>3, <1>15
  <2> QED
    BY <1>7, <2>1, <2>2
<1> HIDE DEF t
<1> QED
  BY <1>1, <1>8, <1>9, <1>10, <1>11, <1>12, <1>13, <1>14, <1>15
-----------------------------------------------------------------------------
(* What a handler makes of a frame has one of the known types.             *)
LEMMA UnderstoodType ==
  ASSUME NEW frame \in Seq(Byte)
  PROVE  LET u == Understood(frame)
         IN  /\ u.type \in {"LOGIN", "SHOW_INBOX", "GET_MAIL", "DELETE_MAIL", "COMPOSE", "QUIT",
                            "SHOW_ONLINE_USERS", "SEND_CHAT",
                            "NO_TYPE", "BAD_LOGIN", "BAD_COMMAND", "UNKNOWN"}
             /\ u.type \in {"GET_MAIL", "DELETE_MAIL"} => u.id \in Int32
<1> DEFINE start == ReadUpto(frame, 0)
           t == readForwardDWord(start)
           p == t.pack
           a == readForwardStringField(p)
           b == readForwardStringField(a.pack)
           c == readForwardStringField(b.pack)
           u == Understood(frame)
           Known(v) == /\ v.type \in {"LOGIN", "SHOW_INBOX", "GET_MAIL", "DELETE_MAIL",
                                      "COMPOSE", "QUIT", "SHOW_ONLINE_USERS", "SEND_CHAT",
                                      "NO_TYPE", "BAD_LOGIN", "BAD_COMMAND", "UNKNOWN"}
                       /\ v.type \in {"GET_MAIL", "DELETE_MAIL"} => v.id \in Int32
           login == [type |-> "LOGIN", user |-> a.out, pass |-> b.out]
           chat == [type |-> "SEND_CHAT", to |-> a.out, text |-> b.out]
           mail == [type |-> "COMPOSE", to |-> Recipients(a.out), subject |-> b.out,
                    body |-> c.out]
<1>1. \/ u = MailIdRead(p, "GET_MAIL") /\ t.ok
      \/ u = MailIdRead(p, "DELETE_MAIL") /\ t.ok
      \/ u = login \/ u = chat \/ u = mail
      \/ u = Plain("SHOW_INBOX") \/ u = Plain("QUIT") \/ u = Plain("SHOW_ONLINE_USERS")
      \/ u = Plain("NO_TYPE") \/ u = Plain("BAD_LOGIN") \/ u = Plain("BAD_COMMAND")
      \/ u = Plain("UNKNOWN")
  <2>1. u =
        IF ~t.ok THEN Plain("NO_TYPE") ELSE
        CASE t.out = COMMANDTYPE_LOGIN_REQ ->
               IF a.ok /\ b.ok THEN [type |-> "LOGIN", user |-> a.out, pass |-> b.out]
               ELSE Plain("BAD_LOGIN")
          [] t.out = COMMANDTYPE_SHOW_INBOX_REQ -> Plain("SHOW_INBOX")
          [] t.out = COMMANDTYPE_GET_MAIL_REQ -> MailIdRead(p, "GET_MAIL")
          [] t.out = COMMANDTYPE_DELETE_MAIL_REQ -> MailIdRead(p, "DELETE_MAIL")
          [] t.out = COMMANDTYPE_COMPOSE_REQ ->
               IF a.ok THEN IF b.ok /\ c.ok
                            THEN [type |-> "COMPOSE", to |-> Recipients(a.out),
                                  subject |-> b.out, body |-> c.out]
                            ELSE Plain("BAD_COMMAND")
               ELSE Plain("BAD_COMMAND")
          [] t.out = COMMANDTYPE_QUIT_REQ -> Plain("QUIT")
          [] t.out = COMMANDTYPE_SHOW_ONLINE_USERS_REQ -> Plain("SHOW_ONLINE_USERS")
          [] t.out = COMMANDTYPE_SEND_CHAT_MESSAGE_REQ ->
               IF a.ok /\ b.ok THEN [type |-> "SEND_CHAT", to |-> a.out, text |-> b.out]
               ELSE Plain("BAD_COMMAND")
          [] OTHER -> Plain("UNKNOWN")
    BY UnderstoodIs
  <2>2. t.ok \in BOOLEAN
    BY BeginsWith
  <2> HIDE DEF u, a, b, c, t, p
  <2>3. CASE ~t.ok
    BY <2>1, <2>3
  <2>4. CASE t.ok /\ t.out = COMMANDTYPE_LOGIN_REQ
    BY <2>1, <2>4, TypeValues
  <2>5. CASE t.ok /\ t.out = COMMANDTYPE_SEND_CHAT_MESSAGE_REQ
    BY <2>1, <2>5, TypeValues
  <2>6. CASE t.ok /\ t.out = COMMANDTYPE_COMPOSE_REQ
    BY <2>1, <2>6, TypeValues
  <2>7. CASE t.ok /\ t.out = COMMANDTYPE_GET_MAIL_REQ
    BY <2>1, <2>7, TypeValues
  <2>8. CASE t.ok /\ t.out = COMMANDTYPE_DELETE_MAIL_REQ
    BY <2>1, <2>8, TypeValues
  <2>9. CASE t.ok /\ t.out \in {COMMANDTYPE_SHOW_INBOX_REQ, COMMANDTYPE_QUIT_REQ,
                                COMMANDTYPE_SHOW_ONLINE_USERS_REQ}
    <3>1. CASE t.out = COMMANDTYPE_SHOW_INBOX_REQ
      BY <2>1, <2>9, <3>1, TypeValues
    <3>2. CASE t.out = COMMANDTYPE_QUIT_REQ
      BY <2>1, <2>9, <3>2, TypeValues
    <3>3. CASE t.out = COMMANDTYPE_SHOW_ONLINE_USERS_REQ
      BY <2>1, <2>9, <3>3, TypeValues
    <3> QED
      BY <2>9, <3>1, <3>2, <3>3
  <2>10. CASE t.ok /\ t.out \notin {COMMANDTYPE_LOGIN_REQ, COMMANDTYPE_SHOW_INBOX_REQ,
                                    COMMANDTYPE_GET_MAIL_REQ, COMMANDTYPE_DELETE_MAIL_REQ,
                                    COMMANDTYPE_COMPOSE_REQ, COMMANDTYPE_QUIT_REQ,
                                    COMMANDTYPE_SHOW_ONLINE_USERS_REQ,
                                    COMMANDTYPE_SEND_CHAT_MESSAGE_REQ}
    BY <2>1, <2>10
  <2> HIDE DEF login, chat, mail
  <2> QED
    BY <2>2, <2>3, <2>4, <2>5, <2>6, <2>7, <2>8, <2>9, <2>10
<1>2. ASSUME t.ok, NEW x \in {"GET_MAIL", "DELETE_MAIL"}
      PROVE  Known(MailIdRead(p, x))
  <2> DEFINE id == readForwardDWord(p)
  <2>1. p = ReadUpto(frame, DWordSize) /\ DWordSize \in 0..Len(frame)
    BY <1>2, BeginsWith
  <2> HIDE DEF p
  <2>2. id.ok => id.out \in Int32
    BY <2>1, DWordRead
  <2>3. MailIdRead(p, x) = IF id.ok THEN [type |-> x, id |-> id.out] ELSE Plain("BAD_COMMAND")
    BY DEF MailIdRead
  <2> HIDE DEF id
  <2> QED
    BY <2>2, <2>3 DEF Plain
<1>3. ASSUME NEW x \in {"SHOW_INBOX", "QUIT", "SHOW_ONLINE_USERS",
                        "NO_TYPE", "BAD_LOGIN", "BAD_COMMAND", "UNKNOWN"}
      PROVE  Known(Plain(x))
  BY DEF Plain
<1>4. Known(login) /\ Known(chat) /\ Known(mail)
  OBVIOUS
<1>5. Known(u)
  <2> HIDE DEF Known, u, a, b, c, t, p, login, chat, mail
  <2> QED
    BY <1>1, <1>2, <1>3, <1>4
<1> QED
  BY <1>5

(* The packets a client makes are packets.                                 *)
LEMMA DWordWritten ==
  ASSUME NEW p \in Packets, NEW v \in Int
  PROVE  writeForwardDWord(p, v) \in Packets
  BY htonlBytes, WriteForwardWrites DEF writeForwardDWord

LEMMA FieldWritten ==
  ASSUME NEW p \in Packets, NEW str \in Seq(Byte)
  PROVE  writeForwardStringField(p, str) \in Packets
<1>1. CASE Len(str) + 1 > MAX_FIELD_LENGTH
  BY <1>1 DEF writeForwardStringField
<1>2. CASE ~(Len(str) + 1 > MAX_FIELD_LENGTH)
  <2>1. writeForwardDWord(p, Len(str) + 1) \in Packets
    <3>1. Len(str) + 1 \in Int
      OBVIOUS
    <3> QED
      BY <3>1, DWordWritten
  <2>2. Append(str, NUL) \in Seq(Byte)
    <3>1. NUL \in Byte
      BY PacketAssumption DEF Byte, NUL
    <3> QED
      BY <3>1, AppendProperties
  <2>3. writeForwardStringField(p, str)
          = writeForward(writeForwardDWord(p, Len(str) + 1), Append(str, NUL))
    BY <1>2 DEF writeForwardStringField
  <2> QED
    BY <2>1, <2>2, <2>3, WriteForwardWrites
<1> QED
  BY <1>1, <1>2

LEMMA TypeWritten ==
  ASSUME NEW t \in Int
  PROVE  TypePacket(t) \in Packets
<1>1. EmptyPacket \in Packets
  BY DEF EmptyPacket, Packets
<1> QED
  BY <1>1, DWordWritten DEF TypePacket

LEMMA TypesAreNumbers ==
  /\ COMMANDTYPE_LOGIN_REQ \in Int /\ COMMANDTYPE_SHOW_INBOX_REQ \in Int
  /\ COMMANDTYPE_GET_MAIL_REQ \in Int /\ COMMANDTYPE_DELETE_MAIL_REQ \in Int
  /\ COMMANDTYPE_COMPOSE_REQ \in Int /\ COMMANDTYPE_QUIT_REQ \in Int
  /\ COMMANDTYPE_SHOW_ONLINE_USERS_REQ \in Int /\ COMMANDTYPE_SEND_CHAT_MESSAGE_REQ \in Int
  BY DEF COMMANDTYPE_LOGIN_REQ, COMMANDTYPE_SHOW_INBOX_REQ, COMMANDTYPE_GET_MAIL_REQ,
         COMMANDTYPE_DELETE_MAIL_REQ, COMMANDTYPE_COMPOSE_REQ, COMMANDTYPE_QUIT_REQ,
         COMMANDTYPE_SHOW_ONLINE_USERS_REQ, COMMANDTYPE_SEND_CHAT_MESSAGE_REQ

LEMMA PacketsMade ==
  /\ \A u, p \in Seq(Byte) : LoginPacket(u, p).m_buff \in Seq(Byte)
  /\ \A to, s, b \in Seq(Byte) : ComposePacket(to, s, b).m_buff \in Seq(Byte)
  /\ \A to, t \in Seq(Byte) : ChatPacket(to, t).m_buff \in Seq(Byte)
  /\ \A t \in Int : TypePacket(t).m_buff \in Seq(Byte)
  /\ \A t, id \in Int : MailIdPacket(t, id).m_buff \in Seq(Byte)
<1>1. \A p \in Packets : p.m_buff \in Seq(Byte)
  BY BytesLeftType
<1>2. \A t \in Int : TypePacket(t) \in Packets
  BY TypeWritten
<1>3. \A p \in Packets, s \in Seq(Byte) : writeForwardStringField(p, s) \in Packets
  BY FieldWritten
<1>4. \A p \in Packets, v \in Int : writeForwardDWord(p, v) \in Packets
  BY DWordWritten
<1>5. \A u, p \in Seq(Byte) : LoginPacket(u, p) \in Packets
  BY <1>2, <1>3, TypesAreNumbers DEF LoginPacket
<1>6. \A to, s, b \in Seq(Byte) : ComposePacket(to, s, b) \in Packets
  BY <1>2, <1>3, TypesAreNumbers DEF ComposePacket
<1>7. \A to, t \in Seq(Byte) : ChatPacket(to, t) \in Packets
  BY <1>2, <1>3, TypesAreNumbers DEF ChatPacket
<1>8. \A t, id \in Int : MailIdPacket(t, id) \in Packets
  BY <1>2, <1>4 DEF MailIdPacket
<1> QED
  BY <1>1, <1>2, <1>5, <1>6, <1>7, <1>8
-----------------------------------------------------------------------------
(* The line that is read next, and the words in it.                        *)
LEMMA FromIs ==
  ASSUME NEW T, NEW s \in Seq(T), NEW i \in 1..(Len(s) + 1)
  PROVE  /\ From(s, i) \in Seq(T) /\ Len(From(s, i)) = Len(s) - i + 1
         /\ \A k \in 1..(Len(s) - i + 1) : From(s, i)[k] = s[i + k - 1]
<1>1. Len(s) \in 0..Len(s) /\ i <= Len(s) + 1
  OBVIOUS
<1> QED
  BY <1>1, Part DEF From

LEMMA UptoIsPart ==
  ASSUME NEW T, NEW s \in Seq(T), NEW i \in 1..(Len(s) + 1)
  PROVE  /\ SubSeq(s, 1, i - 1) \in Seq(T) /\ Len(SubSeq(s, 1, i - 1)) = i - 1
         /\ \A k \in 1..(i - 1) : SubSeq(s, 1, i - 1)[k] = s[k]
<1>1. /\ 1 \in 1..(Len(s) + 1) /\ i - 1 \in 0..Len(s) /\ 1 <= (i - 1) + 1
      /\ (i - 1) - 1 + 1 = i - 1
  OBVIOUS
<1>2. \A k \in 1..(i - 1) : 1 + k - 1 = k
  OBVIOUS
<1> QED
  BY <1>1, <1>2, Part

LEMMA LineLengthIs ==
  ASSUME NEW s \in Seq(Byte), s # <<>>
  PROVE  /\ LineLength(s) \in 1..Len(s) /\ LineLength(s) <= MAX_USER_INPUT_LINE - 1
         /\ \A j \in 1..(LineLength(s) - 1) : s[j] # NewLine
         /\ \/ s[LineLength(s)] = NewLine
            \/ LineLength(s) = MAX_USER_INPUT_LINE - 1
            \/ LineLength(s) = Len(s)
<1> DEFINE n == FirstIn(s, {NewLine}, 1)
           M == MAX_USER_INPUT_LINE
<1>1. Len(s) \in Nat \ {0} /\ 1 \in 1..(Len(s) + 1)
  OBVIOUS
<1>2. M \in Nat /\ M >= 2
  BY LimitAssumption, PacketAssumption
<1>3. StopsAt(s, {NewLine}, 1, n)
  BY <1>1, FirstInStops
<1>4. /\ n \in 1..(Len(s) + 1)
      /\ \A j \in 1..(n - 1) : s[j] # NewLine
      /\ n <= Len(s) => s[n] = NewLine
  BY <1>3 DEF StopsAt
<1>5. LineLength(s) = IF n < M THEN Min({n, Len(s)}) ELSE M - 1
  BY DEF LineLength
<1> HIDE DEF n, M
<1>6. Min({n, Len(s)}) = IF n <= Len(s) THEN n ELSE Len(s)
  <2>1. /\ Min({n, Len(s)}) \in {n, Len(s)}
        /\ \A x \in {n, Len(s)} : Min({n, Len(s)}) <= x
    <3>1. {n, Len(s)} \in SUBSET Nat /\ {n, Len(s)} # {}
      BY <1>1, <1>4
    <3> QED
      BY <3>1, MinIsLeast
  <2> QED
    BY <1>1, <1>4, <2>1
<1>7. CASE n < M /\ n <= Len(s)
  <2>1. LineLength(s) = n
    BY <1>5, <1>6, <1>7
  <2> QED
    BY <1>1, <1>2, <1>4, <1>7, <2>1 DEF M
<1>8. CASE n < M /\ ~(n <= Len(s))
  <2>1. n = Len(s) + 1 /\ LineLength(s) = Len(s)
    BY <1>1, <1>4, <1>5, <1>6, <1>8
  <2> QED
    BY <1>1, <1>2, <1>4, <1>8, <2>1 DEF M
<1>9. CASE ~(n < M)
  <2>1. LineLength(s) = M - 1
    BY <1>5, <1>9
  <2>2. M - 1 \in 1..Len(s) /\ M - 1 <= n - 1
    BY <1>1, <1>2, <1>4, <1>9
  <2> QED
    BY <1>2, <1>4, <2>1, <2>2 DEF M
<1> QED
  BY <1>7, <1>8, <1>9
LEMMA WordTypes ==
  ASSUME NEW s \in Seq(Byte)
  PROVE  /\ SkipBlanks(s) \in Seq(Byte) /\ Word(s) \in Seq(Byte)
         /\ AfterWord(s) \in Seq(Byte) /\ DataOf(s) \in Seq(Byte)
<1>1. ASSUME NEW u \in Seq(Byte), NEW S
      PROVE  FirstIn(u, S, 1) \in 1..(Len(u) + 1)
  <2>1. 1 \in 1..(Len(u) + 1)
    OBVIOUS
  <2> QED
    BY <2>1, FirstInStops DEF StopsAt
<1>2. ASSUME NEW u \in Seq(Byte)
      PROVE  SkipBlanks(u) \in Seq(Byte)
  BY <1>1, FromIs DEF SkipBlanks
<1>3. ASSUME NEW u \in Seq(Byte)
      PROVE  Word(u) \in Seq(Byte) /\ AfterWord(u) \in Seq(Byte)
  <2> DEFINE w == SkipBlanks(u)
  <2>1. w \in Seq(Byte)
    BY <1>2
  <2>2. Word(u) = SubSeq(w, 1, FirstIn(w, Blank, 1) - 1)
        /\ AfterWord(u) = From(w, FirstIn(w, Blank, 1))
    BY DEF Word, AfterWord
  <2> HIDE DEF w
  <2> QED
    BY <1>1, <2>1, <2>2, FromIs, UptoIsPart
<1>4. DataOf(s) \in Seq(Byte)
  BY <1>2, <1>3 DEF DataOf
<1> QED
  BY <1>2, <1>3, <1>4

LEMMA InputType ==
  ASSUME NEW buf \in Seq(Byte)
  PROVE  Input(buf) \in Seq(Byte)
<1> DEFINE z == FirstIn(buf, {NUL}, 1)
<1>1. 1 \in 1..(Len(buf) + 1) /\ Len(buf) \in Nat
  OBVIOUS
<1>2. z \in 1..(Len(buf) + 1)
  BY <1>1, FirstInStops DEF StopsAt
<1>3. Input(buf) = SubSeq(buf, 1, z - 2)
  BY DEF Input
<1> HIDE DEF z
<1>4. \A k \in 1..(z - 2) : k \in 1..Len(buf)
  BY <1>1, <1>2
<1>5. \A k \in 1..(z - 2) : buf[k] \in Byte
  BY <1>4, ElementOfSeq
<1>6. 1 \in Int /\ z - 2 \in Int
  BY <1>1, <1>2
<1> QED
  BY <1>3, <1>5, <1>6, SubSeqProperties

(* The line the client has in its buffer, and what it leaves.              *)
LEMMA LineTypes ==
  ASSUME stdin \in Seq(Byte), stdin # <<>>
  PROVE  /\ Buffer \in Seq(Byte) /\ Line \in Seq(Byte)
         /\ From(stdin, LineLength(stdin) + 1) \in Seq(Byte)
<1>1. LineLength(stdin) \in 1..Len(stdin)
  BY LineLengthIs
<1>2. /\ LineLength(stdin) + 1 \in 1..(Len(stdin) + 1)
      /\ (LineLength(stdin) + 1) - 1 = LineLength(stdin)
  BY <1>1
<1>3. Buffer \in Seq(Byte)
  <2>1. SubSeq(stdin, 1, (LineLength(stdin) + 1) - 1) \in Seq(Byte)
    BY <1>2, UptoIsPart
  <2> QED
    BY <1>2, <2>1 DEF Buffer
<1> QED
  BY <1>2, <1>3, FromIs, InputType DEF Line

(* What is sent for one line.                                              *)
LEMMA SentType ==
  ASSUME NEW line \in Seq(Byte), NEW packet \in Sent(line)
  PROVE  packet.m_buff \in Seq(Byte)
<1>1. CASE packet \in PlainRequests(line)
  <2>1. PICK c \in PlainCommand : packet = TypePacket(c[2])
    BY <1>1 DEF PlainRequests
  <2>2. c[2] \in Int
    BY TypesAreNumbers DEF PlainCommand
  <2> QED
    BY <2>1, <2>2, PacketsMade
<1>2. CASE packet \in MailRequests(line)
  <2> DEFINE id == Numeral(AfterWord(line))
  <2>1. PICK c \in MailCommand : packet = MailIdPacket(c[2], id.value) /\ id.ok
    BY <1>2 DEF MailRequests
  <2>2. c[2] \in Int
    BY TypesAreNumbers DEF MailCommand
  <2>3. id.value \in Int
    <3>1. id.ok => id.value \in Int32
      BY DEF Numeral
    <3>2. Int32 \subseteq Int
      BY DEF Int32
    <3> QED
      BY <2>1, <3>1, <3>2
  <2> HIDE DEF id
  <2> QED
    BY <2>1, <2>2, <2>3, PacketsMade
<1>3. CASE packet \in ChatRequests(line)
  <2> DEFINE dest == Word(AfterWord(line))
             text == SkipBlanks(AfterWord(AfterWord(line)))
  <2>1. dest # <<>> /\ packet = ChatPacket(SubSeq(dest, 1, Len(dest) - 1), text)
    BY <1>3 DEF ChatRequests
  <2>2. dest \in Seq(Byte) /\ text \in Seq(Byte)
    BY WordTypes
  <2> HIDE DEF dest, text
  <2>3. SubSeq(dest, 1, Len(dest) - 1) \in Seq(Byte)
    <3>1. Len(dest) \in 1..(Len(dest) + 1)
      BY <2>1, <2>2
    <3> QED
      BY <2>2, <3>1, UptoIsPart
  <2> QED
    BY <2>1, <2>2, <2>3, PacketsMade
<1> QED
  BY <1>1, <1>2, <1>3 DEF Sent
-----------------------------------------------------------------------------
(* The inductive invariant of the way of a request: the arguments that are *)
(* held fit the line that is read next, and what has been understood is    *)
(* what the frame that is still there says.                                *)
FieldsHeld(w) == IF w \in {"password", "subject"} THEN 1 ELSE IF w = "text" THEN 2 ELSE 0
ReadRight ==
    understood # Nothing => understood = Understood(wire) /\ place \in {"answered", "foreign"}
PathInv == PathTypeOK /\ Len(fields) = FieldsHeld(place) /\ ReadRight

Known(u) == /\ u.type \in {"NOTHING", "LOGIN", "SHOW_INBOX", "GET_MAIL", "DELETE_MAIL",
                           "COMPOSE", "QUIT", "SHOW_ONLINE_USERS", "SEND_CHAT",
                           "NO_TYPE", "BAD_LOGIN", "BAD_COMMAND", "UNKNOWN"}
            /\ u.type \in {"GET_MAIL", "DELETE_MAIL"} => u.id \in Int32

LEMMA PathInvParts ==
  PathInv <=> /\ stdin \in Seq(Byte) /\ stdinEof \in BOOLEAN /\ script \in Seq(Byte)
              /\ place \in Reading \union {"sent", "refused", "answered", "foreign", "off"}
              /\ fields \in Seq(Seq(Byte)) /\ Len(fields) = FieldsHeld(place)
              /\ wire \in Seq(Byte) /\ Known(understood) /\ ReadRight
<1>1. Known(understood) <=>
        /\ understood.type \in {"GET_MAIL", "DELETE_MAIL"} => understood.id \in Int32
        /\ understood.type \in {"NOTHING", "LOGIN", "SHOW_INBOX", "GET_MAIL", "DELETE_MAIL",
                                "COMPOSE", "QUIT", "SHOW_ONLINE_USERS", "SEND_CHAT",
                                "NO_TYPE", "BAD_LOGIN", "BAD_COMMAND", "UNKNOWN"}
  BY DEF Known
<1>2. FieldsHeld(place) \in 0..2
  BY DEF FieldsHeld
<1> HIDE DEF Known, ReadRight
<1> QED
  BY <1>1, <1>2 DEF PathInv, PathTypeOK

LEMMA NothingKnown == Known(Nothing)
  BY DEF Known, Nothing

LEMMA PathInvInit == PathInit => PathInv
<1> SUFFICES ASSUME PathInit PROVE PathInv
  OBVIOUS
<1>1. /\ stdin \in Seq(Byte) /\ stdinEof \in BOOLEAN /\ script \in Seq(Byte)
      /\ fields = <<>> /\ understood = Nothing
  <2>1. stdin = <<>> /\ script = <<>> /\ fields = <<>> /\ understood = Nothing
    BY DEF PathInit
  <2>2. stdinEof \in BOOLEAN
    BY DEF PathInit
  <2>3. stdin \in Seq(Byte) /\ script \in Seq(Byte)
    BY <2>1
  <2> QED
    BY <2>1, <2>2, <2>3
<1>2. fields \in Seq(Seq(Byte)) /\ Len(fields) = 0
  BY <1>1
<1>3. place \in {"user", "foreign"} /\ wire \in Seq(Byte)
  <2>1. \A f \in Frames : f \in Seq(Byte)
    BY PathAssumption
  <2>2. <<>> \in Seq(Byte)
    OBVIOUS
  <2>3. (place = "user" /\ wire = <<>>) \/ (place = "foreign" /\ wire \in Frames)
    BY DEF PathInit
  <2> QED
    BY <2>1, <2>2, <2>3
<1>4. FieldsHeld(place) = 0
  BY <1>3 DEF FieldsHeld
<1> QED
  BY <1>1, <1>2, <1>3, <1>4, NothingKnown, PathInvParts DEF Reading, ReadRight

LEMMA PathInvNextParts ==
  ASSUME /\ stdin' \in Seq(Byte) /\ stdinEof' \in BOOLEAN /\ script' \in Seq(Byte)
         /\ place' \in Reading \union {"sent", "refused", "answered", "foreign", "off"}
         /\ fields' \in Seq(Seq(Byte)) /\ Len(fields') = FieldsHeld(place')
         /\ wire' \in Seq(Byte) /\ Known(understood)' /\ ReadRight'
  PROVE  PathInv'
<1> HIDE DEF Known, ReadRight, FieldsHeld, Reading
<1>1. (PathInv <=> /\ stdin \in Seq(Byte) /\ stdinEof \in BOOLEAN /\ script \in Seq(Byte)
                   /\ place \in Reading \union {"sent", "refused", "answered", "foreign", "off"}
                   /\ fields \in Seq(Seq(Byte)) /\ Len(fields) = FieldsHeld(place)
                   /\ wire \in Seq(Byte) /\ Known(understood) /\ ReadRight)'
  BY PathInvParts, PTL
<1> QED
  BY <1>1 DEF FieldsHeld, Reading

(* Each line that is read, with what it makes the client do next.          *)
LEMMA LineRead ==
  ASSUME PathInv, place \in Reading, NEW start \in Seq(Byte), RecvLine(start),
         place' \in Reading \union {"sent", "refused", "off"},
         fields' \in Seq(Seq(Byte)), Len(fields') = FieldsHeld(place'),
         wire' \in Seq(Byte)
  PROVE  PathInv'
<1>1. /\ stdin \in Seq(Byte) /\ stdinEof \in BOOLEAN /\ ReadRight /\ Known(understood)
  BY PathInvParts
<1>2. /\ stdin # <<>>
      /\ stdin' = From(stdin, LineLength(stdin) + 1)
      /\ script' = start \o Buffer
      /\ stdinEof' = stdinEof /\ understood' = understood
  BY DEF RecvLine, LineReady
<1>3. Buffer \in Seq(Byte) /\ stdin' \in Seq(Byte)
  BY <1>1, <1>2, LineTypes
<1>4. script' \in Seq(Byte)
  BY <1>2, <1>3, Joined
<1>5. understood = Nothing
  BY <1>1 DEF ReadRight, Reading
<1>6. ReadRight' /\ Known(understood)'
  BY <1>1, <1>2, <1>5 DEF ReadRight, Known, Nothing
<1> QED
  BY <1>1, <1>2, <1>3, <1>4, <1>6, PathInvNextParts
LEMMA GoesOn ==
  ASSUME PathInv, place \in Reading, NEW start \in Seq(Byte), RecvLine(start),
         NEW where \in Reading \union {"refused", "off"}, NEW args \in Seq(Seq(Byte)),
         Len(args) = FieldsHeld(where), GoOn(where, args)
  PROVE  PathInv'
<1>1. place' = where /\ fields' = args /\ wire' = wire
  BY DEF GoOn
<1>2. wire \in Seq(Byte)
  BY PathInvParts
<1>3. /\ place' \in Reading \union {"sent", "refused", "off"}
      /\ fields' \in Seq(Seq(Byte)) /\ Len(fields') = FieldsHeld(place') /\ wire' \in Seq(Byte)
  BY <1>1, <1>2 DEF Reading
<1> QED
  BY <1>3, LineRead

LEMMA Sends ==
  ASSUME PathInv, place \in Reading, NEW start \in Seq(Byte), RecvLine(start),
         NEW packet, packet.m_buff \in Seq(Byte), Send(packet)
  PROVE  PathInv'
<1>1. place' = "sent" /\ fields' = <<>> /\ wire' = packet.m_buff
  BY DEF Send
<1>2. fields' \in Seq(Seq(Byte)) /\ Len(fields') = 0 /\ FieldsHeld(place') = 0
  BY <1>1 DEF FieldsHeld
<1>3. /\ place' \in Reading \union {"sent", "refused", "off"}
      /\ fields' \in Seq(Seq(Byte)) /\ Len(fields') = FieldsHeld(place') /\ wire' \in Seq(Byte)
  BY <1>1, <1>2 DEF Reading
<1> QED
  BY <1>3, LineRead

LEMMA NoFields == <<>> \in Seq(Seq(Byte)) /\ Len(<<>>) = 0
  OBVIOUS

LEMMA GivesUp ==
  ASSUME PathInv, place \in Reading, NEW start \in Seq(Byte), RecvLine(start),
         NEW where \in {"refused", "off", "to"}, GoOn(where, <<>>)
  PROVE  PathInv'
<1>1. where \in Reading \union {"refused", "off"} /\ FieldsHeld(where) = 0
  BY DEF Reading, FieldsHeld
<1> QED
  BY <1>1, NoFields, GoesOn

LEMMA RecvArgKeeps ==
  ASSUME PathInv, NEW here \in Reading, NEW start \in Seq(Byte), NEW prefix,
         NEW next \in Reading, NEW otherwise \in {"refused", "off"},
         FieldsHeld(next) = FieldsHeld(here) + 1,
         RecvArg(here, start, prefix, next, otherwise)
  PROVE  PathInv'
<1>1. /\ place = here /\ RecvLine(start)
      /\ IF HasPrefixAndData(Line, prefix)
         THEN GoOn(next, Append(fields, DataOf(Line))) ELSE GoOn(otherwise, <<>>)
  BY DEF RecvArg
<1>2. stdin \in Seq(Byte) /\ fields \in Seq(Seq(Byte)) /\ Len(fields) = FieldsHeld(here)
  BY <1>1, PathInvParts
<1>3. CASE HasPrefixAndData(Line, prefix)
  <2>1. stdin # <<>>
    BY <1>1 DEF RecvLine, LineReady
  <2>2. DataOf(Line) \in Seq(Byte)
    BY <1>2, <2>1, LineTypes, WordTypes
  <2> DEFINE args == Append(fields, DataOf(Line))
  <2>3. args \in Seq(Seq(Byte)) /\ Len(args) = FieldsHeld(next)
    <3>1. args \in Seq(Seq(Byte)) /\ Len(args) = Len(fields) + 1
      BY <1>2, <2>2, AppendProperties
    <3> QED
      BY <1>2, <3>1
  <2>4. GoOn(next, args)
    BY <1>1, <1>3
  <2> HIDE DEF args
  <2> QED
    BY <1>1, <2>3, <2>4, GoesOn
<1>4. CASE ~HasPrefixAndData(Line, prefix)
  BY <1>1, <1>4, GivesUp
<1> QED
  BY <1>3, <1>4

LEMMA LoginKeeps == PathInv /\ CommandLogin => PathInv'
<1> SUFFICES ASSUME PathInv, CommandLogin PROVE PathInv'
  OBVIOUS
<1>1. CASE RecvArg("user", <<>>, PREFIX_INPUT_USER, "password", "off")
  <2>1. /\ "user" \in Reading /\ "password" \in Reading
        /\ FieldsHeld("password") = FieldsHeld("user") + 1
    BY DEF Reading, FieldsHeld
  <2>2. <<>> \in Seq(Byte)
    OBVIOUS
  <2> QED
    BY <1>1, <2>1, <2>2, RecvArgKeeps
<1>2. CASE RecvLastArg("password", PREFIX_INPUT_PASSWORD,
                       LAMBDA data : LoginPacket(fields[1], data), "off")
  <2>1. /\ place = "password" /\ RecvLine(script)
        /\ IF HasPrefixAndData(Line, PREFIX_INPUT_PASSWORD)
           THEN Send(LoginPacket(fields[1], DataOf(Line))) ELSE GoOn("off", <<>>)
    BY <1>2 DEF RecvLastArg
  <2>2. /\ stdin \in Seq(Byte) /\ fields \in Seq(Seq(Byte)) /\ Len(fields) = 1
        /\ script \in Seq(Byte) /\ place \in Reading
    BY <2>1, PathInvParts DEF FieldsHeld, Reading
  <2>3. CASE HasPrefixAndData(Line, PREFIX_INPUT_PASSWORD)
    <3>1. stdin # <<>>
      BY <2>1 DEF RecvLine, LineReady
    <3>2. DataOf(Line) \in Seq(Byte)
      BY <2>2, <3>1, LineTypes, WordTypes
    <3> DEFINE packet == LoginPacket(fields[1], DataOf(Line))
    <3>3. packet.m_buff \in Seq(Byte)
      <4>1. \A i \in 1..1 : fields[i] \in Seq(Byte)
        BY <2>2, ElementOfSeq
      <4> QED
        BY <3>2, <4>1, PacketsMade
    <3>4. Send(packet)
      BY <2>1, <2>3
    <3> HIDE DEF packet
    <3> QED
      BY <2>1, <2>2, <3>3, <3>4, Sends
  <2>4. CASE ~HasPrefixAndData(Line, PREFIX_INPUT_PASSWORD)
    BY <2>1, <2>2, <2>4, GivesUp
  <2> QED
    BY <2>3, <2>4
<1> QED
  BY <1>1, <1>2 DEF CommandLogin

LEMMA ComposeKeeps == PathInv /\ CommandCompose => PathInv'
<1> SUFFICES ASSUME PathInv, CommandCompose PROVE PathInv'
  OBVIOUS
<1>1. script \in Seq(Byte)
  BY PathInvParts
<1>2. CASE RecvArg("to", script, PREFIX_INPUT_TO, "subject", "refused")
  <2>1. /\ "to" \in Reading /\ "subject" \in Reading
        /\ FieldsHeld("subject") = FieldsHeld("to") + 1
    BY DEF Reading, FieldsHeld
  <2> QED
    BY <1>1, <1>2, <2>1, RecvArgKeeps
<1>3. CASE RecvArg("subject", script, PREFIX_INPUT_SUBJECT, "text", "refused")
  <2>1. /\ "subject" \in Reading /\ "text" \in Reading
        /\ FieldsHeld("text") = FieldsHeld("subject") + 1
    BY DEF Reading, FieldsHeld
  <2> QED
    BY <1>1, <1>3, <2>1, RecvArgKeeps
<1>4. CASE RecvLastArg("text", PREFIX_INPUT_TEXT,
                       LAMBDA data : ComposePacket(fields[1], fields[2], data), "refused")
  <2>1. /\ place = "text" /\ RecvLine(script)
        /\ IF HasPrefixAndData(Line, PREFIX_INPUT_TEXT)
           THEN Send(ComposePacket(fields[1], fields[2], DataOf(Line)))
           ELSE GoOn("refused", <<>>)
    BY <1>4 DEF RecvLastArg
  <2>2. /\ stdin \in Seq(Byte) /\ fields \in Seq(Seq(Byte)) /\ Len(fields) = 2
        /\ place \in Reading
    BY <2>1, PathInvParts DEF FieldsHeld, Reading
  <2>3. CASE HasPrefixAndData(Line, PREFIX_INPUT_TEXT)
    <3>1. stdin # <<>>
      BY <2>1 DEF RecvLine, LineReady
    <3>2. DataOf(Line) \in Seq(Byte)
      BY <2>2, <3>1, LineTypes, WordTypes
    <3>3. \A i \in 1..2 : fields[i] \in Seq(Byte)
      BY <2>2, ElementOfSeq
    <3> DEFINE packet == ComposePacket(fields[1], fields[2], DataOf(Line))
    <3>4. packet.m_buff \in Seq(Byte)
      BY <3>2, <3>3, PacketsMade
    <3>5. Send(packet)
      BY <2>1, <2>3
    <3> HIDE DEF packet
    <3> QED
      BY <1>1, <2>1, <2>2, <3>4, <3>5, Sends
  <2>4. CASE ~HasPrefixAndData(Line, PREFIX_INPUT_TEXT)
    BY <1>1, <2>1, <2>2, <2>4, GivesUp
  <2> QED
    BY <2>3, <2>4
<1> QED
  BY <1>2, <1>3, <1>4 DEF CommandCompose

LEMMA UserRequestKeeps == PathInv /\ HandleUserRequest => PathInv'
<1> SUFFICES ASSUME PathInv, HandleUserRequest PROVE PathInv'
  OBVIOUS
<1>1. /\ place = "command" /\ RecvLine(<<>>)
      /\ \/ GoOn("to", <<>>) \/ GoOn("refused", <<>>)
         \/ \E packet \in Sent(Line) : Send(packet)
  BY DEF HandleUserRequest
<1>2. place \in Reading /\ <<>> \in Seq(Byte) /\ stdin \in Seq(Byte) /\ stdin # <<>>
  BY <1>1, PathInvParts DEF Reading, RecvLine, LineReady
<1>3. CASE GoOn("to", <<>>) \/ GoOn("refused", <<>>)
  BY <1>1, <1>2, <1>3, GivesUp
<1>4. CASE \E packet \in Sent(Line) : Send(packet)
  <2>1. PICK packet \in Sent(Line) : Send(packet)
    BY <1>4
  <2>2. Line \in Seq(Byte)
    BY <1>2, LineTypes
  <2>3. packet.m_buff \in Seq(Byte)
    BY <2>2, SentType
  <2> QED
    BY <1>1, <1>2, <2>1, <2>3, Sends
<1> QED
  BY <1>1, <1>3, <1>4
LEMMA InputEndsKeeps == PathInv /\ InputEnds => PathInv'
<1> SUFFICES ASSUME PathInv, InputEnds PROVE PathInv'
  OBVIOUS
<1>1. /\ place \in Reading /\ place' \in {"refused", "off"} /\ fields' = <<>>
      /\ wire' = wire /\ stdin' = stdin /\ stdinEof' = stdinEof /\ script' = script
      /\ understood' = understood
  BY DEF InputEnds, GoOn, inputVars
<1>2. /\ stdin \in Seq(Byte) /\ stdinEof \in BOOLEAN /\ script \in Seq(Byte)
      /\ wire \in Seq(Byte) /\ Known(understood) /\ ReadRight
  BY PathInvParts
<1>3. fields' \in Seq(Seq(Byte)) /\ Len(fields') = FieldsHeld(place')
  BY <1>1, NoFields DEF FieldsHeld
<1>4. understood = Nothing
  BY <1>1, <1>2 DEF ReadRight, Reading
<1>5. ReadRight' /\ Known(understood)'
  BY <1>1, <1>2, <1>4 DEF ReadRight, Known, Nothing
<1> QED
  BY <1>1, <1>2, <1>3, <1>5, PathInvNextParts

LEMMA ServerReadsKeeps == PathInv /\ ServerReads => PathInv'
<1> SUFFICES ASSUME PathInv, ServerReads PROVE PathInv'
  OBVIOUS
<1>1. /\ place \in {"sent", "foreign"} /\ place' = IF place = "sent" THEN "answered" ELSE place
      /\ understood' = Understood(wire)
      /\ fields' = fields /\ wire' = wire /\ stdin' = stdin /\ stdinEof' = stdinEof
      /\ script' = script
  BY DEF ServerReads, inputVars
<1>2. /\ stdin \in Seq(Byte) /\ stdinEof \in BOOLEAN /\ script \in Seq(Byte)
      /\ wire \in Seq(Byte) /\ fields \in Seq(Seq(Byte)) /\ Len(fields) = FieldsHeld(place)
  BY PathInvParts
<1>3. place' \in {"answered", "foreign"}
  BY <1>1
<1>4. FieldsHeld(place') = FieldsHeld(place)
  BY <1>1, <1>3 DEF FieldsHeld
<1>5. Known(Understood(wire))
  BY <1>2, UnderstoodType DEF Known
<1>6. ReadRight' /\ Known(understood)'
  <2>1. understood' = Understood(wire')
    BY <1>1
  <2>2. ReadRight'
    BY <1>3, <2>1 DEF ReadRight
  <2> QED
    BY <1>1, <1>5, <2>2 DEF Known
<1> QED
  BY <1>1, <1>2, <1>3, <1>4, <1>6, PathInvNextParts

LEMMA ShowResultKeeps == PathInv /\ ShowResult => PathInv'
<1> SUFFICES ASSUME PathInv, ShowResult PROVE PathInv'
  OBVIOUS
<1>1. /\ place \in {"refused", "answered"} /\ place' \in {"command", "off"}
      /\ script' = <<>> /\ wire' = <<>> /\ understood' = Nothing
      /\ stdin' = stdin /\ stdinEof' = stdinEof /\ fields' = fields
  BY DEF ShowResult, inputVars
<1>2. /\ stdin \in Seq(Byte) /\ stdinEof \in BOOLEAN
      /\ fields \in Seq(Seq(Byte)) /\ Len(fields) = FieldsHeld(place)
  BY PathInvParts
<1>3. FieldsHeld(place) = 0 /\ FieldsHeld(place') = 0
  BY <1>1 DEF FieldsHeld
<1>4. ReadRight' /\ Known(understood)'
  BY <1>1, NothingKnown DEF ReadRight, Known, Nothing
<1>5. script' \in Seq(Byte) /\ wire' \in Seq(Byte)
  BY <1>1
<1> QED
  BY <1>1, <1>2, <1>3, <1>4, <1>5, PathInvNextParts DEF Reading

LEMMA TypingKeeps ==
  ASSUME PathInv, NEW typed \in Seq(Byte), stdin' = stdin \o typed \/ stdin' = stdin,
         stdinEof' \in BOOLEAN, UNCHANGED <<script, place, fields, wire, understood>>
  PROVE  PathInv'
<1>1. /\ stdin \in Seq(Byte) /\ script \in Seq(Byte)
      /\ place \in Reading \union {"sent", "refused", "answered", "foreign", "off"}
      /\ fields \in Seq(Seq(Byte)) /\ Len(fields) = FieldsHeld(place)
      /\ wire \in Seq(Byte) /\ Known(understood) /\ ReadRight
  BY PathInvParts
<1>2. /\ script' = script /\ place' = place /\ fields' = fields /\ wire' = wire
      /\ understood' = understood
  OBVIOUS
<1>3. stdin' \in Seq(Byte)
  BY <1>1, Joined
<1>4. ReadRight' /\ Known(understood)'
  BY <1>1, <1>2 DEF ReadRight, Known
<1> QED
  BY <1>1, <1>2, <1>3, <1>4, PathInvNextParts DEF Reading, FieldsHeld

LEMMA PathInvNext == PathInv /\ [PathNext]_textVars => PathInv'
<1> SUFFICES ASSUME PathInv, [PathNext]_textVars PROVE PathInv'
  OBVIOUS
<1>1. stdin \in Seq(Byte) /\ stdinEof \in BOOLEAN
  BY PathInvParts
<1>2. ASSUME NEW chunk \in Chunks, TypeChunk(chunk) PROVE PathInv'
  <2>1. /\ stdin' = stdin \o chunk /\ stdinEof' = stdinEof
        /\ UNCHANGED <<script, place, fields, wire, understood>>
    BY <1>2 DEF TypeChunk
  <2>2. chunk \in Seq(Byte)
    BY PathAssumption
  <2> QED
    BY <1>1, <2>1, <2>2, TypingKeeps
<1>3. CASE CloseStdin
  <2>1. /\ stdin' = stdin /\ stdinEof' \in BOOLEAN
        /\ UNCHANGED <<script, place, fields, wire, understood>>
    BY <1>3 DEF CloseStdin
  <2> QED
    BY <1>1, <2>1, TypingKeeps
<1>4. CASE ProgramStep
  BY <1>4, LoginKeeps, UserRequestKeeps, ComposeKeeps, InputEndsKeeps, ServerReadsKeeps,
     ShowResultKeeps DEF ProgramStep
<1>5. CASE UNCHANGED textVars
  <2>1. stdin' = stdin /\ stdinEof' = stdinEof
        /\ UNCHANGED <<script, place, fields, wire, understood>>
    BY <1>5 DEF textVars
  <2> QED
    BY <1>1, <2>1, TypingKeeps
<1> QED
  BY <1>2, <1>3, <1>4, <1>5 DEF PathNext

LEMMA PathInvariant == PathSpec => []PathInv
  BY PathInvInit, PathInvNext, PTL DEF PathSpec

(* The characters, the lines, the frame and the request always have their  *)
(* types, whatever is typed and whatever frame comes (Client.cpp,          *)
(* Common.cpp, Packet.cpp, Server.cpp); above all, the arguments a command *)
(* has collected are never more than it sends.                             *)
THEOREM PathTypeCorrect == PathSpec => []PathTypeOK
<1>1. PathInv => PathTypeOK
  BY DEF PathInv
<1> QED
  BY <1>1, PathInvariant, PTL

(* Of every frame, of the client or of another program, the server reads   *)
(* the request its first bytes encode, or refuses it when they encode none *)
(* (Packet.cpp, the handlers of Server.cpp).                               *)
THEOREM FramesUnderstood == PathSpec => []FrameUnderstood
<1>1. PathInv => FrameUnderstood
  <2> SUFFICES ASSUME PathInv, understood # Nothing
               PROVE  Means(Encoded(wire), understood)
    BY DEF FrameUnderstood
  <2>1. wire \in Seq(Byte) /\ understood = Understood(wire)
    BY PathInvParts DEF ReadRight
  <2> QED
    BY <2>1, FrameIsRead
<1> QED
  BY <1>1, PathInvariant, PTL
=============================================================================
