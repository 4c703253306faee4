---------------------------- MODULE FramingProofs ----------------------------
(***************************************************************************)
(* Proofs about SocketFraming, for every length of the length field, every *)
(* limit on packets, every capacity and all frames of other programs: what *)
(* recvMessage returns are the packets sent, byte for byte and in order,   *)
(* until it accepts a frame whose length field lies.                       *)
(*                                                                         *)
(* The argument: the bytes between the two ends are always a piece of the  *)
(* stream without a gap (InOrder), which begins where the reader is        *)
(* (ReaderAt) and, while the stream is open, ends where the sender is      *)
(* (SenderAt).  So the length field the reader takes is the one of its     *)
(* message, and as many bytes as it says are its packet.  Once the reader  *)
(* is Lost it may be anywhere; what it received before stays (Follows).    *)
(***************************************************************************)
EXTENDS SocketFraming, SeqLemmas

Bytes == (1..MaxMessages) \X Nat
Flight == arrived \o wire
Size(i) == HeaderLen + sent[i].size
Done == Size(Len(sent)) - left
Reading == Len(received) + 1

(* The byte that follows b, and the one the reader and the sender are at.  *)
Succ(b) == IF b[2] < Size(b[1]) THEN <<b[1], b[2] + 1>> ELSE <<b[1] + 1, 1>>
Expected == IF reader = "body" THEN Succ(<<Reading, HeaderLen>>) ELSE <<Reading, 1>>
NextSent == IF left > 0 THEN <<Len(sent), Done + 1>> ELSE <<Len(sent) + 1, 1>>

(* b has been given to ::send.                                             *)
Written(b) ==
    /\ b \in Bytes
    /\ b[1] \in 1..Len(sent)
    /\ b[2] \in 1..Size(b[1])
    /\ b[1] = Len(sent) => b[2] <= Done

(* d comes n bytes after b.                                                *)
Later(b, d, n) ==
    \/ d[1] = b[1] /\ d[2] = b[2] + n
    \/ d[1] > b[1] /\ n >= (Size(b[1]) - b[2]) + d[2]

InOrder(f) ==
    /\ f \in Seq(Bytes)
    /\ \A k \in 1..Len(f) : Written(f[k])
    /\ \A k \in 1..(Len(f) - 1) : f[k + 1] = Succ(f[k])
    /\ \A k, l \in 1..Len(f) : k < l => Later(f[k], f[l], l - k)

SentOK ==
    /\ left > 0 => sent # <<>> /\ left <= Size(Len(sent))
    /\ \A i \in 1..Len(sent) :
         \/ sent[i] \in Foreign
         \/ IsOwn(sent[i]) /\ sent[i].length = sent[i].size
            /\ sent[i].size \in 1..MAX_PACKET_LENGTH
Lost == ReaderGone \/ Misled
ReaderAt ==
    ~Lost =>
      /\ Flight # <<>> => Flight[1] = Expected
      /\ reader = "body" =>
           declared = sent[Reading].length /\ Written(<<Reading, HeaderLen>>)
SenderAt ==
    end = "open" =>
      IF Flight = <<>> THEN ~Lost => Expected = NextSent
      ELSE Succ(Flight[Len(Flight)]) = NextSent

(* The first n packets are those of the first n messages, and they are all *)
(* there are or the next one is of a message of another program.           *)
Follows(n) ==
    /\ n \in 0..Len(received) /\ n <= Whole
    /\ \A i \in 1..n : IsOwn(sent[i]) /\ received[i] = Body(i)
    /\ \/ n = Len(received)
       \/ /\ n + 1 \in 1..Len(received) /\ n + 1 \in 1..Len(sent)
          /\ ~IsOwn(sent[n + 1]) /\ sent[n + 1].length \in 0..MAX_PACKET_LENGTH
ReceivedOK == \E n \in Nat : Follows(n)

FramingInv ==
    /\ FramingTypeOK /\ SentOK /\ InOrder(Flight)
    /\ ReaderAt /\ SenderAt /\ ReceivedOK

-----------------------------------------------------------------------------
(* The constants and the messages.                                         *)
LEMMA Constants ==
  /\ HeaderLen \in Nat /\ HeaderLen > 0
  /\ MAX_PACKET_LENGTH \in Nat /\ MAX_PACKET_LENGTH > 0
  /\ MaxMessages \in Nat /\ Capacity \in Nat
BY HeaderAssumption, LengthAssumption, CapacityAssumption

LEMMA MessageType ==
  ASSUME NEW m \in Own \union Foreign
  PROVE  m.size \in Nat /\ m.length \in Int
<1>1. /\ \A x \in PacketSize : x \in Nat /\ x \in Int
      /\ \A f \in Foreign : f.size \in Nat /\ f.length \in Int
  BY SizeAssumption, ForeignAssumption
<1>2. CASE m \in Own
  <2>1. \E n \in PacketSize : m = [length |-> n, size |-> n]
    BY <1>2 DEF Own
  <2> QED
    BY <1>1, <2>1
<1>3. CASE m \in Foreign
  BY <1>1, <1>3
<1> QED
  BY <1>2, <1>3

LEMMA SentType ==
  ASSUME FramingTypeOK
  PROVE  /\ Len(sent) \in 0..MaxMessages
         /\ \A i \in 1..Len(sent) :
              /\ sent[i] \in Own \union Foreign
              /\ sent[i].size \in Nat /\ sent[i].length \in Int
              /\ Size(i) \in Nat /\ Size(i) >= HeaderLen /\ Size(i) > 0
<1>1. sent \in Seq(Own \union Foreign) /\ Len(sent) <= MaxMessages
  BY DEF FramingTypeOK
<1>2. Len(sent) \in Nat /\ \A i \in 1..Len(sent) : sent[i] \in Own \union Foreign
  BY <1>1, LenProperties, ElementOfSeq
<1>3. \A i \in 1..Len(sent) : sent[i].size \in Nat /\ sent[i].length \in Int
  BY <1>2, MessageType
<1> QED
  BY <1>1, <1>2, <1>3, Constants DEF Size

LEMMA LeftType ==
  ASSUME FramingTypeOK, SentOK
  PROVE  /\ left \in Nat
         /\ left > 0 => /\ Len(sent) \in 1..Len(sent)
                        /\ left <= Size(Len(sent)) /\ Done \in Nat
<1>1. left \in Nat /\ sent \in Seq(Own \union Foreign)
  BY DEF FramingTypeOK
<1>2. ASSUME left > 0
      PROVE  Len(sent) \in 1..Len(sent)
  <2>1. sent # <<>>
    BY <1>2 DEF SentOK
  <2> QED
    BY <1>1, <2>1
<1> QED
  BY <1>1, <1>2, SentType DEF SentOK, Done

LEMMA WrittenType ==
  ASSUME FramingTypeOK, NEW b, Written(b)
  PROVE  /\ b[1] \in 1..Len(sent) /\ b[1] \in Nat
         /\ b[2] \in Nat /\ b[2] > 0 /\ b[2] <= Size(b[1])
         /\ Size(b[1]) \in Nat
         /\ b = <<b[1], b[2]>>
<1>1. b \in Bytes /\ b[1] \in 1..Len(sent) /\ b[2] \in 1..Size(b[1])
  BY DEF Written
<1>2. Size(b[1]) \in Nat /\ Len(sent) \in Nat
  BY <1>1, SentType
<1> QED
  BY <1>1, <1>2 DEF Bytes

(* The bytes under way, and their number.                                  *)
LEMMA FlightType ==
  ASSUME FramingTypeOK
  PROVE  /\ arrived \in Seq(Bytes) /\ wire \in Seq(Bytes) /\ Flight \in Seq(Bytes)
         /\ Len(arrived) \in Nat /\ Len(wire) \in Nat /\ Len(Flight) \in Nat
         /\ Len(Flight) = Len(arrived) + Len(wire)
         /\ \A k \in 1..Len(arrived) : Flight[k] = arrived[k]
         /\ \A k \in 1..Len(wire) : Flight[Len(arrived) + k] = wire[k]
         /\ Len(received) \in Nat /\ Reading \in Nat
<1>1. arrived \in Seq(Bytes) /\ wire \in Seq(Bytes) /\ Len(received) \in Nat
  BY DEF FramingTypeOK, Bytes
<1>2. Len(arrived) \in Nat /\ Len(wire) \in Nat
  BY <1>1
<1>3. /\ Flight \in Seq(Bytes)
      /\ Len(Flight) = Len(arrived) + Len(wire)
      /\ \A k \in 1..(Len(arrived) + Len(wire)) :
           Flight[k] = IF k <= Len(arrived) THEN arrived[k] ELSE wire[k - Len(arrived)]
  BY <1>1, ConcatProperties DEF Flight
<1>4. \A k \in 1..Len(arrived) : Flight[k] = arrived[k]
  BY <1>2, <1>3
<1>5. ASSUME NEW k \in 1..Len(wire)
      PROVE  Flight[Len(arrived) + k] = wire[k]
  <2>1. /\ Len(arrived) + k \in 1..(Len(arrived) + Len(wire))
        /\ ~(Len(arrived) + k <= Len(arrived))
        /\ (Len(arrived) + k) - Len(arrived) = k
    BY <1>2
  <2> QED
    BY <1>3, <2>1
<1> QED
  BY <1>1, <1>2, <1>3, <1>4, <1>5 DEF Reading

-----------------------------------------------------------------------------
(* A piece of a piece of the stream is one.                                *)
LEMMA Piece ==
  ASSUME NEW f, InOrder(f), NEW g \in Seq(Bytes), NEW d \in Nat,
         d + Len(g) <= Len(f),
         \A k \in 1..Len(g) : g[k] = f[k + d]
  PROVE  InOrder(g)
<1>1. Len(f) \in Nat /\ Len(g) \in Nat
  BY DEF InOrder
<1>2. \A k \in 1..Len(g) : Written(g[k])
  BY <1>1 DEF InOrder
<1>3. ASSUME NEW k \in 1..(Len(g) - 1)
      PROVE  g[k + 1] = Succ(g[k])
  <2>1. k \in 1..Len(g) /\ k + 1 \in 1..Len(g) /\ k + d \in 1..(Len(f) - 1)
        /\ (k + 1) + d = (k + d) + 1
    BY <1>1
  <2>2. g[k] = f[k + d] /\ g[k + 1] = f[(k + d) + 1]
    BY <2>1
  <2> QED
    BY <2>1, <2>2 DEF InOrder
<1>4. ASSUME NEW k \in 1..Len(g), NEW l \in 1..Len(g), k < l
      PROVE  Later(g[k], g[l], l - k)
  <2>1. /\ k + d \in 1..Len(f) /\ l + d \in 1..Len(f) /\ k + d < l + d
        /\ (l + d) - (k + d) = l - k
    BY <1>1, <1>4
  <2>2. Later(f[k + d], f[l + d], (l + d) - (k + d))
    BY <2>1 DEF InOrder
  <2> QED
    BY <2>1, <2>2
<1> QED
  BY <1>2, <1>3, <1>4 DEF InOrder

(* The bytes that follow the first one are those of its message, as far as *)
(* the message goes.                                                       *)
LEMMA FirstBytes ==
  ASSUME FramingTypeOK, InOrder(Flight), NEW n, NEW s \in Nat,
         Flight # <<>>, Flight[1] = <<n, s>>,
         NEW k \in 1..Len(Flight), (s + k) - 1 <= Size(n)
  PROVE  Flight[k] = <<n, (s + k) - 1>>
<1>1. Len(Flight) \in Nat /\ 1 \in 1..Len(Flight)
  BY FlightType
<1>2. Written(Flight[1]) /\ Written(Flight[k])
  BY <1>1 DEF InOrder
<1>3. n \in Nat /\ Size(n) \in Nat /\ Flight[1][1] = n /\ Flight[1][2] = s
  BY <1>2, WrittenType
<1>4. /\ Flight[k][1] \in Nat /\ Flight[k][2] \in Nat /\ Flight[k][2] > 0
      /\ Flight[k] = <<Flight[k][1], Flight[k][2]>>
  BY <1>2, WrittenType
<1>5. CASE k = 1
  BY <1>3, <1>5
<1>6. CASE k > 1
  <2>1. Later(Flight[1], Flight[k], k - 1)
    BY <1>1, <1>6 DEF InOrder
  <2>2. \/ Flight[k][1] = n /\ Flight[k][2] = s + (k - 1)
        \/ Flight[k][1] > n /\ k - 1 >= (Size(n) - s) + Flight[k][2]
    BY <1>3, <2>1 DEF Later
  <2>3. Flight[k][1] = n /\ Flight[k][2] = (s + k) - 1
    BY SMTT(30), <1>1, <1>3, <1>4, <2>2
  <2> QED
    BY <1>4, <2>3
<1> QED
  BY <1>1, <1>5, <1>6
-----------------------------------------------------------------------------
(* What the steps may do to the messages: begin one, or write more of the  *)
(* last.                                                                   *)
Begun == \E m \in Own \union Foreign : left = 0 /\ sent' = Append(sent, m)
WritesOn == sent' = sent /\ left' \in Nat /\ left' <= left

LEMMA SentStays ==
  ASSUME FramingTypeOK, Begun \/ WritesOn
  PROVE  /\ Len(sent') \in Nat /\ Len(sent') >= Len(sent)
         /\ Begun => Len(sent') = Len(sent) + 1
         /\ \A i \in 1..Len(sent) : sent'[i] = sent[i]
         /\ \A i \in 1..Len(sent) : Size(i)' = Size(i)
<1>1. sent \in Seq(Own \union Foreign) /\ Len(sent) \in Nat
  BY DEF FramingTypeOK
<1>2. CASE Begun
  <2>1. PICK m \in Own \union Foreign : sent' = Append(sent, m)
    BY <1>2 DEF Begun
  <2>2. /\ Len(sent') = Len(sent) + 1
        /\ \A i \in 1..Len(sent) : sent'[i] = sent[i]
    BY <1>1, <2>1, AppendProperties
  <2> QED
    BY <1>1, <2>2 DEF Size
<1>3. CASE WritesOn
  <2>1. sent' = sent
    BY <1>3 DEF WritesOn
  <2>2. ~Begun
    <3>1. SUFFICES ASSUME NEW m \in Own \union Foreign, sent' = Append(sent, m)
                   PROVE  FALSE
      BY DEF Begun
    <3>2. Len(Append(sent, m)) = Len(sent) + 1
      BY <1>1, AppendProperties
    <3> QED
      BY <1>1, <2>1, <3>1, <3>2
  <2> QED
    BY <1>1, <2>1, <2>2 DEF Size
<1> QED
  BY <1>2, <1>3

(* What has been written stays written.                                    *)
LEMMA WrittenStays ==
  ASSUME FramingTypeOK, SentOK, Begun \/ WritesOn, NEW b, Written(b)
  PROVE  Written(b)'
<1>1. /\ b \in Bytes /\ b[1] \in 1..Len(sent) /\ b[2] \in 1..Size(b[1])
      /\ b[1] = Len(sent) => b[2] <= Done
  BY DEF Written
<1>2. /\ Len(sent) \in Nat /\ Len(sent') \in Nat /\ Len(sent') >= Len(sent)
      /\ Begun => Len(sent') = Len(sent) + 1
      /\ Size(b[1])' = Size(b[1])
  BY <1>1, SentStays, SentType
<1>3. CASE Begun
  <2>1. b[1] # Len(sent')
    BY <1>1, <1>2, <1>3
  <2> QED
    BY <1>1, <1>2, <2>1 DEF Written, Bytes
<1>4. CASE WritesOn
  <2>1. b[1] = Len(sent') => b[2] <= Done'
    <3>1. SUFFICES ASSUME b[1] = Len(sent)
                   PROVE  b[2] <= Done'
      BY <1>4 DEF WritesOn
    <3>2. Size(Len(sent)) \in Nat /\ Size(Len(sent))' = Size(Len(sent))
      <4>1. Len(sent) \in 1..Len(sent)
        BY <1>1, <3>1
      <4> QED
        BY <1>4, <4>1, SentType DEF WritesOn, Size
    <3>3. Done' = Size(Len(sent)) - left'
      BY <1>4, <3>2 DEF WritesOn, Done, Size
    <3>4. left \in Nat /\ left' \in Nat /\ left' <= left
      BY <1>4 DEF WritesOn, FramingTypeOK
    <3>5. b[2] <= Size(Len(sent)) - left /\ b[2] \in Nat
      BY <1>1, <3>1, <3>2 DEF Done
    <3> QED
      BY <3>2, <3>3, <3>4, <3>5
  <2> QED
    BY <1>1, <1>2, <1>4, <2>1 DEF Written, Bytes, WritesOn
<1> QED
  BY <1>3, <1>4

LEMMA SuccStays ==
  ASSUME FramingTypeOK, Begun \/ WritesOn, NEW b, Written(b)
  PROVE  Succ(b)' = Succ(b)
<1>1. b[1] \in 1..Len(sent)
  BY DEF Written
<1>2. Size(b[1])' = Size(b[1])
  BY <1>1, SentStays
<1> QED
  BY <1>2 DEF Succ

LEMMA InOrderStays ==
  ASSUME FramingTypeOK, SentOK, Begun \/ WritesOn, NEW f, InOrder(f)
  PROVE  InOrder(f)'
<1>1. f \in Seq(Bytes) /\ Len(f) \in Nat /\ \A k \in 1..Len(f) : Written(f[k])
  BY DEF InOrder
<1>2. \A k \in 1..Len(f) : Written(f[k])'
  BY <1>1, WrittenStays
<1>3. \A k \in 1..(Len(f) - 1) : f[k + 1] = Succ(f[k])'
  <2>1. TAKE k \in 1..(Len(f) - 1)
  <2>2. k \in 1..Len(f)
    BY <1>1
  <2>3. f[k + 1] = Succ(f[k])
    BY DEF InOrder
  <2> QED
    BY <1>1, <2>2, <2>3, SuccStays
<1>4. \A k, l \in 1..Len(f) : k < l => Later(f[k], f[l], l - k)'
  <2>1. SUFFICES ASSUME NEW k \in 1..Len(f), NEW l \in 1..Len(f), k < l
                 PROVE  Later(f[k], f[l], l - k)'
    OBVIOUS
  <2>2. Later(f[k], f[l], l - k)
    BY <2>1 DEF InOrder
  <2>3. f[k][1] \in 1..Len(sent)
    BY <1>1 DEF Written
  <2>4. Size(f[k][1])' = Size(f[k][1])
    BY <2>3, SentStays
  <2> QED
    BY <2>2, <2>4 DEF Later
<1> QED
  BY <1>1, <1>2, <1>3, <1>4 DEF InOrder, Bytes
-----------------------------------------------------------------------------
(* How far the reader has come in step with the messages.                  *)
InStepAt(n) ==
    /\ InStep = n /\ (Misled <=> n # Len(received))
    /\ n <= Whole /\ n <= Len(sent) /\ Whole \in Nat

LEMMA InStepIs ==
  ASSUME FramingTypeOK, NEW n \in Nat, Follows(n)
  PROVE  InStepAt(n)
<1>1. /\ Len(sent) \in Nat /\ Len(received) \in Nat /\ left \in Nat
      /\ DOMAIN received = 1..Len(received) /\ DOMAIN sent = 1..Len(sent)
  BY SentType, FlightType, LenProperties DEF FramingTypeOK
<1>2. /\ n <= Len(received) /\ n <= Whole /\ \A i \in 1..n : IsOwn(sent[i])
  BY DEF Follows
<1>3. n <= Len(sent) /\ Whole \in Nat
  BY <1>1, <1>2 DEF Whole
<1>4. CASE n = Len(received)
  <2>1. ~Misled
    BY <1>2, <1>4 DEF Misled, ForeignWithin
  <2> QED
    BY <1>2, <1>3, <1>4, <2>1 DEF InStep, InStepAt
<1>5. CASE n # Len(received)
  <2>1. n + 1 \in 1..Len(received) /\ n + 1 \in 1..Len(sent) /\ ~IsOwn(sent[n + 1])
    BY <1>5 DEF Follows
  <2>2. Misled
    BY <1>1, <2>1 DEF Misled, ForeignWithin
  <2>3. PICK S : S = {i \in DOMAIN received : i \in DOMAIN sent /\ ~IsOwn(sent[i])}
    OBVIOUS
  <2>4. n + 1 \in S /\ S \subseteq Nat /\ \A i \in S : i \in Nat /\ i >= n + 1
    <3>1. ASSUME NEW i \in S
          PROVE  i \in Nat /\ i >= n + 1
      <4>1. i \in 1..Len(received) /\ ~IsOwn(sent[i])
        BY <1>1, <2>3
      <4>2. i \notin 1..n
        BY <1>2, <4>1
      <4> QED
        BY <1>1, <4>1, <4>2
    <3> QED
      BY <1>1, <2>1, <2>3, <3>1
  <2>5. Min(S) \in S /\ \A y \in S : Min(S) <= y
    BY <2>4, MinIsLeast
  <2>6. Min(S) = n + 1
    <3>1. PICK x : x = Min(S)
      OBVIOUS
    <3>2. x \in Nat /\ x >= n + 1 /\ x <= n + 1
      BY <2>4, <2>5, <3>1
    <3> QED
      BY <3>1, <3>2
  <2>7. InStep = Min(S) - 1
    BY <2>2, <2>3 DEF InStep
  <2> QED
    BY <1>2, <1>3, <1>5, <2>2, <2>6, <2>7 DEF InStepAt
<1> QED
  BY <1>4, <1>5

LEMMA InStepNext ==
  ASSUME NEW n \in Nat
  PROVE  FramingTypeOK' /\ Follows(n)' => InStepAt(n)'
<1>1. FramingTypeOK /\ Follows(n) => InStepAt(n)
  BY InStepIs
<1> QED
  BY <1>1, PTL

(* The part of the invariant that speaks of the packets already read.      *)
LEMMA FollowsStays ==
  ASSUME FramingTypeOK, SentOK, Begun \/ WritesOn, left' \in Nat,
         NEW n \in Nat, Follows(n),
         Len(received') \in Nat, Len(received') >= Len(received),
         \A i \in 1..Len(received) : received'[i] = received[i],
         n # Len(received) \/ Len(received') = Len(received)
  PROVE  Follows(n)'
<1>1. Len(sent) \in Nat /\ left \in Nat /\ Len(received) \in Nat
      /\ Len(sent') \in Nat /\ Len(sent') >= Len(sent)
      /\ \A i \in 1..Len(sent) : sent'[i] = sent[i]
  BY SentType, FlightType, SentStays DEF FramingTypeOK
<1>2. Whole <= Whole' /\ Whole \in Int /\ Whole' \in Int
  <2>1. CASE Begun
    <3>1. left = 0 /\ Len(sent') = Len(sent) + 1
      BY <2>1, SentStays DEF Begun
    <3> QED
      BY <1>1, <3>1 DEF Whole
  <2>2. CASE WritesOn
    BY <1>1, <2>2 DEF WritesOn, Whole
  <2> QED
    BY <2>1, <2>2
<1>3. n \in 0..Len(received) /\ n <= Whole /\ n <= Len(sent)
  BY InStepIs DEF Follows, InStepAt
<1>4. n \in 0..Len(received') /\ n <= Whole'
  BY <1>1, <1>2, <1>3
<1>5. ASSUME NEW i \in 1..n
      PROVE  IsOwn(sent'[i]) /\ received'[i] = Body(i)'
  <2>1. i \in 1..Len(sent) /\ i \in 1..Len(received)
    BY <1>1, <1>3
  <2>2. sent'[i] = sent[i] /\ received'[i] = received[i]
    BY <1>1, <2>1
  <2>3. IsOwn(sent[i]) /\ received[i] = Body(i)
    BY DEF Follows
  <2> QED
    BY <2>2, <2>3 DEF Body
<1>6. CASE n # Len(received)
  <2>1. n + 1 \in 1..Len(received) /\ n + 1 \in 1..Len(sent)
        /\ ~IsOwn(sent[n + 1]) /\ sent[n + 1].length \in 0..MAX_PACKET_LENGTH
    BY <1>6 DEF Follows
  <2>2. n + 1 \in 1..Len(received') /\ n + 1 \in 1..Len(sent') /\ sent'[n + 1] = sent[n + 1]
    BY <1>1, <2>1
  <2> QED
    BY <1>4, <1>5, <2>1, <2>2 DEF Follows, IsOwn
<1>7. CASE n = Len(received)
  BY <1>4, <1>5, <1>7 DEF Follows, IsOwn
<1> QED
  BY <1>6, <1>7

LEMMA ReceivedStays ==
  ASSUME FramingTypeOK, FramingTypeOK', SentOK, ReceivedOK, Begun \/ WritesOn,
         received' = received
  PROVE  /\ ReceivedOK' /\ (Misled' <=> Misled) /\ InStep' = InStep
         /\ reader' = reader => (Lost' <=> Lost)
<1>1. PICK n \in Nat : Follows(n)
  BY DEF ReceivedOK
<1>2. Len(received) \in Nat /\ left' \in Nat
  BY FlightType DEF FramingTypeOK
<1>3. Follows(n)'
  BY <1>1, <1>2, FollowsStays
<1>4. InStepAt(n)
  BY <1>1, InStepIs
<1>5. InStepAt(n)'
  BY <1>3, InStepNext
<1>6. ReceivedOK'
  BY <1>3 DEF ReceivedOK
<1>7. reader' = reader => (ReaderGone' <=> ReaderGone)
  BY DEF ReaderGone
<1> QED
  BY <1>4, <1>5, <1>6, <1>7 DEF Lost, InStepAt

(* Beginning a message: nothing is written yet.                            *)
LEMMA BeginInv ==
  ASSUME FramingInv, NEW m \in Own \union Foreign, Begin(m),
         m \in Foreign \/ (IsOwn(m) /\ m.length = m.size /\ m.size \in 1..MAX_PACKET_LENGTH)
  PROVE  FramingInv'
<1>0. FramingTypeOK /\ SentOK /\ InOrder(Flight) /\ ReaderAt /\ SenderAt /\ ReceivedOK
  BY DEF FramingInv
<1>1. /\ left = 0 /\ Len(sent) < MaxMessages /\ end = "open"
      /\ sent' = Append(sent, m) /\ left' = HeaderLen + m.size
      /\ UNCHANGED <<end, wire, arrived, reader, declared, received, result>>
  BY DEF Begin, readerVars
<1>2. Begun /\ m.size \in Nat
  BY <1>1, MessageType DEF Begun
<1>3. /\ sent \in Seq(Own \union Foreign) /\ Len(sent) \in Nat
      /\ sent' \in Seq(Own \union Foreign) /\ Len(sent') = Len(sent) + 1
      /\ sent'[Len(sent) + 1] = m
      /\ \A i \in 1..Len(sent) : sent'[i] = sent[i]
  BY <1>0, <1>1, AppendProperties DEF FramingTypeOK
<1>4. left' \in Nat /\ left' > 0
  BY <1>1, <1>2, Constants
<1>5. FramingTypeOK'
  BY <1>0, <1>1, <1>3, <1>4, Constants DEF FramingTypeOK
<1>6. Flight' = Flight
  BY <1>1 DEF Flight
<1>7. Size(Len(sent))' = left'
  BY <1>1, <1>3 DEF Size
<1>8. SentOK'
  <2>1. ASSUME NEW i \in 1..Len(sent')
        PROVE  \/ sent'[i] \in Foreign
               \/ IsOwn(sent'[i]) /\ sent'[i].length = sent'[i].size
                  /\ sent'[i].size \in 1..MAX_PACKET_LENGTH
    <3>1. i \in 1..Len(sent) \/ i = Len(sent) + 1
      BY <1>3
    <3> QED
      BY <1>0, <1>3, <3>1 DEF SentOK
  <2>2. sent' # <<>> /\ left' <= Size(Len(sent))'
    BY <1>3, <1>4, <1>7
  <2> QED
    BY <2>1, <2>2 DEF SentOK
<1>9. InOrder(Flight)'
  <2>1. PICK f : f = Flight
    OBVIOUS
  <2>2. InOrder(f)'
    BY <1>0, <1>2, <2>1, InOrderStays
  <2> QED
    BY <1>6, <2>1, <2>2
<1>10. ReceivedOK' /\ (Lost' <=> Lost)
  BY <1>0, <1>1, <1>2, <1>5, ReceivedStays
<1>11. ~Lost /\ reader = "body" =>
          Reading \in 1..Len(sent) /\ Written(<<Reading, HeaderLen>>)
  BY <1>0 DEF ReaderAt, Written
<1>12. ~Lost => Expected' = Expected
  <2>1. CASE reader = "body" /\ ~Lost
    <3>1. PICK b : b = <<Reading, HeaderLen>>
      OBVIOUS
    <3>2. Succ(b)' = Succ(b)
      BY <1>0, <1>2, <1>11, <2>1, <3>1, SuccStays
    <3>3. Reading' = Reading
      BY <1>1 DEF Reading
    <3> QED
      BY <1>1, <2>1, <3>1, <3>2, <3>3 DEF Expected
  <2>2. CASE reader # "body"
    BY <1>1, <2>2 DEF Expected, Reading
  <2> QED
    BY <2>1, <2>2
<1>13. ReaderAt'
  <2>1. ASSUME reader = "body", ~Lost
        PROVE  /\ declared' = sent'[Reading'].length
               /\ Written(<<Reading, HeaderLen>>)'
    <3>1. PICK b : b = <<Reading, HeaderLen>>
      OBVIOUS
    <3>2. Written(b)'
      BY <1>0, <1>2, <1>11, <2>1, <3>1, WrittenStays
    <3>3. Reading' = Reading /\ sent'[Reading] = sent[Reading]
      BY <1>1, <1>3, <1>11, <2>1 DEF Reading
    <3>4. declared = sent[Reading].length
      BY <1>0, <2>1 DEF ReaderAt
    <3> QED
      BY <1>1, <3>1, <3>2, <3>3, <3>4
  <2> QED
    BY <1>0, <1>1, <1>6, <1>10, <1>12, <2>1 DEF ReaderAt
<1>14. NextSent' = NextSent
  <2>1. Done' = left' - left'
    BY <1>1, <1>3 DEF Done, Size
  <2>2. left' - left' = 0
    <3>1. PICK n \in Nat : n = left'
      BY <1>4
    <3>2. \A x \in Nat : x - x = 0
      OBVIOUS
    <3> QED
      BY <3>1, <3>2
  <2>3. Done' = 0
    BY <2>1, <2>2
  <2> QED
    BY <1>1, <1>3, <1>4, <2>3 DEF NextSent
<1>15. SenderAt'
  <2>1. CASE Flight = <<>>
    BY <1>0, <1>1, <1>6, <1>10, <1>12, <1>14, <2>1 DEF SenderAt
  <2>2. CASE Flight # <<>>
    <3>1. PICK b : b = Flight[Len(Flight)]
      OBVIOUS
    <3>2. Written(b)
      <4>1. Len(Flight) \in 1..Len(Flight)
        BY <1>0, <2>2, FlightType
      <4> QED
        BY <1>0, <3>1, <4>1 DEF InOrder
    <3>3. Succ(b)' = Succ(b)
      BY <1>0, <1>2, <3>2, SuccStays
    <3>4. Succ(b) = NextSent
      BY <1>0, <1>1, <2>2, <3>1 DEF SenderAt
    <3> QED
      BY <1>6, <1>14, <2>2, <3>1, <3>3, <3>4 DEF SenderAt
  <2> QED
    BY <2>1, <2>2
<1> QED
  BY <1>5, <1>8, <1>9, <1>10, <1>13, <1>15 DEF FramingInv
-----------------------------------------------------------------------------
(* One more piece of the last message: the bytes of one ::send.            *)
LEMMA LaterOn ==
  ASSUME NEW b, NEW e, NEW i \in Nat, NEW done \in Nat, NEW j \in Nat, j > 0,
         NEW m \in Nat, (m = 0 /\ b = e) \/ Later(b, e, m),
         b[1] \in Nat, b[2] \in Nat, Size(b[1]) \in Nat, b[2] <= Size(b[1]),
         e[1] \in Nat, e[2] \in Nat, Size(e[1]) \in Nat, e[2] <= Size(e[1]),
         Succ(e) = <<i, done + 1>>
  PROVE  Later(b, <<i, done + j>>, m + j)
<1>1. \/ e[2] < Size(e[1]) /\ i = e[1] /\ done = e[2]
      \/ e[2] = Size(e[1]) /\ i = e[1] + 1 /\ done = 0
  <2>1. CASE e[2] < Size(e[1])
    <3>1. <<e[1], e[2] + 1>> = <<i, done + 1>>
      BY <2>1 DEF Succ
    <3> QED
      BY <2>1, <3>1
  <2>2. CASE ~(e[2] < Size(e[1]))
    <3>1. <<e[1] + 1, 1>> = <<i, done + 1>>
      BY <2>2 DEF Succ
    <3> QED
      BY <2>2, <3>1
  <2> QED
    BY <2>1, <2>2
<1>2. \/ e[1] = b[1] /\ e[2] = b[2] + m
      \/ e[1] > b[1] /\ m >= (Size(b[1]) - b[2]) + e[2]
  BY DEF Later
<1>3. \/ i = b[1] /\ done + j = b[2] + (m + j)
      \/ i > b[1] /\ m + j >= (Size(b[1]) - b[2]) + (done + j)
  <2>1. CASE e[1] = b[1] /\ e[2] = b[2] + m
    BY <1>1, <2>1
  <2>2. CASE e[1] > b[1] /\ m >= (Size(b[1]) - b[2]) + e[2]
    BY <1>1, <2>2
  <2> QED
    BY <1>2, <2>1, <2>2
<1> QED
  BY <1>3 DEF Later

LEMMA InOrderExtended ==
  ASSUME FramingTypeOK, SentOK, WritesOn, left > 0,
         NEW f, InOrder(f), f # <<>> => Succ(f[Len(f)]) = <<Len(sent), Done + 1>>,
         NEW n \in Nat, n > 0, left' = left - n,
         NEW g \in Seq(Bytes), Len(g) = n,
         \A k \in 1..n : g[k] = <<Len(sent), Done + k>>
  PROVE  InOrder(f \o g)'
<1>1. /\ f \in Seq(Bytes) /\ Len(f) \in Nat
      /\ \A k \in 1..Len(f) : Written(f[k])
  BY DEF InOrder
<1>2. PICK h : h = f \o g
  OBVIOUS
<1>3. /\ h \in Seq(Bytes) /\ Len(h) = Len(f) + n
      /\ \A k \in 1..Len(f) : h[k] = f[k]
      /\ \A k \in 1..n : h[Len(f) + k] = <<Len(sent), Done + k>>
  <2>1. /\ h \in Seq(Bytes) /\ Len(h) = Len(f) + n
        /\ \A k \in 1..(Len(f) + n) : h[k] = IF k <= Len(f) THEN f[k] ELSE g[k - Len(f)]
    BY <1>1, <1>2, ConcatProperties
  <2>2. ASSUME NEW k \in 1..n
        PROVE  h[Len(f) + k] = g[k]
    <3>1. /\ Len(f) + k \in 1..(Len(f) + n)
          /\ ~(Len(f) + k <= Len(f)) /\ (Len(f) + k) - Len(f) = k
      BY <1>1
    <3> QED
      BY <2>1, <3>1
  <2>3. ASSUME NEW k \in 1..Len(f)
        PROVE  h[k] = f[k]
    <3>1. k \in 1..(Len(f) + n) /\ k <= Len(f)
      BY <1>1
    <3> QED
      BY <2>1, <3>1
  <2> QED
    BY <2>1, <2>2, <2>3
<1>4. PICK i, d, t : i = Len(sent) /\ d = Done /\ t = Size(Len(sent))
  OBVIOUS
<1>5. /\ i \in Nat /\ d \in Nat /\ t \in Nat /\ i \in 1..Len(sent)
      /\ d = t - left /\ left \in Nat /\ left' \in Nat /\ d + n <= t
      /\ sent' = sent /\ Size(i) = t /\ Size(i)' = t /\ Done' = d + n
      /\ i \in 1..MaxMessages
  <2>1. i \in 1..Len(sent) /\ left \in Nat /\ left <= t /\ d \in Nat /\ sent' = sent
        /\ left' \in Nat
    BY <1>4, LeftType DEF WritesOn
  <2>2. t \in Nat /\ Size(i)' = Size(i) /\ Len(sent) \in 0..MaxMessages
    BY <1>4, <2>1, SentType, SentStays
  <2>3. Size(i)' = t
    BY <1>4, <2>2
  <2>4. Done' = t - left'
    BY <1>4, <2>1, <2>3 DEF Done, Size
  <2>5. d = t - left
    BY <1>4 DEF Done
  <2>6. Done' = d + n /\ d + n <= t
    BY <2>1, <2>2, <2>4, <2>5
  <2>7. i \in Nat /\ i \in 1..MaxMessages
    BY <1>4, <2>1, <2>2, Constants
  <2> QED
    BY <1>4, <2>1, <2>2, <2>3, <2>5, <2>6, <2>7
<1>6. ASSUME NEW k \in 1..Len(h)
      PROVE  \/ k \in 1..Len(f) /\ h[k] = f[k]
             \/ \E j \in 1..n : k = Len(f) + j /\ h[k] = <<i, d + j>>
  <2>1. CASE k <= Len(f)
    BY <1>1, <1>3, <2>1
  <2>2. CASE ~(k <= Len(f))
    <3>0. k \in Nat /\ Len(f) \in Nat /\ Len(f) < k /\ k <= Len(f) + n
      BY <1>1, <1>3, <2>2
    <3>1. k - Len(f) \in 1..n /\ k = Len(f) + (k - Len(f))
      BY <3>0
    <3>2. h[Len(f) + (k - Len(f))] = <<Len(sent), Done + (k - Len(f))>>
      BY <1>3, <3>1
    <3> QED
      BY <1>4, <3>1, <3>2
  <2> QED
    BY <2>1, <2>2
<1>7. ASSUME NEW k \in 1..Len(h)
      PROVE  Written(h[k])'
  <2>1. CASE k \in 1..Len(f) /\ h[k] = f[k]
    BY <1>1, <2>1, WrittenStays
  <2>2. CASE \E j \in 1..n : k = Len(f) + j /\ h[k] = <<i, d + j>>
    <3>1. PICK j \in 1..n : h[k] = <<i, d + j>>
      BY <2>2
    <3>2. PICK b : b = <<i, d + j>>
      OBVIOUS
    <3>3. b \in Bytes /\ b[1] = i /\ b[2] = d + j /\ b[2] \in 1..t /\ b[2] <= d + n
      BY <1>5, <3>2 DEF Bytes
    <3>4. Size(b[1])' = t
      BY <1>5, <3>3
    <3>5. Written(b)'
      BY <1>5, <3>3, <3>4 DEF Written, Bytes
    <3> QED
      BY <3>1, <3>2, <3>5
  <2> QED
    BY <1>6, <2>1, <2>2
<1>8. ASSUME NEW k \in 1..(Len(h) - 1)
      PROVE  h[k + 1] = Succ(h[k])'
  <2>0. k \in 1..Len(h) /\ k + 1 \in 1..Len(h)
    BY <1>1, <1>3
  <2>1. CASE k < Len(f)
    <3>1. k \in 1..Len(f) /\ k + 1 \in 1..Len(f) /\ k \in 1..(Len(f) - 1)
      BY <1>1, <2>0, <2>1
    <3>2. f[k + 1] = Succ(f[k]) /\ Succ(f[k])' = Succ(f[k])
      BY <1>1, <3>1, SuccStays DEF InOrder
    <3> QED
      BY <1>3, <3>1, <3>2
  <2>2. CASE k = Len(f)
    <3>1. k \in 1..Len(f) /\ f # <<>> /\ h[k] = f[Len(f)] /\ h[k + 1] = <<i, d + 1>>
      <4>1. 1 \in 1..n /\ k \in 1..Len(f)
        BY <1>1, <1>3, <2>2
      <4>2. h[Len(f) + 1] = <<Len(sent), Done + 1>> /\ h[Len(f)] = f[Len(f)]
        BY <1>3, <2>2, <4>1
      <4> QED
        BY <1>1, <1>4, <2>2, <4>1, <4>2, EmptySeq
    <3>2. Succ(h[k])' = Succ(h[k])
      BY <1>1, <2>2, <3>1, SuccStays
    <3> QED
      BY <1>4, <3>1, <3>2
  <2>3. CASE k > Len(f)
    <3>1. PICK j \in 1..n : k = Len(f) + j
      <4>1. k \in Nat /\ Len(f) \in Nat /\ Len(f) < k /\ k <= Len(f) + n
        BY <1>1, <1>3, <2>0, <2>3
      <4>2. k - Len(f) \in 1..n /\ k = Len(f) + (k - Len(f))
        BY <4>1
      <4> QED
        BY <4>2
    <3>2. j + 1 \in 1..n /\ k + 1 = Len(f) + (j + 1)
      BY <1>1, <1>3, <3>1
    <3>3. h[k] = <<i, d + j>> /\ h[k + 1] = <<i, d + (j + 1)>>
      BY <1>3, <1>4, <3>1, <3>2
    <3>4. PICK b : b = h[k]
      OBVIOUS
    <3>5. Succ(b)' = <<i, (d + j) + 1>>
      <4>1. b[1] = i /\ b[2] = d + j /\ d + j < t
        BY <1>5, <3>2, <3>3, <3>4
      <4>2. Size(b[1])' = t
        BY <1>5, <4>1
      <4> QED
        BY <4>1, <4>2 DEF Succ
    <3> QED
      BY <1>5, <3>3, <3>4, <3>5
  <2> QED
    BY <1>1, <2>1, <2>2, <2>3
<1>9. ASSUME NEW k \in 1..Len(h), NEW l \in 1..Len(h), k < l
      PROVE  Later(h[k], h[l], l - k)'
  <2>1. Later(h[k], h[l], l - k)
    <3>1. CASE k \in 1..Len(f) /\ l \in 1..Len(f)
      BY <1>3, <1>9, <3>1 DEF InOrder
    <3>2. CASE k \in 1..Len(f) /\ l \notin 1..Len(f)
      <4>1. PICK j \in 1..n : l = Len(f) + j /\ h[l] = <<i, d + j>>
        BY <1>6, <3>2
      <4>2. PICK e : e = f[Len(f)]
        OBVIOUS
      <4>3. Len(f) \in 1..Len(f) /\ Written(e) /\ Written(f[k]) /\ h[k] = f[k]
            /\ f # <<>>
        BY <1>1, <1>3, <3>2, <4>2
      <4>4. PICK m \in Nat : m = Len(f) - k
        BY <1>1, <3>2
      <4>5. (m = 0 /\ f[k] = e) \/ Later(f[k], e, m)
        BY <1>1, <3>2, <4>2, <4>3, <4>4 DEF InOrder
      <4>6. Succ(e) = <<i, d + 1>>
        BY <1>4, <4>2, <4>3
      <4>7. /\ f[k][1] \in Nat /\ f[k][2] \in Nat /\ Size(f[k][1]) \in Nat
            /\ f[k][2] <= Size(f[k][1])
            /\ e[1] \in Nat /\ e[2] \in Nat /\ Size(e[1]) \in Nat
            /\ e[2] <= Size(e[1])
        BY <4>3, WrittenType
      <4>8. Later(f[k], <<i, d + j>>, m + j)
        <5>1. PICK b : b = f[k]
          OBVIOUS
        <5>2. j \in Nat /\ j > 0
          OBVIOUS
        <5>3. i \in Nat /\ d \in Nat
          BY <1>5
        <5>4. Later(b, <<i, d + j>>, m + j)
          BY <4>5, <4>6, <4>7, <5>1, <5>2, <5>3, LaterOn
        <5> QED
          BY <5>1, <5>4
      <4>9. m + j = l - k
        BY <1>1, <4>1, <4>4
      <4> QED
        BY <4>1, <4>3, <4>8, <4>9
    <3>3. CASE k \notin 1..Len(f)
      <4>1. l \notin 1..Len(f)
        BY <1>1, <1>3, <1>9, <3>3
      <4>2. PICK j1 \in 1..n : k = Len(f) + j1 /\ h[k] = <<i, d + j1>>
        BY <1>6, <3>3
      <4>3. PICK j2 \in 1..n : l = Len(f) + j2 /\ h[l] = <<i, d + j2>>
        BY <1>6, <4>1
      <4>4. d + j2 = (d + j1) + (l - k)
        BY <1>1, <1>5, <4>2, <4>3
      <4> QED
        BY <4>2, <4>3, <4>4 DEF Later
    <3> QED
      BY <3>1, <3>2, <3>3
  <2>2. Size(h[k][1])' = Size(h[k][1])
    BY <1>5 DEF Size
  <2> QED
    BY <2>1, <2>2 DEF Later
<1> QED
  BY <1>2, <1>3, <1>7, <1>8, <1>9 DEF InOrder, Bytes

(* One ::send of sendAll.                                                  *)
LEMMA SendSomeInv ==
  ASSUME FramingInv, SendSome
  PROVE  FramingInv'
<1>0. FramingTypeOK /\ SentOK /\ InOrder(Flight) /\ ReaderAt /\ SenderAt /\ ReceivedOK
  BY DEF FramingInv
<1>1. /\ end = "open" /\ left > 0
      /\ UNCHANGED <<sent, end, arrived, reader, declared, received, result>>
  BY DEF SendSome, readerVars
<1>2. left \in Nat /\ Len(sent) \in 1..Len(sent) /\ left <= Size(Len(sent)) /\ Done \in Nat
  BY <1>0, <1>1, LeftType
<1>3. PICK n \in 1..left :
        /\ wire' = wire \o [k \in 1..n |-> <<Len(sent), Done + k>>]
        /\ left' = left - n
  <2>1. Done = HeaderLen + sent[Len(sent)].size - left
    <3>1. sent[Len(sent)].size \in Nat
      BY <1>0, <1>2, SentType
    <3> QED
      BY <1>2, <3>1, Constants DEF Done, Size
  <2>2. \E n \in 1..(IF Done < HeaderLen THEN HeaderLen - Done ELSE left) :
          /\ wire' = wire \o [k \in 1..n |-> <<Len(sent), Done + k>>]
          /\ left' = left - n
    BY <2>1 DEF SendSome
  <2>3. (IF Done < HeaderLen THEN HeaderLen - Done ELSE left) <= left
    <3>1. Size(Len(sent)) \in Nat /\ Size(Len(sent)) >= HeaderLen
      BY <1>0, <1>2, SentType
    <3>2. Done = Size(Len(sent)) - left
      BY DEF Done
    <3> QED
      BY <1>2, <3>1, <3>2, Constants
  <2>4. (IF Done < HeaderLen THEN HeaderLen - Done ELSE left) \in Nat
    BY <1>2, Constants
  <2> QED
    BY <1>2, <2>2, <2>3, <2>4
<1>4. n \in Nat /\ n > 0 /\ left' \in Nat /\ WritesOn
  BY <1>1, <1>2, <1>3 DEF WritesOn
<1>5. PICK g : g = [k \in 1..n |-> <<Len(sent), Done + k>>]
  OBVIOUS
<1>6. /\ g \in Seq(Bytes) /\ Len(g) = n /\ g # <<>>
      /\ \A k \in 1..n : g[k] = <<Len(sent), Done + k>>
  <2>1. Len(sent) \in 1..MaxMessages
    BY <1>0, <1>2, SentType, Constants
  <2>2. \A k \in 1..n : <<Len(sent), Done + k>> \in Bytes
    BY <1>2, <1>4, <2>1 DEF Bytes
  <2>3. g \in Seq(Bytes) /\ Len(g) = n
    BY <1>4, <1>5, <2>2
  <2>4. \A k \in 1..n : g[k] = <<Len(sent), Done + k>>
    BY <1>5
  <2>5. g # <<>>
    BY <1>4, <2>3
  <2> QED
    BY <2>3, <2>4, <2>5
<1>7. Flight' = Flight \o g
  <2>1. arrived \in Seq(Bytes) /\ wire \in Seq(Bytes)
    BY <1>0, FlightType
  <2>2. Flight' = arrived \o (wire \o g)
    BY <1>1, <1>3, <1>5 DEF Flight
  <2>3. (arrived \o wire) \o g = arrived \o (wire \o g)
    BY <1>6, <2>1, ConcatAssociative
  <2> QED
    BY <2>2, <2>3 DEF Flight
<1>8. NextSent = <<Len(sent), Done + 1>>
  BY <1>1 DEF NextSent
<1>9. Flight # <<>> => Succ(Flight[Len(Flight)]) = <<Len(sent), Done + 1>>
  BY <1>0, <1>1, <1>8 DEF SenderAt
<1>10. InOrder(Flight)'
  <2>1. PICK f : f = Flight
    OBVIOUS
  <2>2. InOrder(f \o g)'
    BY <1>0, <1>1, <1>3, <1>4, <1>6, <1>9, <2>1, InOrderExtended
  <2> QED
    BY <1>7, <2>1, <2>2
<1>11. FramingTypeOK'
  <2>1. wire' \in Seq(Bytes)
    BY <1>0, <1>3, <1>5, <1>6, FlightType, ConcatProperties
  <2> QED
    BY <1>0, <1>1, <1>4, <2>1 DEF FramingTypeOK, Bytes
<1>12. Len(sent') = Len(sent) /\ Size(Len(sent))' = Size(Len(sent))
       /\ Done' = Done + n /\ Size(Len(sent)) \in Nat
  <2>1. Size(Len(sent)) \in Nat
    BY <1>0, <1>2, SentType
  <2>2. Size(Len(sent))' = Size(Len(sent))
    BY <1>1 DEF Size
  <2>3. Done' = Size(Len(sent)) - left'
    BY <1>1, <2>2 DEF Done, Size
  <2>4. Done = Size(Len(sent)) - left
    BY DEF Done
  <2>5. Done' = Done + n
    BY <1>2, <1>3, <1>4, <2>1, <2>3, <2>4
  <2> QED
    BY <1>1, <2>1, <2>2, <2>5
<1>13. SentOK'
  BY <1>0, <1>1, <1>2, <1>3, <1>4, <1>12 DEF SentOK
<1>14. /\ Len(Flight)' = Len(Flight) + n /\ Len(Flight) \in Nat
       /\ Flight'[Len(Flight)'] = <<Len(sent), Done + n>>
       /\ Flight' # <<>>
       /\ Flight # <<>> => Flight'[1] = Flight[1]
       /\ Flight = <<>> => Flight'[1] = <<Len(sent), Done + 1>>
  <2>1. Flight \in Seq(Bytes) /\ Len(Flight) \in Nat
    BY <1>0, FlightType
  <2>2. /\ Flight' \in Seq(Bytes)
        /\ Len(Flight') = Len(Flight) + n
        /\ \A k \in 1..(Len(Flight) + n) :
             Flight'[k] = IF k <= Len(Flight) THEN Flight[k] ELSE g[k - Len(Flight)]
    BY <1>6, <1>7, <2>1, ConcatProperties
  <2>3. /\ Len(Flight) + n \in 1..(Len(Flight) + n) /\ ~(Len(Flight) + n <= Len(Flight))
        /\ (Len(Flight) + n) - Len(Flight) = n /\ n \in 1..n /\ 1 \in 1..n
        /\ 1 \in 1..(Len(Flight) + n)
    BY <1>4, <2>1
  <2>4. Flight'[Len(Flight) + n] = g[n]
    BY <2>2, <2>3
  <2>5. ASSUME Flight # <<>>
        PROVE  Flight'[1] = Flight[1]
    <3>1. 1 <= Len(Flight)
      BY <2>1, <2>5, EmptySeq
    <3> QED
      BY <2>2, <2>3, <3>1
  <2>6. ASSUME Flight = <<>>
        PROVE  Flight'[1] = <<Len(sent), Done + 1>>
    <3>1. Len(Flight) = 0 /\ ~(1 <= Len(Flight)) /\ 1 - Len(Flight) = 1
      BY <2>6
    <3> QED
      BY <1>6, <2>2, <2>3, <3>1
  <2>7. Flight' # <<>>
    BY <2>1, <2>2, <1>4, EmptySeq
  <2> QED
    BY <1>6, <2>1, <2>2, <2>3, <2>4, <2>5, <2>6, <2>7
<1>15. SenderAt'
  <2>1. PICK b : b = <<Len(sent), Done + n>>
    OBVIOUS
  <2>2. b[1] = Len(sent) /\ b[2] = Done + n /\ Size(b[1])' = Size(Len(sent))
    BY <1>1, <2>1 DEF Size
  <2>3. Done = Size(Len(sent)) - left
    BY DEF Done
  <2>4. Succ(b)' = NextSent'
    <3>1. CASE left' > 0
      <4>1. b[2] < Size(Len(sent))
        BY SMTT(30), <1>2, <1>3, <1>4, <1>12, <2>2, <2>3, <3>1
      <4>2. Succ(b)' = <<Len(sent), (Done + n) + 1>>
        BY <2>2, <4>1 DEF Succ
      <4>3. NextSent' = <<Len(sent), (Done + n) + 1>>
        BY <1>12, <3>1 DEF NextSent
      <4> QED
        BY <4>2, <4>3
    <3>2. CASE ~(left' > 0)
      <4>1. ~(b[2] < Size(Len(sent)))
        BY SMTT(30), <1>2, <1>3, <1>4, <1>12, <2>2, <2>3, <3>2
      <4>2. Succ(b)' = <<Len(sent) + 1, 1>>
        BY <2>2, <4>1 DEF Succ
      <4>3. NextSent' = <<Len(sent) + 1, 1>>
        BY <1>12, <3>2 DEF NextSent
      <4> QED
        BY <4>2, <4>3
    <3> QED
      BY <3>1, <3>2
  <2> QED
    BY <1>14, <2>1, <2>4 DEF SenderAt
<1>16. ReceivedOK' /\ (Lost' <=> Lost)
  BY <1>0, <1>1, <1>4, <1>11, ReceivedStays
<1>17. ~Lost => Expected' = Expected
  <2>1. CASE reader = "body" /\ ~Lost
    <3>1. PICK b : b = <<Reading, HeaderLen>>
      OBVIOUS
    <3>2. Succ(b)' = Succ(b)
      BY <1>0, <1>4, <2>1, <3>1, SuccStays DEF ReaderAt
    <3> QED
      BY <1>1, <2>1, <3>1, <3>2 DEF Expected, Reading
  <2>2. CASE reader # "body"
    BY <1>1, <2>2 DEF Expected, Reading
  <2> QED
    BY <2>1, <2>2
<1>18. ReaderAt'
  <2>1. ASSUME ~Lost
        PROVE  Flight'[1] = Expected'
    BY <1>0, <1>1, <1>8, <1>14, <1>17, <2>1 DEF ReaderAt, SenderAt
  <2>2. ASSUME ~Lost, reader = "body"
        PROVE  declared' = sent'[Reading'].length /\ Written(<<Reading, HeaderLen>>)'
    <3>1. PICK b : b = <<Reading, HeaderLen>>
      OBVIOUS
    <3>2. Written(b)'
      BY <1>0, <1>4, <2>2, <3>1, WrittenStays DEF ReaderAt
    <3>3. Reading' = Reading
      BY <1>1 DEF Reading
    <3> QED
      BY <1>0, <1>1, <2>2, <3>1, <3>2, <3>3 DEF ReaderAt
  <2> QED
    BY <1>1, <1>16, <2>1, <2>2 DEF ReaderAt
<1> QED
  BY <1>10, <1>11, <1>13, <1>15, <1>18, <1>16 DEF FramingInv
-----------------------------------------------------------------------------
(* The steps that leave the sender's messages alone: what they keep when   *)
(* the bytes under way lose their first d, or their last ones.             *)
LEMMA MessagesStay ==
  ASSUME FramingInv, UNCHANGED <<sent, left>>, NEW d \in Nat,
         Flight' \in Seq(Bytes), d + Len(Flight)' <= Len(Flight),
         \A k \in 1..Len(Flight)' : Flight'[k] = Flight[k + d]
  PROVE  /\ SentOK' /\ InOrder(Flight)'
         /\ received' = received /\ FramingTypeOK' =>
              /\ ReceivedOK' /\ (Misled' <=> Misled)
              /\ reader' = reader => (Lost' <=> Lost)
         /\ d + Len(Flight)' = Len(Flight) /\ Flight' # <<>> =>
              Flight'[Len(Flight)'] = Flight[Len(Flight)]
         /\ \A b : Written(b) => Written(b)' /\ Succ(b)' = Succ(b)
         /\ NextSent' = NextSent
<1>0. FramingTypeOK /\ SentOK /\ InOrder(Flight) /\ ReceivedOK
  BY DEF FramingInv
<1>1. left \in Nat /\ left' \in Nat /\ WritesOn
  BY <1>0 DEF WritesOn, FramingTypeOK
<1>2. InOrder(Flight)'
  <2>1. PICK g : g = Flight'
    OBVIOUS
  <2>2. InOrder(g)
    BY <1>0, <2>1, Piece
  <2>3. InOrder(g)'
    BY <1>0, <1>1, <2>2, InOrderStays
  <2> QED
    BY <2>1, <2>3
<1>3. SentOK' /\ NextSent' = NextSent
  BY <1>0 DEF SentOK, NextSent, Done, Size
<1>4. \A b : Written(b) => Written(b)' /\ Succ(b)' = Succ(b)
  <2>1. SUFFICES ASSUME NEW b, Written(b)
                 PROVE  Written(b)' /\ Succ(b)' = Succ(b)
    OBVIOUS
  <2> QED
    BY <1>0, <1>1, <2>1, WrittenStays, SuccStays
<1>5. ASSUME d + Len(Flight)' = Len(Flight), Flight' # <<>>
      PROVE  Flight'[Len(Flight)'] = Flight[Len(Flight)]
  <2>1. Len(Flight') \in Nat \ {0}
    BY <1>5, EmptySeq
  <2>2. Len(Flight') \in 1..Len(Flight') /\ Len(Flight') + d = Len(Flight)
    BY <1>5, <2>1
  <2> QED
    BY <2>2
<1> QED
  BY <1>0, <1>1, <1>2, <1>3, <1>4, <1>5, ReceivedStays

(* The sender gives up, or closes, or the connection is reset.             *)
LEMMA SenderEndsInv ==
  ASSUME FramingInv, SendFails \/ SenderCloses
  PROVE  FramingInv'
<1>0. FramingTypeOK /\ ReaderAt
  BY DEF FramingInv
<1>1. /\ UNCHANGED <<sent, left, arrived, reader, declared, received, result>>
      /\ end' \in {"closed", "reset"}
      /\ wire' = wire \/ wire' = <<>>
  BY DEF SendFails, SenderCloses, readerVars
<1>2. /\ Flight \in Seq(Bytes) /\ Len(Flight) \in Nat
      /\ arrived \in Seq(Bytes) /\ Len(arrived) \in Nat /\ Len(Flight) = Len(arrived) + Len(wire)
      /\ Len(wire) \in Nat /\ \A k \in 1..Len(arrived) : Flight[k] = arrived[k]
  BY <1>0, FlightType
<1>3. \/ Flight' = Flight
      \/ Flight' = arrived
  BY <1>1, <1>2, ConcatEmptySeq DEF Flight
<1>4. /\ Flight' \in Seq(Bytes) /\ 0 + Len(Flight)' <= Len(Flight)
      /\ \A k \in 1..Len(Flight)' : Flight'[k] = Flight[k + 0]
  <2>1. CASE Flight' = Flight
    BY <1>2, <2>1
  <2>2. CASE Flight' = arrived
    BY <1>2, <2>2
  <2> QED
    BY <1>3, <2>1, <2>2
<1>5. FramingTypeOK'
  <2>1. wire' \in Seq(Bytes)
    BY <1>0, <1>1, FlightType, EmptySeq
  <2> QED
    BY <1>0, <1>1, <2>1 DEF FramingTypeOK, Bytes
<1>6. /\ SentOK' /\ InOrder(Flight)' /\ ReceivedOK' /\ (Lost' <=> Lost)
      /\ \A b : Written(b) => Written(b)' /\ Succ(b)' = Succ(b)
  BY <1>1, <1>4, <1>5, MessagesStay
<1>7. SenderAt'
  BY <1>1 DEF SenderAt
<1>8. ReaderAt'
  <2>1. ASSUME ~Lost
        PROVE  /\ Flight' # <<>> => Flight'[1] = Expected'
               /\ reader = "body" => declared' = sent'[Reading'].length
                                     /\ Written(<<Reading, HeaderLen>>)'
    <3>1. Reading' = Reading /\ ~Lost
      BY <1>1, <2>1 DEF Reading
    <3>2. PICK b : b = <<Reading, HeaderLen>>
      OBVIOUS
    <3>3. reader = "body" => declared = sent[Reading].length /\ Written(b)
      BY <1>0, <2>1, <3>2 DEF ReaderAt
    <3>4. reader = "body" => Written(b)' /\ Succ(b)' = Succ(b)
      BY <1>6, <3>3
    <3>5. Expected' = Expected
      BY <1>1, <3>1, <3>2, <3>4 DEF Expected
    <3>6. ASSUME Flight' # <<>>
          PROVE  Flight # <<>> /\ Flight'[1] = Flight[1]
      <4>1. Len(Flight') \in Nat \ {0}
        BY <1>4, <3>6, EmptySeq
      <4>2. 1 \in 1..Len(Flight') /\ 1 + 0 = 1
        BY <4>1
      <4>3. Len(Flight) # 0
        BY <1>2, <1>4, <4>1
      <4> QED
        BY <1>4, <4>2, <4>3
    <3> QED
      BY <1>0, <1>1, <2>1, <3>1, <3>2, <3>3, <3>4, <3>5, <3>6 DEF ReaderAt
  <2> QED
    BY <1>1, <1>6, <2>1 DEF ReaderAt
<1> QED
  BY <1>6, <1>5, <1>7, <1>8 DEF FramingInv

(* The bytes that arrive were under way.                                   *)
LEMMA ArriveInv ==
  ASSUME FramingInv, Arrive
  PROVE  FramingInv'
<1>0. FramingTypeOK /\ ReaderAt /\ SenderAt
  BY DEF FramingInv
<1>1. PICK n \in 1..Len(wire) :
        /\ arrived' = arrived \o SubSeq(wire, 1, n)
        /\ wire' = SubSeq(wire, n + 1, Len(wire))
  BY DEF Arrive
<1>2. UNCHANGED <<sent, left, end, reader, declared, received, result>>
  BY DEF Arrive, senderVars, readerVars
<1>3. /\ arrived \in Seq(Bytes) /\ wire \in Seq(Bytes)
      /\ Flight \in Seq(Bytes) /\ Len(Flight) \in Nat /\ Len(wire) \in Nat
  BY <1>0, FlightType
<1>4. PICK p, q : p = SubSeq(wire, 1, n) /\ q = SubSeq(wire, n + 1, Len(wire))
  OBVIOUS
<1>5. /\ p \in Seq(Bytes) /\ Len(p) = n /\ \A k \in 1..n : p[k] = wire[k]
      /\ q \in Seq(Bytes) /\ Len(q) = Len(wire) - n
      /\ \A k \in 1..(Len(wire) - n) : q[k] = wire[n + k]
  <2>0. \A k \in 1..Len(wire) : wire[k] \in Bytes
    BY <1>3, ElementOfSeq
  <2>1. /\ p \in Seq(Bytes) /\ Len(p) = IF 1 <= n THEN n - 1 + 1 ELSE 0
        /\ \A k \in 1..(n - 1 + 1) : p[k] = wire[1 + k - 1]
    <3>1. \A k \in 1..n : wire[k] \in Bytes
      BY <1>3, <2>0
    <3> QED
      BY <1>3, <1>4, <3>1, SubSeqProperties
  <2>2. /\ q \in Seq(Bytes)
        /\ Len(q) = IF n + 1 <= Len(wire) THEN Len(wire) - (n + 1) + 1 ELSE 0
        /\ \A k \in 1..(Len(wire) - (n + 1) + 1) : q[k] = wire[(n + 1) + k - 1]
    <3>1. \A k \in (n + 1)..Len(wire) : wire[k] \in Bytes
      BY <1>3, <2>0
    <3> QED
      BY <1>3, <1>4, <3>1, SubSeqProperties
  <2>3. Len(p) = n /\ \A k \in 1..n : p[k] = wire[k]
    <3>1. n - 1 + 1 = n /\ \A k \in 1..n : 1 + k - 1 = k
      BY <1>3
    <3> QED
      BY <2>1, <3>1
  <2>4. Len(q) = Len(wire) - n /\ \A k \in 1..(Len(wire) - n) : q[k] = wire[n + k]
    <3>1. /\ Len(wire) - (n + 1) + 1 = Len(wire) - n
          /\ ~(n + 1 <= Len(wire)) => Len(wire) - n = 0
          /\ \A k \in 1..(Len(wire) - n) : (n + 1) + k - 1 = n + k
      BY <1>3
    <3> QED
      BY <2>2, <3>1
  <2> QED
    BY <2>1, <2>2, <2>3, <2>4
<1>6. p \o q = wire
  <2>1. /\ p \o q \in Seq(Bytes) /\ Len(p \o q) = Len(p) + Len(q)
        /\ \A k \in 1..(Len(p) + Len(q)) :
             (p \o q)[k] = IF k <= Len(p) THEN p[k] ELSE q[k - Len(p)]
    BY <1>5, ConcatProperties
  <2>2. Len(p) + Len(q) = Len(wire)
    BY <1>3, <1>5
  <2>3. ASSUME NEW k \in 1..Len(wire)
        PROVE  (p \o q)[k] = wire[k]
    <3>1. CASE k <= n
      BY <1>3, <1>5, <2>1, <2>2, <3>1
    <3>2. CASE ~(k <= n)
      <4>1. k - n \in 1..(Len(wire) - n) /\ n + (k - n) = k
        BY <1>3, <3>2
      <4> QED
        BY <1>5, <2>1, <2>2, <3>2, <4>1
    <3> QED
      BY <3>1, <3>2
  <2> QED
    BY <1>3, <2>1, <2>2, <2>3, SeqEqual
<1>7. Flight' = Flight
  <2>1. (arrived \o p) \o q = arrived \o (p \o q)
    <3>1. arrived \in Seq(Bytes) /\ p \in Seq(Bytes) /\ q \in Seq(Bytes)
      BY <1>3, <1>5
    <3> QED
      BY <3>1, ConcatAssociative
  <2> QED
    BY <1>1, <1>4, <1>6, <2>1 DEF Flight
<1>8. FramingTypeOK'
  <2>1. arrived' \in Seq(Bytes) /\ wire' \in Seq(Bytes)
    BY <1>1, <1>3, <1>4, <1>5, ConcatProperties
  <2> QED
    BY <1>0, <1>2, <2>1 DEF FramingTypeOK, Bytes
<1>9. /\ SentOK' /\ InOrder(Flight)' /\ ReceivedOK' /\ (Lost' <=> Lost) /\ NextSent' = NextSent
      /\ \A b : Written(b) => Written(b)' /\ Succ(b)' = Succ(b)
  <2>1. /\ Flight' \in Seq(Bytes) /\ 0 + Len(Flight)' <= Len(Flight)
        /\ \A k \in 1..Len(Flight)' : Flight'[k] = Flight[k + 0]
    BY <1>3, <1>7
  <2> QED
    BY <1>2, <1>8, <2>1, MessagesStay
<1>10. Reading' = Reading
  BY <1>2 DEF Reading
<1>11. PICK b : b = <<Reading, HeaderLen>>
  OBVIOUS
<1>12. ~Lost /\ reader = "body" =>
         /\ declared' = sent'[Reading'].length
         /\ Written(b)' /\ Succ(b)' = Succ(b)
  BY <1>0, <1>2, <1>9, <1>10, <1>11 DEF ReaderAt
<1>13. ~Lost => Expected' = Expected
  BY <1>2, <1>10, <1>11, <1>12 DEF Expected
<1>14. ReaderAt'
  BY <1>0, <1>2, <1>7, <1>9, <1>10, <1>11, <1>12, <1>13 DEF ReaderAt
<1>15. SenderAt'
  <2>1. CASE Flight = <<>>
    BY <1>0, <1>2, <1>7, <1>9, <1>13, <2>1 DEF SenderAt
  <2>2. CASE Flight # <<>>
    <3>1. PICK e : e = Flight[Len(Flight)]
      OBVIOUS
    <3>2. Written(e)
      <4>1. Len(Flight) \in 1..Len(Flight)
        BY <1>3, <2>2, EmptySeq
      <4> QED
        BY <3>1, <4>1 DEF FramingInv, InOrder
    <3>3. Succ(e)' = Succ(e)
      BY <1>9, <3>2
    <3> QED
      BY <1>0, <1>2, <1>7, <1>9, <2>2, <3>1, <3>3 DEF SenderAt
  <2> QED
    BY <2>1, <2>2
<1> QED
  BY <1>9, <1>8, <1>14, <1>15 DEF FramingInv
-----------------------------------------------------------------------------
(* One ::recv takes the first bytes there are, up to the size asked for.   *)
LEMMA TakeFacts ==
  ASSUME FramingTypeOK, NEW size \in Nat, Take(size), wire' = wire
  PROVE  \E t \in Nat :
           /\ t <= size /\ t <= Len(arrived)
           /\ Taken(size) \in Seq(Bytes) /\ Len(Taken(size)) = t
           /\ \A k \in 1..t : Taken(size)[k] = Flight[k]
           /\ arrived' \in Seq(Bytes) /\ Flight' \in Seq(Bytes)
           /\ t + Len(Flight)' = Len(Flight)
           /\ \A k \in 1..Len(Flight)' : Flight'[k] = Flight[k + t]
<1>1. /\ arrived \in Seq(Bytes) /\ wire \in Seq(Bytes) /\ Len(arrived) \in Nat
      /\ Len(wire) \in Nat /\ Len(Flight) = Len(arrived) + Len(wire)
      /\ \A k \in 1..Len(arrived) : Flight[k] = arrived[k]
      /\ \A k \in 1..Len(wire) : Flight[Len(arrived) + k] = wire[k]
  BY FlightType
<1>2. PICK n : n = Min({size, Len(arrived)})
  OBVIOUS
<1>3. n \in Nat /\ n <= size /\ n <= Len(arrived)
  <2>1. {size, Len(arrived)} \subseteq Nat /\ {size, Len(arrived)} # {}
    BY <1>1
  <2> QED
    BY <1>2, <2>1, MinIsLeast
<1>4. \A k \in 1..Len(arrived) : arrived[k] \in Bytes
  BY <1>1, ElementOfSeq
<1>5. PICK p : p = Taken(size)
  OBVIOUS
<1>6. p \in Seq(Bytes) /\ Len(p) = n /\ \A k \in 1..n : p[k] = arrived[k]
  <2>1. \A k \in 1..n : arrived[k] \in Bytes
    BY <1>1, <1>3, <1>4
  <2>2. p = SubSeq(arrived, 1, n)
    BY <1>2, <1>5 DEF Taken
  <2>3. /\ p \in Seq(Bytes) /\ Len(p) = IF 1 <= n THEN n - 1 + 1 ELSE 0
        /\ \A k \in 1..(n - 1 + 1) : p[k] = arrived[1 + k - 1]
    BY <1>3, <2>1, <2>2, SubSeqProperties
  <2>4. n - 1 + 1 = n /\ (~(1 <= n) => n = 0) /\ \A k \in 1..n : 1 + k - 1 = k
    BY <1>3
  <2> QED
    BY <2>3, <2>4
<1>7. PICK q : q = arrived'
  OBVIOUS
<1>8. /\ q \in Seq(Bytes) /\ Len(q) = Len(arrived) - n
      /\ \A k \in 1..(Len(arrived) - n) : q[k] = arrived[k + n]
  <2>1. \A k \in (n + 1)..Len(arrived) : arrived[k] \in Bytes
    BY <1>1, <1>3, <1>4
  <2>2. q = SubSeq(arrived, n + 1, Len(arrived))
    BY <1>5, <1>6, <1>7 DEF Take
  <2>3. /\ q \in Seq(Bytes)
        /\ Len(q) = IF n + 1 <= Len(arrived) THEN Len(arrived) - (n + 1) + 1 ELSE 0
        /\ \A k \in 1..(Len(arrived) - (n + 1) + 1) : q[k] = arrived[(n + 1) + k - 1]
    BY <1>1, <1>3, <2>1, <2>2, SubSeqProperties
  <2>4. /\ Len(arrived) - (n + 1) + 1 = Len(arrived) - n
        /\ ~(n + 1 <= Len(arrived)) => Len(arrived) - n = 0
        /\ \A k \in 1..(Len(arrived) - n) : (n + 1) + k - 1 = k + n
    BY <1>1, <1>3
  <2> QED
    BY <2>3, <2>4
<1>9. PICK f : f = Flight'
  OBVIOUS
<1>10. /\ f \in Seq(Bytes) /\ Len(f) = (Len(arrived) - n) + Len(wire)
       /\ \A k \in 1..((Len(arrived) - n) + Len(wire)) :
            f[k] = IF k <= Len(arrived) - n THEN q[k] ELSE wire[k - (Len(arrived) - n)]
  <2>1. f = q \o wire
    BY <1>7, <1>9 DEF Flight
  <2>2. /\ f \in Seq(Bytes) /\ Len(f) = Len(q) + Len(wire)
        /\ \A k \in 1..(Len(q) + Len(wire)) :
             f[k] = IF k <= Len(q) THEN q[k] ELSE wire[k - Len(q)]
    BY <1>1, <1>8, <2>1, ConcatProperties
  <2> QED
    BY <1>8, <2>2
<1>11. ASSUME NEW k \in 1..Len(f)
       PROVE  f[k] = Flight[k + n]
  <2>1. CASE k <= Len(arrived) - n
    <3>1. k \in 1..(Len(arrived) - n) /\ k + n \in 1..Len(arrived)
      BY <1>1, <1>3, <1>10, <2>1
    <3> QED
      BY <1>1, <1>8, <1>10, <2>1, <3>1
  <2>2. CASE ~(k <= Len(arrived) - n)
    <3>1. /\ k - (Len(arrived) - n) \in 1..Len(wire)
          /\ Len(arrived) + (k - (Len(arrived) - n)) = k + n
      BY <1>1, <1>3, <1>10, <2>2
    <3> QED
      BY <1>1, <1>10, <2>2, <3>1
  <2> QED
    BY <2>1, <2>2
<1>12. n + Len(f) = Len(Flight)
  BY <1>1, <1>3, <1>10
<1>13. \A k \in 1..n : p[k] = Flight[k]
  BY <1>1, <1>3, <1>6
<1> QED
  BY <1>3, <1>5, <1>6, <1>7, <1>8, <1>9, <1>10, <1>11, <1>12, <1>13

(* A ::recv after which the reader closes the connection, is undefined or  *)
(* no longer follows the messages.                                         *)
LEMMA ReaderLostInv ==
  ASSUME FramingInv, NEW size \in Nat, Take(size),
         UNCHANGED <<sent, left, end, wire>>,
         reader' \in {"idle", "body", "closed", "undefined"},
         declared' \in Int, declared' <= MAX_PACKET_LENGTH,
         received' \in Seq(Seq(Bytes)), ReceivedOK', Lost',
         result' \in {"RES_SUCCESS", "RES_BAD_MESSAGE_FORMAT", "RES_PACKET_TOO_LONG",
                      "RES_FAILED_RECEIVING_ALL_DATA"}
  PROVE  FramingInv'
<1>0. FramingTypeOK /\ SenderAt /\ Len(Flight) \in Nat /\ Len(Flight') \in Nat
  <2>1. FramingTypeOK /\ SenderAt
    BY DEF FramingInv
  <2>2. Flight' \in Seq(Bytes)
    BY <2>1, TakeFacts
  <2> QED
    BY <2>1, <2>2, FlightType
<1>1. PICK t \in Nat :
        /\ arrived' \in Seq(Bytes) /\ Flight' \in Seq(Bytes)
        /\ t + Len(Flight)' = Len(Flight)
        /\ \A k \in 1..Len(Flight)' : Flight'[k] = Flight[k + t]
  BY <1>0, TakeFacts
<1>2. /\ SentOK' /\ InOrder(Flight)' /\ NextSent' = NextSent
      /\ Flight' # <<>> => Flight'[Len(Flight)'] = Flight[Len(Flight)]
      /\ \A b : Written(b) => Succ(b)' = Succ(b)
  <2>1. t + Len(Flight)' <= Len(Flight)
    BY <1>0, <1>1
  <2> QED
    BY <1>1, <2>1, MessagesStay
<1>3. FramingTypeOK'
  BY <1>0, <1>1 DEF FramingTypeOK, Bytes
<1>4. ReaderAt'
  BY DEF ReaderAt
<1>5. SenderAt'
  <2>1. CASE Flight' = <<>>
    BY <2>1 DEF SenderAt
  <2>2. CASE Flight' # <<>>
    <3>1. Len(Flight') # 0 /\ Flight # <<>> /\ Len(Flight) \in 1..Len(Flight)
      <4>1. Len(Flight') \in Nat \ {0}
        BY <1>1, <2>2, EmptySeq
      <4>2. Len(Flight) # 0
        BY <1>0, <1>1, <4>1
      <4> QED
        BY <1>0, <4>1, <4>2
    <3>2. PICK e : e = Flight[Len(Flight)]
      OBVIOUS
    <3>3. Written(e)
      BY <3>1, <3>2 DEF FramingInv, InOrder
    <3>4. Succ(e)' = Succ(e)
      BY <1>2, <3>3
    <3> QED
      BY <1>0, <1>2, <2>2, <3>1, <3>2, <3>4 DEF SenderAt
  <2> QED
    BY <2>1, <2>2
<1> QED
  BY <1>2, <1>3, <1>4, <1>5 DEF FramingInv

LEMMA ReaderEndsInv ==
  ASSUME FramingInv, NEW size \in Nat, Take(size),
         UNCHANGED <<sent, left, end, wire, declared, received>>,
         reader' \in {"closed", "undefined"},
         result' \in {"RES_SUCCESS", "RES_BAD_MESSAGE_FORMAT", "RES_PACKET_TOO_LONG",
                      "RES_FAILED_RECEIVING_ALL_DATA"}
  PROVE  FramingInv'
<1>1. FramingTypeOK /\ SentOK /\ ReceivedOK
  BY DEF FramingInv
<1>2. /\ declared' \in Int /\ declared' <= MAX_PACKET_LENGTH
      /\ received' \in Seq(Seq(Bytes)) /\ left \in Nat /\ left' \in Nat
  BY <1>1 DEF FramingTypeOK, Bytes
<1>3. PICK n \in Nat : Follows(n)
  BY <1>1 DEF ReceivedOK
<1>4. WritesOn /\ Len(received) \in Nat
  BY <1>1, <1>2, FlightType DEF WritesOn
<1>5. Follows(n)'
  BY <1>1, <1>2, <1>3, <1>4, FollowsStays
<1>6. ReceivedOK' /\ Lost'
  BY <1>5 DEF ReceivedOK, Lost, ReaderGone
<1> QED
  BY <1>2, <1>6, ReaderLostInv

(* A ::recv that takes the bytes up to b, after which the reader expects   *)
(* the byte that follows b.                                                *)
LEMMA ReaderGoesOn ==
  ASSUME FramingInv, UNCHANGED <<sent, left, end, wire>>,
         NEW t \in Nat, t > 0, t <= Len(Flight),
         Flight' \in Seq(Bytes), t + Len(Flight)' = Len(Flight),
         \A k \in 1..Len(Flight)' : Flight'[k] = Flight[k + t],
         Expected' = Succ(Flight[t])
  PROVE  /\ SentOK' /\ InOrder(Flight)' /\ SenderAt'
         /\ Flight' # <<>> => Flight'[1] = Expected'
<1>0. FramingTypeOK /\ SenderAt /\ InOrder(Flight) /\ Len(Flight) \in Nat /\ Len(Flight') \in Nat
  <2>1. FramingTypeOK /\ SenderAt /\ InOrder(Flight)
    BY DEF FramingInv
  <2> QED
    BY <2>1, FlightType
<1>1. /\ SentOK' /\ InOrder(Flight)' /\ NextSent' = NextSent
      /\ Flight' # <<>> => Flight'[Len(Flight)'] = Flight[Len(Flight)]
      /\ \A b : Written(b) => Succ(b)' = Succ(b)
  <2>1. t + Len(Flight)' <= Len(Flight)
    BY <1>0
  <2> QED
    BY <2>1, MessagesStay
<1>2. ASSUME Flight' # <<>>
      PROVE  Flight'[1] = Expected'
  <2>1. Len(Flight') \in Nat \ {0}
    BY <1>2, EmptySeq
  <2>2. 1 \in 1..Len(Flight') /\ t \in 1..(Len(Flight) - 1) /\ 1 + t = t + 1
    BY <1>0, <2>1
  <2>3. Flight'[1] = Flight[t + 1] /\ Flight[t + 1] = Succ(Flight[t])
    BY <1>0, <2>2 DEF InOrder
  <2> QED
    BY <2>3
<1>3. SenderAt'
  <2>1. PICK e : e = Flight[Len(Flight)]
    OBVIOUS
  <2>2. Len(Flight) \in 1..Len(Flight) /\ Flight # <<>>
    BY <1>0
  <2>3. Written(e) /\ Succ(e)' = Succ(e)
    BY <1>0, <1>1, <2>1, <2>2 DEF InOrder
  <2>4. end = "open" => Succ(e) = NextSent
    BY <1>0, <2>1, <2>2 DEF SenderAt
  <2>5. CASE Flight' = <<>>
    <3>1. t = Len(Flight)
      BY <1>0, <2>5
    <3> QED
      BY <1>1, <2>1, <2>4, <2>5, <3>1 DEF SenderAt
  <2>6. CASE Flight' # <<>>
    BY <1>1, <2>1, <2>3, <2>4, <2>6 DEF SenderAt
  <2> QED
    BY <2>5, <2>6
<1> QED
  BY <1>1, <1>2, <1>3
-----------------------------------------------------------------------------
(* The reader begins a message.                                            *)
LEMMA RecvMessageInv ==
  ASSUME FramingInv, RecvMessage
  PROVE  FramingInv'
<1>0. FramingTypeOK /\ SentOK /\ InOrder(Flight) /\ ReaderAt /\ SenderAt /\ ReceivedOK
  BY DEF FramingInv
<1>1. /\ reader = "idle" /\ reader' = "header"
      /\ UNCHANGED <<sent, left, end, wire, arrived, declared, received, result>>
  BY DEF RecvMessage, senderVars
<1>2. FramingTypeOK'
  BY <1>0, <1>1 DEF FramingTypeOK
<1>3. Flight' = Flight /\ Flight \in Seq(Bytes) /\ Len(Flight) \in Nat
  BY <1>0, <1>1, FlightType DEF Flight
<1>4. /\ SentOK' /\ InOrder(Flight)' /\ ReceivedOK' /\ (Misled' <=> Misled) /\ NextSent' = NextSent
      /\ \A b : Written(b) => Succ(b)' = Succ(b)
  <2>1. 0 + Len(Flight)' <= Len(Flight) /\ \A k \in 1..Len(Flight)' : Flight'[k] = Flight[k + 0]
    BY <1>3
  <2> QED
    BY <1>1, <1>2, <1>3, <2>1, MessagesStay
<1>5. Expected' = Expected /\ (Lost' <=> Lost)
  BY <1>1, <1>4 DEF Expected, Reading, Lost, ReaderGone
<1>6. ReaderAt'
  BY <1>0, <1>1, <1>3, <1>5 DEF ReaderAt
<1>7. SenderAt'
  <2>1. CASE Flight = <<>>
    BY <1>0, <1>1, <1>3, <1>4, <1>5, <2>1 DEF SenderAt
  <2>2. CASE Flight # <<>>
    <3>1. PICK e : e = Flight[Len(Flight)]
      OBVIOUS
    <3>2. Len(Flight) \in 1..Len(Flight)
      BY <1>3, <2>2, EmptySeq
    <3>3. Succ(e)' = Succ(e)
      BY <1>0, <1>4, <3>1, <3>2 DEF InOrder
    <3> QED
      BY <1>0, <1>1, <1>3, <1>4, <2>2, <3>1, <3>3 DEF SenderAt
  <2> QED
    BY <2>1, <2>2
<1> QED
  BY <1>2, <1>4, <1>6, <1>7 DEF FramingInv

(* The length field the reader takes is the one of its message.            *)
LEMMA HeaderRead ==
  ASSUME FramingInv, RecvHeader, ~Misled,
         NEW got, got = Taken(HeaderLen), Len(got) = HeaderLen
  PROVE  /\ Reading \in 1..Len(sent)
         /\ Declared(got) = {sent[Reading].length}
         /\ HeaderLen \in 1..Len(Flight)
         /\ Flight[HeaderLen] = <<Reading, HeaderLen>>
         /\ arrived' \in Seq(Bytes) /\ Flight' \in Seq(Bytes)
         /\ HeaderLen + Len(Flight)' = Len(Flight)
         /\ \A k \in 1..Len(Flight)' : Flight'[k] = Flight[k + HeaderLen]
<1>0. FramingTypeOK /\ InOrder(Flight) /\ ReaderAt
  BY DEF FramingInv
<1>1. reader = "header" /\ Take(HeaderLen) /\ wire' = wire
  BY DEF RecvHeader
<1>2. PICK t \in Nat :
        /\ t <= HeaderLen /\ t <= Len(arrived)
        /\ got \in Seq(Bytes) /\ Len(got) = t
        /\ \A k \in 1..t : got[k] = Flight[k]
        /\ arrived' \in Seq(Bytes) /\ Flight' \in Seq(Bytes)
        /\ t + Len(Flight)' = Len(Flight)
        /\ \A k \in 1..Len(Flight)' : Flight'[k] = Flight[k + t]
  BY <1>0, <1>1, Constants, TakeFacts
<1>3. t = HeaderLen /\ HeaderLen \in Nat /\ HeaderLen > 0
  BY <1>2, Constants
<1>4. /\ Len(Flight) \in Nat /\ HeaderLen <= Len(Flight)
      /\ Flight # <<>> /\ Reading \in Nat
  <2>1. Len(Flight) \in Nat /\ Reading \in Nat /\ Len(Flight') \in Nat
    BY <1>0, <1>2, FlightType
  <2>2. HeaderLen <= Len(Flight)
    BY <1>2, <1>3, <2>1
  <2>3. Len(Flight) > 0
    BY <1>3, <2>1, <2>2
  <2> QED
    BY <2>1, <2>2, <2>3
<1>5. Flight[1] = <<Reading, 1>>
  BY <1>0, <1>1, <1>4 DEF ReaderAt, Lost, ReaderGone, Expected
<1>6. Reading \in 1..Len(sent) /\ HeaderLen <= Size(Reading) /\ Size(Reading) \in Nat
  <2>1. 1 \in 1..Len(Flight)
    BY <1>3, <1>4
  <2>2. Written(<<Reading, 1>>)
    BY <1>0, <1>5, <2>1 DEF InOrder
  <2>3. Reading \in 1..Len(sent)
    BY <2>2 DEF Written
  <2> QED
    BY <1>0, <2>3, SentType
<1>7. \A k \in 1..HeaderLen : Flight[k] = <<Reading, k>>
  <2>1. SUFFICES ASSUME NEW k \in 1..HeaderLen
                 PROVE  Flight[k] = <<Reading, k>>
    OBVIOUS
  <2>2. k \in 1..Len(Flight) /\ (1 + k) - 1 = k /\ k <= Size(Reading)
    BY <1>3, <1>4, <1>6
  <2>3. PICK n, s \in Nat : n = Reading /\ s = 1
    BY <1>4
  <2>4. Flight[k] = <<n, (s + k) - 1>>
    BY <1>0, <1>4, <1>5, <2>2, <2>3, FirstBytes
  <2> QED
    BY <2>2, <2>3, <2>4
<1>8. got = Header(Reading) /\ got[1][1] = Reading
  <2>1. PICK h : h = Header(Reading)
    OBVIOUS
  <2>2. \A k \in 1..HeaderLen : h[k] = <<Reading, k>> /\ got[k] = <<Reading, k>>
    BY <1>2, <1>3, <1>7, <2>1 DEF Header
  <2>3. h \in Seq(Bytes) /\ Len(h) = HeaderLen
    <3>1. \A k \in 1..HeaderLen : <<Reading, k>> \in Bytes
      <4>1. \A k \in 1..HeaderLen : got[k] \in Bytes
        BY <1>2, <1>3, ElementOfSeq
      <4> QED
        BY <2>2, <4>1
    <3> QED
      BY <1>3, <2>1, <3>1 DEF Header
  <2>4. got = h
    BY ZenonT(60), <1>2, <1>3, <2>2, <2>3, SeqEqual
  <2>5. 1 \in 1..HeaderLen
    BY <1>3
  <2> QED
    BY <2>1, <2>2, <2>4, <2>5
<1>9. Declared(got) = {sent[Reading].length}
  BY <1>8 DEF Declared
<1>10. HeaderLen \in 1..HeaderLen /\ HeaderLen \in 1..Len(Flight)
  BY <1>3, <1>4
<1> QED
  BY <1>2, <1>3, <1>6, <1>7, <1>9, <1>10

(* Whatever bytes the reader takes for a length field, they are a number.  *)
LEMMA DeclaredType ==
  ASSUME FramingInv, RecvHeader, NEW got, got = Taken(HeaderLen), Len(got) = HeaderLen
  PROVE  Declared(got) \subseteq Int /\ arrived' \in Seq(Bytes)
<1>0. FramingTypeOK /\ InOrder(Flight) /\ HeaderLen \in Nat /\ HeaderLen > 0
      /\ MAX_PACKET_LENGTH \in Nat
  BY Constants DEF FramingInv
<1>1. PICK t \in Nat :
        /\ t <= Len(arrived) /\ Len(got) = t
        /\ \A k \in 1..t : got[k] = Flight[k]
        /\ arrived' \in Seq(Bytes)
  BY <1>0, TakeFacts DEF RecvHeader
<1>2. 1 \in 1..t /\ 1 \in 1..Len(Flight)
  BY <1>0, <1>1, FlightType
<1>3. got[1][1] \in 1..Len(sent)
  BY <1>0, <1>1, <1>2 DEF InOrder, Written
<1>4. sent[got[1][1]].length \in Int
  BY <1>0, <1>3, SentType
<1>5. -(MAX_PACKET_LENGTH + 1)..(MAX_PACKET_LENGTH + 1) \subseteq Int
  OBVIOUS
<1> QED
  BY <1>1, <1>4, <1>5 DEF Declared

LEMMA RecvHeaderInv ==
  ASSUME FramingInv, RecvHeader
  PROVE  FramingInv'
<1>0. FramingTypeOK /\ InOrder(Flight)
  BY DEF FramingInv
<1>1. /\ reader = "header" /\ Take(HeaderLen)
      /\ UNCHANGED <<sent, left, end, wire>>
  BY DEF RecvHeader, senderVars
<1>2. PICK got : got = Taken(HeaderLen)
  OBVIOUS
<1>3. \/ Len(got) # HeaderLen /\ Fail("RES_BAD_MESSAGE_FORMAT")
      \/ /\ Len(got) = HeaderLen
         /\ \E length \in Declared(got) :
              \/ length > MAX_PACKET_LENGTH /\ Fail("RES_PACKET_TOO_LONG")
              \/ /\ ~(length > MAX_PACKET_LENGTH)
                 /\ reader' = "body" /\ declared' = length
                 /\ UNCHANGED <<received, result>>
  BY <1>2 DEF RecvHeader
<1>4. CASE \E error \in {"RES_BAD_MESSAGE_FORMAT", "RES_PACKET_TOO_LONG"} : Fail(error)
  <2>1. PICK error \in {"RES_BAD_MESSAGE_FORMAT", "RES_PACKET_TOO_LONG"} : Fail(error)
    BY <1>4
  <2>2. reader' = "closed" /\ result' = error /\ UNCHANGED <<declared, received>>
    BY <2>1 DEF Fail
  <2>3. ReaderGone'
    BY <2>2 DEF ReaderGone
  <2>4. HeaderLen \in Nat
    BY Constants
  <2> QED
    BY <1>1, <2>1, <2>2, <2>3, <2>4, ReaderEndsInv
<1>5. CASE /\ Len(got) = HeaderLen /\ ~Misled
           /\ \E length \in Declared(got) :
                /\ ~(length > MAX_PACKET_LENGTH)
                /\ reader' = "body" /\ declared' = length
                /\ UNCHANGED <<received, result>>
  <2>1. PICK length \in Declared(got) :
          /\ ~(length > MAX_PACKET_LENGTH)
          /\ reader' = "body" /\ declared' = length
          /\ UNCHANGED <<received, result>>
    BY <1>5
  <2>2. /\ Reading \in 1..Len(sent)
        /\ Declared(got) = {sent[Reading].length}
        /\ HeaderLen \in 1..Len(Flight)
        /\ Flight[HeaderLen] = <<Reading, HeaderLen>>
        /\ arrived' \in Seq(Bytes) /\ Flight' \in Seq(Bytes)
        /\ HeaderLen + Len(Flight)' = Len(Flight)
        /\ \A k \in 1..Len(Flight)' : Flight'[k] = Flight[k + HeaderLen]
    BY <1>2, <1>5, HeaderRead
  <2>3. HeaderLen \in Nat /\ HeaderLen > 0 /\ HeaderLen <= Len(Flight)
        /\ MAX_PACKET_LENGTH \in Nat /\ Len(Flight) \in Nat
    BY <1>0, <2>2, Constants, FlightType
  <2>4. declared' = sent[Reading].length /\ declared' \in Int /\ declared' <= MAX_PACKET_LENGTH
    <3>1. length = sent[Reading].length
      BY <2>1, <2>2
    <3>2. length \in Int
      BY <1>0, <2>2, <3>1, SentType
    <3> QED
      BY <2>1, <2>3, <3>1, <3>2
  <2>5. FramingTypeOK'
    BY <1>0, <1>1, <2>1, <2>2, <2>4 DEF FramingTypeOK, Bytes
  <2>6. Reading' = Reading
    BY <2>1 DEF Reading
  <2>7. PICK b : b = <<Reading, HeaderLen>>
    OBVIOUS
  <2>8. Written(b)
    BY <1>0, <2>2, <2>7 DEF InOrder
  <2>9. Written(b)' /\ Succ(b)' = Succ(b) /\ ReceivedOK'
    <3>1. HeaderLen + Len(Flight)' <= Len(Flight)
      BY <2>2, <2>3
    <3> QED
      BY <1>1, <2>1, <2>2, <2>3, <2>5, <2>8, <3>1, MessagesStay
  <2>10. Expected' = Succ(Flight[HeaderLen])
    BY <2>1, <2>2, <2>6, <2>7, <2>9 DEF Expected
  <2>11. /\ SentOK' /\ InOrder(Flight)' /\ SenderAt'
         /\ Flight' # <<>> => Flight'[1] = Expected'
    BY <1>1, <2>2, <2>3, <2>10, ReaderGoesOn
  <2>12. ReaderAt'
    BY <1>1, <2>1, <2>4, <2>6, <2>7, <2>9, <2>11 DEF ReaderAt
  <2> QED
    BY <2>1, <2>5, <2>9, <2>11, <2>12 DEF FramingInv
<1>6. CASE /\ Len(got) = HeaderLen /\ Misled
           /\ \E length \in Declared(got) :
                /\ ~(length > MAX_PACKET_LENGTH)
                /\ reader' = "body" /\ declared' = length
                /\ UNCHANGED <<received, result>>
  <2>1. PICK length \in Declared(got) :
          /\ ~(length > MAX_PACKET_LENGTH)
          /\ reader' = "body" /\ declared' = length
          /\ UNCHANGED <<received, result>>
    BY <1>6
  <2>2. length \in Int /\ arrived' \in Seq(Bytes) /\ MAX_PACKET_LENGTH \in Nat
    BY <1>2, <1>6, DeclaredType, Constants
  <2>3. declared' \in Int /\ declared' <= MAX_PACKET_LENGTH
    BY <2>1, <2>2
  <2>4. FramingTypeOK' /\ received' \in Seq(Seq(Bytes))
    BY <1>0, <1>1, <2>1, <2>2, <2>3 DEF FramingTypeOK, Bytes
  <2>5. WritesOn /\ SentOK /\ ReceivedOK
    BY <1>0, <1>1 DEF WritesOn, FramingInv, FramingTypeOK
  <2>6. ReceivedOK' /\ Lost'
    BY <1>0, <1>6, <2>1, <2>4, <2>5, ReceivedStays DEF Lost
  <2>7. HeaderLen \in Nat /\ result' \in {"RES_SUCCESS", "RES_BAD_MESSAGE_FORMAT",
                               "RES_PACKET_TOO_LONG", "RES_FAILED_RECEIVING_ALL_DATA"}
    BY <1>0, <2>1, Constants DEF FramingTypeOK
  <2> QED
    BY <1>1, <2>1, <2>3, <2>4, <2>6, <2>7, ReaderLostInv
<1> QED
  BY <1>3, <1>4, <1>5, <1>6

(* A packet accepted for a message of another program, or after one.       *)
LEMMA AcceptedAnyway ==
  ASSUME FramingInv, Take(AskedFor), UNCHANGED <<sent, left, end, wire>>,
         reader = "body", reader' = "idle", result' = "RES_SUCCESS", declared' = declared,
         NEW got, got = Taken(AskedFor), Len(got) = declared,
         received' = Append(received, got),
         Misled \/ ~IsOwn(sent[Reading])
  PROVE  FramingInv'
<1>0. FramingTypeOK /\ SentOK /\ ReaderAt /\ ReceivedOK
  BY DEF FramingInv
<1>1. /\ AskedFor \in Nat /\ declared \in Int /\ declared <= MAX_PACKET_LENGTH
      /\ MAX_PACKET_LENGTH \in Nat /\ left \in Nat /\ left' \in Nat
  BY <1>0, Constants DEF AskedFor, FramingTypeOK
<1>2. got \in Seq(Bytes) /\ declared \in Nat
  BY <1>0, <1>1, TakeFacts
<1>3. /\ received \in Seq(Seq(Bytes)) /\ received' \in Seq(Seq(Bytes))
      /\ Len(received) \in Nat /\ Len(received') = Len(received) + 1
      /\ \A i \in 1..Len(received) : received'[i] = received[i]
  <2>1. received \in Seq(Seq(Bytes))
    BY <1>0 DEF FramingTypeOK, Bytes
  <2> QED
    BY <1>2, <2>1, AppendProperties
<1>4. PICK n \in Nat : Follows(n)
  BY <1>0 DEF ReceivedOK
<1>5. InStepAt(n) /\ WritesOn
  BY <1>0, <1>1, <1>4, InStepIs DEF WritesOn
<1>6. Follows(n)' /\ n # Len(received')
  <2>1. CASE n # Len(received)
    <3>1. n + 1 \in 1..Len(received)
      BY <1>4, <2>1 DEF Follows
    <3>2. Follows(n)'
      BY <1>0, <1>1, <1>3, <1>4, <1>5, <2>1, FollowsStays
    <3> QED
      BY <1>3, <3>1, <3>2
  <2>2. CASE n = Len(received)
    <3>1. ~Misled /\ ~IsOwn(sent[n + 1])
      BY <1>5, <2>2 DEF InStepAt, Reading
    <3>2. /\ declared = sent[n + 1].length /\ n + 1 \in 1..Len(sent)
      BY <1>0, <2>2, <3>1 DEF ReaderAt, Lost, ReaderGone, Written, Reading
    <3>3. n + 1 \in 1..Len(received') /\ n \in 0..Len(received') /\ n # Len(received')
      BY <1>3, <2>2
    <3>4. sent[n + 1].length \in 0..MAX_PACKET_LENGTH
      BY <1>1, <1>2, <3>2
    <3>5. n <= Whole' /\ \A i \in 1..n : IsOwn(sent[i]) /\ received'[i] = Body(i)'
      BY <1>3, <1>4, <2>2 DEF Follows, Whole, Body
    <3> QED
      BY <3>1, <3>2, <3>3, <3>4, <3>5 DEF Follows, IsOwn
  <2> QED
    BY <2>1, <2>2
<1>7. FramingTypeOK' => ReceivedOK' /\ Lost'
  BY <1>6, InStepNext DEF ReceivedOK, InStepAt, Lost
<1>8. arrived' \in Seq(Bytes)
  BY <1>0, <1>1, TakeFacts
<1>9. FramingTypeOK'
  BY <1>0, <1>1, <1>3, <1>8 DEF FramingTypeOK, Bytes
<1> QED
  BY <1>1, <1>3, <1>7, <1>9, ReaderLostInv

(* ... and as many bytes as it says are its packet, or recvMessage fails.  *)
LEMMA RecvPacketInv ==
  ASSUME FramingInv, RecvPacket
  PROVE  FramingInv'
<1>0. FramingTypeOK /\ SentOK /\ InOrder(Flight) /\ ReaderAt /\ SenderAt /\ ReceivedOK
  BY DEF FramingInv
<1>1. reader = "body" /\ Take(AskedFor) /\ UNCHANGED <<sent, left, end, wire>>
  BY DEF RecvPacket, senderVars
<1>2. AskedFor \in Nat /\ declared \in Int /\ declared <= MAX_PACKET_LENGTH
      /\ MAX_PACKET_LENGTH \in Nat
  BY <1>0, Constants DEF AskedFor, FramingTypeOK
<1>3. PICK got : got = Taken(AskedFor)
  OBVIOUS
<1>4. \/ reader' = "undefined" /\ UNCHANGED <<declared, received, result>>
      \/ Fail("RES_FAILED_RECEIVING_ALL_DATA")
      \/ /\ Accepted(Len(got))
         /\ reader' = "idle" /\ received' = Append(received, got)
         /\ result' = "RES_SUCCESS" /\ UNCHANGED declared
  BY <1>3 DEF RecvPacket
<1>5. CASE reader' = "undefined" /\ UNCHANGED <<declared, received, result>>
  <2>1. ReaderGone' /\ result \in {"RES_SUCCESS", "RES_BAD_MESSAGE_FORMAT",
                           "RES_PACKET_TOO_LONG", "RES_FAILED_RECEIVING_ALL_DATA"}
    BY <1>0, <1>5 DEF ReaderGone, FramingTypeOK
  <2> QED
    BY <1>1, <1>2, <1>5, <2>1, ReaderEndsInv
<1>6. CASE Fail("RES_FAILED_RECEIVING_ALL_DATA")
  <2>1. ReaderGone' /\ reader' = "closed" /\ result' = "RES_FAILED_RECEIVING_ALL_DATA"
        /\ UNCHANGED <<declared, received>>
    BY <1>6 DEF ReaderGone, Fail
  <2> QED
    BY <1>1, <1>2, <2>1, ReaderEndsInv
<1>7. CASE /\ Len(got) = declared
           /\ reader' = "idle" /\ received' = Append(received, got)
           /\ result' = "RES_SUCCESS" /\ UNCHANGED declared
           /\ Misled \/ ~IsOwn(sent[Reading])
  BY <1>1, <1>2, <1>3, <1>7, AcceptedAnyway
<1>8. CASE /\ Len(got) = declared
           /\ reader' = "idle" /\ received' = Append(received, got)
           /\ result' = "RES_SUCCESS" /\ UNCHANGED declared
           /\ ~Misled /\ IsOwn(sent[Reading])
  <2>1. PICK t \in Nat :
          /\ t <= AskedFor /\ t <= Len(arrived)
          /\ got \in Seq(Bytes) /\ Len(got) = t
          /\ \A k \in 1..t : got[k] = Flight[k]
          /\ arrived' \in Seq(Bytes) /\ Flight' \in Seq(Bytes)
          /\ t + Len(Flight)' = Len(Flight)
          /\ \A k \in 1..Len(Flight)' : Flight'[k] = Flight[k + t]
    BY <1>0, <1>1, <1>2, <1>3, TakeFacts
  <2>2. /\ declared = sent[Reading].length /\ Written(<<Reading, HeaderLen>>)
        /\ Flight # <<>> => Flight[1] = Succ(<<Reading, HeaderLen>>)
    BY <1>0, <1>1, <1>8 DEF ReaderAt, Lost, ReaderGone, Expected
  <2>3. Reading \in 1..Len(sent) /\ Reading \in Nat /\ Len(sent) \in Nat
    BY <1>0, <2>2, SentType, FlightType DEF Written
  <2>4. /\ IsOwn(sent[Reading]) /\ declared = sent[Reading].size
        /\ declared \in 1..MAX_PACKET_LENGTH
    BY <1>0, <1>8, <2>2, <2>3 DEF SentOK, IsOwn
  <2>5. /\ t = sent[Reading].size /\ t > 0
        /\ Size(Reading) = HeaderLen + t /\ HeaderLen \in Nat /\ HeaderLen > 0
    <3>1. t = declared
      BY <1>8, <2>1
    <3>2. t = sent[Reading].size
      BY <2>4, <3>1
    <3>3. t > 0
      BY <1>2, <2>4, <3>1
    <3> QED
      BY <3>2, <3>3, Constants DEF Size
  <2>6. /\ Len(Flight) \in Nat /\ Len(Flight') \in Nat /\ t <= Len(Flight)
        /\ Flight # <<>>
    <3>1. Len(Flight) \in Nat /\ Len(Flight') \in Nat
      BY <1>0, <2>1, FlightType
    <3>2. t <= Len(Flight)
      BY <2>1, <3>1
    <3>3. Len(Flight) > 0
      BY <2>5, <3>1, <3>2
    <3> QED
      BY <3>1, <3>2, <3>3
  <2>7. Flight[1] = <<Reading, HeaderLen + 1>>
    <3>1. PICK b : b = <<Reading, HeaderLen>>
      OBVIOUS
    <3>2. b[1] = Reading /\ b[2] = HeaderLen /\ HeaderLen < Size(Reading)
      BY <2>5, <3>1
    <3>3. Succ(b) = <<Reading, HeaderLen + 1>>
      BY <3>2 DEF Succ
    <3> QED
      BY <2>2, <2>6, <3>1, <3>3
  <2>8. \A k \in 1..t : Flight[k] = <<Reading, HeaderLen + k>>
    <3>1. SUFFICES ASSUME NEW k \in 1..t
                   PROVE  Flight[k] = <<Reading, HeaderLen + k>>
      OBVIOUS
    <3>2. PICK n, s \in Nat : n = Reading /\ s = HeaderLen + 1
      BY <2>3, <2>5
    <3>3. k \in 1..Len(Flight) /\ (s + k) - 1 = HeaderLen + k /\ (s + k) - 1 <= Size(n)
      BY <2>5, <2>6, <3>2
    <3>4. Flight[k] = <<n, (s + k) - 1>>
      BY <1>0, <2>6, <2>7, <3>2, <3>3, FirstBytes
    <3> QED
      BY <3>2, <3>3, <3>4
  <2>9. got = Body(Reading)
    <3>1. PICK h : h = Body(Reading)
      OBVIOUS
    <3>2. \A k \in 1..t : h[k] = <<Reading, HeaderLen + k>> /\ got[k] = <<Reading, HeaderLen + k>>
      BY <2>1, <2>5, <2>8, <3>1 DEF Body
    <3>3. h \in Seq(Bytes) /\ Len(h) = t
      <4>1. \A k \in 1..t : got[k] \in Bytes
        BY <2>1, ElementOfSeq
      <4>2. \A k \in 1..t : <<Reading, HeaderLen + k>> \in Bytes
        BY <3>2, <4>1
      <4>3. h = [k \in 1..t |-> <<Reading, HeaderLen + k>>]
        BY <2>5, <3>1 DEF Body
      <4> QED
        BY <2>1, <4>2, <4>3
    <3>4. got = h
      BY <2>1, <3>2, <3>3, SeqEqual
    <3> QED
      BY <3>1, <3>4
  <2>10. /\ received \in Seq(Seq(Bytes)) /\ received' \in Seq(Seq(Bytes))
         /\ Len(received) \in Nat
         /\ Len(received') = Len(received) + 1 /\ received'[Reading] = got
         /\ \A i \in 1..Len(received) : received'[i] = received[i]
    <3>1. received \in Seq(Seq(Bytes))
      BY <1>0 DEF FramingTypeOK, Bytes
    <3> QED
      BY <1>8, <2>1, <3>1, AppendProperties DEF Reading
  <2>11. FramingTypeOK'
    BY <1>0, <1>1, <1>8, <2>1, <2>10 DEF FramingTypeOK, Bytes
  <2>12. PICK b : b = Flight[t]
    OBVIOUS
  <2>13. Written(b) /\ b = <<Reading, Size(Reading)>>
    <3>1. t \in 1..t /\ t \in 1..Len(Flight)
      BY <2>5, <2>6
    <3> QED
      BY <1>0, <2>5, <2>8, <2>12, <3>1 DEF InOrder
  <2>14. Reading <= Whole /\ Whole \in Int
    <3>1. left \in Nat
      BY <1>0, LeftType
    <3>2. ASSUME Reading = Len(sent)
          PROVE  left = 0
      <4>1. Size(Len(sent)) <= Done /\ Size(Len(sent)) \in Nat
        BY <2>5, <2>13, <3>2 DEF Written
      <4>2. Done = Size(Len(sent)) - left
        BY DEF Done
      <4> QED
        BY <3>1, <4>1, <4>2
    <3> QED
      BY <2>3, <3>1, <3>2 DEF Whole
  <2>15. ReceivedOK'
    <3>0. PICK n \in Nat : Follows(n)
      BY <1>0 DEF ReceivedOK
    <3>1. Whole' = Whole /\ Len(received') = Reading /\ n = Len(received)
      BY <1>0, <1>1, <1>8, <2>10, <3>0, InStepIs DEF Whole, Reading, InStepAt
    <3>2. ASSUME NEW i \in DOMAIN received'
          PROVE  IsOwn(sent'[i]) /\ received'[i] = Body(i)'
      <4>1. i \in 1..(Len(received) + 1) /\ DOMAIN received = 1..Len(received)
        BY <2>10, <3>2, LenProperties
      <4>2. CASE i \in 1..Len(received)
        BY <1>1, <2>10, <3>0, <3>1, <4>1, <4>2 DEF Follows, Body
      <4>3. CASE i = Reading
        BY <1>1, <2>4, <2>9, <2>10, <4>3 DEF Body
      <4> QED
        BY <2>10, <4>1, <4>2, <4>3 DEF Reading
    <3>3. PICK m \in Nat : m = Reading
      BY <2>3
    <3>4. DOMAIN received' = 1..m /\ Len(received') = m
      BY <2>10, <3>1, <3>3, LenProperties
    <3>5. m \in 0..Len(received') /\ m <= Whole' /\ m = Len(received')
      BY <2>14, <3>1, <3>3, <3>4
    <3>6. Follows(m)'
      BY <3>2, <3>4, <3>5 DEF Follows
    <3> QED
      BY <3>6 DEF ReceivedOK
  <2>16. Succ(b) = <<Reading + 1, 1>>
    BY <2>3, <2>5, <2>13 DEF Succ
  <2>17. Expected' = Succ(Flight[t]) /\ reader' # "body"
    <3>1. Reading' = Reading + 1
      BY <2>10 DEF Reading
    <3> QED
      BY <1>8, <2>12, <2>16, <3>1 DEF Expected
  <2>18. /\ SentOK' /\ InOrder(Flight)' /\ SenderAt'
         /\ Flight' # <<>> => Flight'[1] = Expected'
    BY <1>1, <2>1, <2>5, <2>6, <2>17, ReaderGoesOn
  <2>19. ReaderAt'
    BY <2>17, <2>18 DEF ReaderAt
  <2> QED
    BY <2>11, <2>15, <2>18, <2>19 DEF FramingInv
<1> QED
  BY <1>4, <1>5, <1>6, <1>8, <1>7 DEF Accepted

-----------------------------------------------------------------------------
LEMMA FramingInitInv ==
  ASSUME FramingInit
  PROVE  FramingInv
<1>1. /\ sent = <<>> /\ left = 0 /\ end = "open" /\ wire = <<>> /\ arrived = <<>>
      /\ reader = "idle" /\ declared = 0 /\ received = <<>> /\ result = "RES_SUCCESS"
  BY DEF FramingInit
<1>2. FramingTypeOK
  BY <1>1, Constants DEF FramingTypeOK
<1>3. Flight = <<>> /\ Len(Flight) = 0
  BY <1>1, ConcatEmptySeq, EmptySeq DEF Flight
<1>4. SentOK
  BY <1>1 DEF SentOK
<1>5. InOrder(Flight)
  BY <1>3, EmptySeq DEF InOrder
<1>6. ReaderAt /\ SenderAt
  BY <1>1, <1>3 DEF ReaderAt, SenderAt, Expected, NextSent, Reading
<1>7. ReceivedOK
  <2>1. Follows(0)
    BY <1>1, EmptySeq DEF Follows, Whole
  <2> QED
    BY <2>1 DEF ReceivedOK
<1> QED
  BY <1>2, <1>4, <1>5, <1>6, <1>7 DEF FramingInv

LEMMA FramingNextInv ==
  ASSUME FramingInv, [FramingNext]_framingVars
  PROVE  FramingInv'
<1>1. CASE \E size \in PacketSize : SendMessage(size)
  <2>1. PICK size \in PacketSize : SendMessage(size)
    BY <1>1
  <2>2. PICK m : m = [length |-> size, size |-> size]
    OBVIOUS
  <2>3. m \in Own /\ m.length = m.size /\ m.size = size
        /\ size \in 1..MAX_PACKET_LENGTH /\ Begin(m)
    BY <2>1, <2>2, SizeAssumption, Constants DEF Own, SendMessage
  <2>4. m \notin Foreign
    BY <2>3, ForeignAssumption, Constants
  <2> QED
    BY <2>3, <2>4, BeginInv DEF IsOwn
<1>2. CASE \E m \in Foreign : Begin(m)
  BY <1>2, BeginInv
<1>3. CASE SenderCloses \/ SendFails
  BY <1>3, SenderEndsInv
<1>4. CASE SendSome
  BY <1>4, SendSomeInv
<1>5. CASE Arrive
  BY <1>5, ArriveInv
<1>6. CASE RecvMessage
  BY <1>6, RecvMessageInv
<1>7. CASE RecvHeader
  BY <1>7, RecvHeaderInv
<1>8. CASE RecvPacket
  BY <1>8, RecvPacketInv
<1>9. CASE UNCHANGED framingVars
  <2>1. UNCHANGED <<sent, left, end, wire, arrived, reader, declared, received, result>>
    BY <1>9 DEF framingVars, senderVars, readerVars
  <2> QED
    BY ZenonT(60), <2>1
    DEF FramingInv, FramingTypeOK, SentOK, InOrder, ReaderAt, SenderAt,
       ReceivedOK, Flight, Expected, NextSent, Reading, Done, Size, Written,
       Succ, Later, Body, Whole, ReaderGone, Lost, Misled, ForeignWithin, Follows
<1> QED
  BY <1>1, <1>2, <1>3, <1>4, <1>5, <1>6, <1>7, <1>8, <1>9
     DEF FramingNext, SenderStep, ReaderStep, StreamOver

(* Every value of the variables is one the code can hold: in particular    *)
(* what recvMessage hands to recv as a size is at most MAX_PACKET_LENGTH.  *)
THEOREM FramingTypeCorrect == FramingSpec => []FramingTypeOK
<1>1. FramingInv => FramingTypeOK
  BY DEF FramingInv
<1> QED
  BY <1>1, FramingInitInv, FramingNextInv, PTL DEF FramingSpec

(* What recvMessage returns are the packets sendMessage was given, byte    *)
(* for byte and in order, whatever the pieces in which ::send takes and    *)
(* ::recv returns the bytes and wherever the stream is cut off, up to the  *)
(* first frame of another program that is accepted; and a frame is only    *)
(* accepted for one when its length field is within the limits.            *)
THEOREM PacketsSurviveTheStream == FramingSpec => []ReceivedIsSent
<1>1. FramingInv => ReceivedIsSent
  <2>1. SUFFICES ASSUME FramingInv, NEW i \in DOMAIN received, ~ForeignWithin(i - 1)
                 PROVE  /\ i \in DOMAIN sent
                        /\ IF IsOwn(sent[i]) THEN i <= Whole /\ received[i] = Body(i)
                           ELSE sent[i].length \in 0..MAX_PACKET_LENGTH
    BY DEF ReceivedIsSent
  <2>2. FramingTypeOK /\ ReceivedOK
    BY <2>1 DEF FramingInv
  <2>3. PICK n \in Nat : Follows(n)
    BY <2>2 DEF ReceivedOK
  <2>4. InStepAt(n)
    BY <2>2, <2>3, InStepIs
  <2>5. /\ Len(sent) \in Nat /\ Len(received) \in Nat /\ i \in 1..Len(received)
        /\ DOMAIN sent = 1..Len(sent)
    <3>1. Len(sent) \in Nat /\ Len(received) \in Nat
      BY <2>2, SentType, FlightType
    <3>2. DOMAIN sent = 1..Len(sent) /\ DOMAIN received = 1..Len(received)
      BY <2>2, LenProperties DEF FramingTypeOK
    <3> QED
      BY <3>1, <3>2
  <2>6. CASE i <= n
    <3>1. i \in 1..n
      BY <2>5, <2>6
    <3>2. IsOwn(sent[i]) /\ received[i] = Body(i)
      BY <2>3, <3>1 DEF Follows
    <3>3. i <= Whole /\ i \in 1..Len(sent)
      BY <2>4, <2>5, <3>1 DEF InStepAt
    <3> QED
      BY <2>5, <3>2, <3>3
  <2>7. CASE ~(i <= n)
    <3>1. /\ n + 1 \in 1..Len(sent) /\ ~IsOwn(sent[n + 1])
          /\ sent[n + 1].length \in 0..MAX_PACKET_LENGTH
      BY <2>3, <2>5, <2>7 DEF Follows
    <3>2. n + 1 \notin 1..(i - 1)
      BY <2>1, <2>5, <3>1 DEF ForeignWithin
    <3>3. i = n + 1
      BY <2>5, <2>7, <3>2
    <3> QED
      BY <2>5, <3>1, <3>3
  <2> QED
    BY <2>6, <2>7
<1> QED
  BY <1>1, FramingInitInv, FramingNextInv, PTL DEF FramingSpec

-----------------------------------------------------------------------------
(* A message too long for the reader is none of our sender's or comes      *)
(* after one that is not, and the reader stays with it: the connection is  *)
(* closed.                                                                 *)
TooLong == result = "RES_PACKET_TOO_LONG" => ReaderGone /\ ForeignWithin(Reading)

LEMMA TooLongNext ==
  ASSUME FramingInv, FramingInv', TooLong, [FramingNext]_framingVars
  PROVE  TooLong'
<1>0. FramingTypeOK /\ FramingTypeOK' /\ SentOK /\ left \in Nat /\ left' \in Nat
  BY DEF FramingInv, FramingTypeOK
<1>1. ASSUME Begun \/ WritesOn, UNCHANGED <<reader, received, result>>
      PROVE  TooLong'
  <2>1. SUFFICES ASSUME result = "RES_PACKET_TOO_LONG"
                 PROVE  ReaderGone' /\ ForeignWithin(Reading)'
    BY <1>1 DEF TooLong
  <2>2. ReaderGone /\ ForeignWithin(Reading) /\ Reading' = Reading
    BY <1>1, <2>1 DEF TooLong, Reading
  <2>3. PICK i \in 1..Reading : i \in DOMAIN sent /\ ~IsOwn(sent[i])
    BY <2>2 DEF ForeignWithin
  <2>4. i \in 1..Len(sent) /\ DOMAIN sent' = 1..Len(sent')
    BY <1>0, <2>3, LenProperties DEF FramingTypeOK
  <2>5. i \in 1..Len(sent') /\ sent'[i] = sent[i]
    <3>1. /\ Len(sent) \in Nat /\ Len(sent') \in Nat /\ Len(sent') >= Len(sent)
          /\ \A j \in 1..Len(sent) : sent'[j] = sent[j]
      BY <1>0, <1>1, SentStays, SentType
    <3> QED
      BY <2>4, <3>1
  <2> QED
    BY <1>1, <2>2, <2>3, <2>4, <2>5 DEF ReaderGone, ForeignWithin, IsOwn
<1>2. CASE \E m \in Own \union Foreign : Begin(m)
  BY <1>1, <1>2 DEF Begin, Begun, readerVars
<1>3. CASE SendSome \/ SendFails \/ SenderCloses \/ Arrive \/ UNCHANGED framingVars
  <2>1. UNCHANGED <<sent, reader, received, result>> /\ left' <= left
    BY <1>0, <1>3 DEF SendSome, SendFails, SenderCloses, Arrive, framingVars,
       senderVars, readerVars
  <2> QED
    BY <1>0, <1>1, <2>1 DEF WritesOn
<1>4. CASE RecvMessage \/ RecvPacket
  <2>1. result' # "RES_PACKET_TOO_LONG"
    <3>1. ~ReaderGone
      BY <1>4 DEF RecvMessage, RecvPacket, ReaderGone
    <3>2. result # "RES_PACKET_TOO_LONG"
      BY <3>1 DEF TooLong
    <3> QED
      BY <1>4, <3>2 DEF RecvMessage, RecvPacket, Fail
  <2> QED
    BY <2>1 DEF TooLong
<1>5. CASE RecvHeader
  <2>1. PICK got : got = Taken(HeaderLen)
    OBVIOUS
  <2>2. CASE \E length \in Declared(got) :
               /\ Len(got) = HeaderLen
               /\ length > MAX_PACKET_LENGTH /\ Fail("RES_PACKET_TOO_LONG")
    <3>1. PICK length \in Declared(got) : length > MAX_PACKET_LENGTH
      BY <2>2
    <3>2. /\ DOMAIN sent = 1..Len(sent) /\ Len(received) \in Nat
          /\ Reading = Len(received) + 1
      BY <1>0, FlightType, LenProperties DEF FramingTypeOK, Reading
    <3>3. ForeignWithin(Reading)
      <4>1. CASE Misled
        <5>1. PICK i \in 1..Len(received) : i \in DOMAIN sent /\ ~IsOwn(sent[i])
          BY <4>1 DEF Misled, ForeignWithin
        <5>2. i \in 1..Reading
          BY <3>2
        <5> QED
          BY <5>1, <5>2 DEF ForeignWithin
      <4>2. CASE ~Misled
        <5>1. Reading \in 1..Len(sent) /\ length = sent[Reading].length
          BY <1>5, <2>1, <2>2, <3>1, <4>2, HeaderRead
        <5>2. ~IsOwn(sent[Reading])
          BY <1>0, <3>1, <5>1, Constants DEF SentOK, IsOwn
        <5>3. Reading \in 1..Reading
          BY <3>2
        <5> QED
          BY <3>2, <5>1, <5>2, <5>3 DEF ForeignWithin
      <4> QED
        BY <4>1, <4>2
    <3>4. ReaderGone' /\ Reading' = Reading /\ sent' = sent
      BY <1>5, <2>2 DEF RecvHeader, Fail, ReaderGone, Reading, senderVars
    <3> QED
      BY <3>3, <3>4 DEF TooLong, ForeignWithin, IsOwn
  <2>3. CASE result' # "RES_PACKET_TOO_LONG"
    BY <2>3 DEF TooLong
  <2>4. result # "RES_PACKET_TOO_LONG"
    BY <1>5 DEF RecvHeader, TooLong, ReaderGone
  <2> QED
    BY <1>5, <2>1, <2>2, <2>3, <2>4 DEF RecvHeader, Fail
<1>6. CASE \E size \in PacketSize : SendMessage(size)
  <2>1. PICK size \in PacketSize : SendMessage(size)
    BY <1>6
  <2>2. PICK m : m = [length |-> size, size |-> size]
    OBVIOUS
  <2>3. m \in Own /\ Begin(m)
    BY <2>1, <2>2 DEF SendMessage, Own
  <2> QED
    BY <1>2, <2>3
<1> QED
  BY <1>2, <1>3, <1>4, <1>5, <1>6 DEF FramingNext, SenderStep, ReaderStep, StreamOver

(* sendMessage and recvMessage agree on the longest packet: a packet that  *)
(* was sent is never refused for its length.                               *)
THEOREM SentPacketsFit == FramingSpec => []OwnMessagesFit
<1>1. FramingInit => TooLong
  BY DEF FramingInit, TooLong
<1>2. TooLong => OwnMessagesFit
  BY DEF TooLong, OwnMessagesFit, Reading
<1> QED
  BY <1>1, <1>2, FramingInitInv, FramingNextInv, TooLongNext, PTL DEF FramingSpec

-----------------------------------------------------------------------------
(* The queue of whole messages.                                            *)
LEMMA QueueStaysOrGrows ==
  ASSUME FramingInv, FramingTypeOK', Begun \/ WritesOn, left' \in Nat,
         left' > 0 \/ WritesOn, UNCHANGED <<received, reader>>
  PROVE  [Queue!Next]_(Queue!queueVars)
<1>0. FramingTypeOK /\ SentOK /\ ReceivedOK
  BY DEF FramingInv
<1>1. /\ sent \in Seq(Own \union Foreign) /\ Len(sent) \in Nat /\ left \in Nat
      /\ Len(received) \in Nat
  BY <1>0, FlightType DEF FramingTypeOK
<1>2. /\ Len(sent') \in Nat /\ Len(sent') >= Len(sent)
      /\ Begun => Len(sent') = Len(sent) + 1
      /\ \A i \in 1..Len(sent) : sent'[i] = sent[i]
  BY <1>0, SentStays
<1>3. PICK n \in Nat : Follows(n)
  BY <1>0 DEF ReceivedOK
<1>4. PICK w : w = Whole
  OBVIOUS
<1>5. w \in Nat /\ n <= w /\ w <= Len(sent) /\ InStep = n
  <2>1. InStepAt(n)
    BY <1>0, <1>3, InStepIs
  <2> QED
    BY <1>1, <1>4, <2>1 DEF InStepAt, Whole
<1>6. InStep' = InStep /\ (Misled' <=> Misled)
  BY <1>0, ReceivedStays
<1>7. sent' \in Seq(Own \union Foreign)
  <2>1. CASE Begun
    BY <1>1, <2>1, AppendProperties DEF Begun
  <2>2. CASE WritesOn
    BY <1>1, <2>2 DEF WritesOn
  <2> QED
    BY <2>1, <2>2
<1>8. (ReaderGone <=> ReaderGone')
  BY DEF ReaderGone
<1>9. SubSeq(sent', 1, n) = SubSeq(sent, 1, n)
  BY <1>1, <1>2, <1>5, <1>7, SamePart
<1>10. CASE Whole' = w
  <2>1. SubSeq(sent', n + 1, w) = SubSeq(sent, n + 1, w)
    BY <1>1, <1>2, <1>5, <1>7, SamePart
  <2> QED
    BY <1>5, <1>8, <1>9, <1>10, <1>4, <1>6, <2>1 DEF Queue!queueVars
<1>11. CASE Whole' # w
  <2>1. WritesOn /\ sent' = sent /\ Whole' = w + 1 /\ w < Len(sent)
    <3>1. CASE Begun
      <4>1. left = 0 /\ Len(sent') = Len(sent) + 1
        BY <1>2, <3>1 DEF Begun
      <4>2. left' > 0
        <5>1. ~WritesOn
          BY <1>1, <4>1 DEF WritesOn
        <5> QED
          BY <5>1
      <4>3. Whole' = w
        BY <1>1, <1>4, <4>1, <4>2 DEF Whole
      <4> QED
        BY <1>11, <4>3
    <3>2. CASE WritesOn
      BY <1>1, <1>11, <1>4, <3>2 DEF WritesOn, Whole
    <3> QED
      BY <3>1, <3>2
  <2>2. SubSeq(sent, n + 1, w + 1) = Append(SubSeq(sent, n + 1, w), sent[w + 1])
    BY <1>1, <1>5, <2>1, PartGrows
  <2>3. sent[w + 1] \in Own \union Foreign
    <3>1. w + 1 \in 1..Len(sent)
      BY <1>1, <1>5, <2>1
    <3> QED
      BY <1>1, <3>1, ElementOfSeq
  <2>4. Queue!Put
    BY <1>5, <1>8, <1>9, <1>4, <1>6, <2>1, <2>2, <2>3 DEF Queue!Put
  <2> QED
    BY <2>4 DEF Queue!Next
<1> QED
  BY <1>10, <1>11

(* The steps of the reader.                                                *)
LEMMA QueueStaysOrShrinks ==
  ASSUME FramingInv, FramingInv', UNCHANGED <<sent, left>>,
         ReaderGone => reader' = reader,
         \/ received' = received
         \/ ~ReaderGone /\ ~ReaderGone' /\ \E got : received' = Append(received, got)
  PROVE  [Queue!Next]_(Queue!queueVars)
<1>0. FramingTypeOK /\ FramingTypeOK' /\ SentOK /\ ReceivedOK /\ ReceivedOK'
  BY DEF FramingInv
<1>1. /\ sent \in Seq(Own \union Foreign) /\ Len(sent) \in Nat /\ left \in Nat
      /\ Len(received) \in Nat /\ WritesOn
  BY <1>0, FlightType DEF FramingTypeOK, WritesOn
<1>2. PICK n \in Nat : Follows(n)
  BY <1>0 DEF ReceivedOK
<1>3. PICK w : w = Whole
  OBVIOUS
<1>4. Whole' = w /\ sent' = sent
  BY <1>3 DEF Whole
<1>5. InStepAt(n) /\ w \in Nat /\ n <= w /\ w <= Len(sent)
  <2>1. InStepAt(n)
    BY <1>0, <1>2, InStepIs
  <2> QED
    BY <1>1, <1>3, <2>1 DEF InStepAt, Whole
<1>6. ASSUME InStep' = n
      PROVE  \/ [Queue!Next]_(Queue!queueVars)
             \/ (ReaderGone \/ Misled) /\ ~(ReaderGone' \/ Misled')
  <2>1. CASE (ReaderGone \/ Misled) <=> (ReaderGone' \/ Misled')
    BY <1>3, <1>4, <1>5, <1>6, <2>1 DEF Queue!queueVars, InStepAt
  <2>2. CASE ~(ReaderGone \/ Misled) /\ (ReaderGone' \/ Misled')
    <3>1. Queue!GiveUp
      BY <1>3, <1>4, <1>5, <1>6, <2>2 DEF Queue!GiveUp, InStepAt
    <3> QED
      BY <3>1 DEF Queue!Next
  <2> QED
    BY <2>1, <2>2
<1>7. CASE received' = received
  <2>1. InStep' = n /\ (Misled' <=> Misled)
    BY <1>0, <1>1, <1>5, <1>7, ReceivedStays DEF InStepAt
  <2>2. ReaderGone => ReaderGone'
    BY DEF ReaderGone
  <2> QED
    BY <1>6, <2>1, <2>2
<1>8. CASE ~ReaderGone /\ ~ReaderGone' /\ \E got : received' = Append(received, got)
  <2>1. PICK got : received' = Append(received, got)
    BY <1>8
  <2>2. /\ Len(received') \in Nat /\ Len(received') = Len(received) + 1
        /\ \A i \in 1..Len(received) : received'[i] = received[i]
    BY <1>0, <2>1 DEF FramingTypeOK
  <2>3. PICK m \in Nat : Follows(m)'
    BY <1>0 DEF ReceivedOK
  <2>4. InStepAt(m)'
    BY <1>0, <2>3, InStepNext
  <2>5. CASE Misled
    <3>1. n # Len(received) /\ left' \in Nat
      BY <1>1, <1>5, <2>5 DEF InStepAt
    <3>2. Follows(n)'
      BY <1>0, <1>1, <1>2, <2>2, <3>1, FollowsStays
    <3>3. InStepAt(n)' /\ n # Len(received')
      BY <1>0, <1>2, <2>2, <3>2, InStepNext DEF Follows
    <3> QED
      BY <1>6, <1>8, <2>5, <3>3 DEF InStepAt
  <2>6. CASE ~Misled /\ Misled'
    <3>1. n = Len(received) /\ m # Len(received')
      BY <1>5, <2>4, <2>6 DEF InStepAt
    <3>2. m + 1 \in 1..(n + 1) /\ ~IsOwn(sent[m + 1])
      BY <1>4, <2>2, <2>3, <3>1 DEF Follows, IsOwn
    <3>3. m + 1 \notin 1..n
      BY <1>2, <3>2 DEF Follows
    <3>4. m = n
      BY <3>2, <3>3
    <3> QED
      BY <1>6, <1>8, <2>4, <2>6, <3>4 DEF InStepAt
  <2>7. CASE ~Misled /\ ~Misled'
    <3>1. n = Len(received) /\ m = n + 1
      BY <1>5, <2>2, <2>4, <2>7 DEF InStepAt
    <3>2. InStep = n /\ InStep' = n + 1 /\ n + 1 <= w
      BY <1>4, <1>5, <2>4, <3>1 DEF InStepAt
    <3>3. sent[n + 1] \in Own \ Foreign
      <4>1. n + 1 \in 1..Len(sent) /\ n + 1 \in 1..m
        BY <1>1, <1>5, <3>1, <3>2
      <4>2. sent[n + 1] \in Own \union Foreign
        BY <1>1, <4>1, ElementOfSeq
      <4>3. IsOwn(sent[n + 1])
        BY <1>4, <2>3, <4>1 DEF Follows, IsOwn
      <4> QED
        BY <4>2, <4>3 DEF IsOwn
    <3>4. /\ SubSeq(sent, n + 1, w) # <<>> /\ Head(SubSeq(sent, n + 1, w)) = sent[n + 1]
          /\ Tail(SubSeq(sent, n + 1, w)) = SubSeq(sent, (n + 1) + 1, w)
      BY <1>1, <1>5, <3>2, PartShrinks
    <3>5. SubSeq(sent, 1, n + 1) = Append(SubSeq(sent, 1, n), sent[n + 1])
      BY <1>1, <1>5, <3>2, PartGrows
    <3>6. Queue!Take
      BY <1>3, <1>4, <1>8, <2>7, <3>2, <3>3, <3>4, <3>5 DEF Queue!Take
    <3> QED
      BY <3>6 DEF Queue!Next
  <2> QED
    BY <2>5, <2>6, <2>7
<1> QED
  BY <1>7, <1>8

LEMMA QueueNext ==
  ASSUME FramingInv, FramingInv', [FramingNext]_framingVars
  PROVE  [Queue!Next]_(Queue!queueVars)
<1>0. FramingTypeOK /\ FramingTypeOK' /\ left \in Nat /\ left' \in Nat
  BY DEF FramingInv, FramingTypeOK
<1>1. ASSUME NEW m \in Own \union Foreign, Begin(m)
      PROVE  [Queue!Next]_(Queue!queueVars)
  <2>1. Begun /\ left' > 0 /\ UNCHANGED <<received, reader>>
    BY <1>1, MessageType, Constants DEF Begin, Begun, readerVars
  <2> QED
    BY <1>0, <2>1, QueueStaysOrGrows
<1>2. CASE \E size \in PacketSize : SendMessage(size)
  <2>1. PICK size \in PacketSize : SendMessage(size)
    BY <1>2
  <2>2. PICK m : m = [length |-> size, size |-> size]
    OBVIOUS
  <2>3. m \in Own /\ Begin(m)
    BY <2>1, <2>2 DEF SendMessage, Own
  <2> QED
    BY <1>1, <2>3
<1>3. CASE \E m \in Foreign : Begin(m)
  BY <1>1, <1>3
<1>4. CASE SendSome \/ SendFails \/ SenderCloses \/ Arrive
  <2>1. UNCHANGED <<sent, received, reader>> /\ left' <= left
    BY <1>0, <1>4 DEF SendSome, SendFails, SenderCloses, Arrive, senderVars, readerVars
  <2> QED
    BY <1>0, <2>1, QueueStaysOrGrows DEF WritesOn
<1>5. CASE ReaderStep
  <2>1. /\ UNCHANGED <<sent, left>> /\ ~ReaderGone
        /\ \/ received' = received
           \/ ~ReaderGone' /\ \E got : received' = Append(received, got)
    BY <1>5 DEF ReaderStep, RecvMessage, RecvHeader, RecvPacket, Fail, ReaderGone, senderVars
  <2> QED
    BY <2>1, QueueStaysOrShrinks
<1>6. CASE UNCHANGED framingVars
  <2>1. UNCHANGED <<sent, left, received, reader>>
    BY <1>6 DEF framingVars, senderVars, readerVars
  <2> QED
    BY <2>1, QueueStaysOrShrinks
<1> QED
  BY <1>2, <1>3, <1>4, <1>5, <1>6 DEF FramingNext, SenderStep, StreamOver

(* The bytes implement a queue of whole messages: every step of the two    *)
(* programs and the network puts a message, takes the oldest one, gives    *)
(* the connection up or changes nothing of the queue.                      *)
THEOREM StreamImplementsQueue == FramingSpec => QueueSpec
<1>1. FramingInit => Queue!Init
  <2>1. SUFFICES ASSUME FramingInit
                 PROVE  Queue!Init
    OBVIOUS
  <2>2. /\ Len(sent) = 0 /\ Len(received) = 0 /\ Whole = 0
        /\ ~ReaderGone /\ ~Misled /\ InStep = 0
    <3>1. Len(sent) = 0 /\ Len(received) = 0 /\ ~ReaderGone /\ Whole = 0
      BY <2>1, EmptySeq DEF FramingInit, Whole, ReaderGone
    <3>2. ~Misled
      BY <3>1 DEF Misled, ForeignWithin
    <3> QED
      BY <3>1, <3>2 DEF InStep
  <2>3. SubSeq(sent, 0 + 1, 0) = <<>> /\ SubSeq(sent, 1, 0) = <<>>
    BY SubSeqEmpty
  <2> QED
    BY <2>2, <2>3 DEF Queue!Init
<1> QED
  BY <1>1, FramingInitInv, FramingNextInv, QueueNext, PTL
     DEF FramingSpec, QueueSpec, Queue!Spec
-----------------------------------------------------------------------------
(* recvMessage never blocks inside a message, when it has met none of      *)
(* another program, for bytes nobody will send: if nothing were under way  *)
(* and nothing left to write, the byte the reader is at would be the first *)
(* of a message not begun.                                                 *)
LEMMA BodyHasMore ==
  ASSUME FramingInv, reader = "body", ~RecvReturns, ~ForeignWithin(Reading)
  PROVE  wire # <<>> \/ left > 0
<1> SUFFICES ASSUME wire = <<>>, ~(left > 0)
             PROVE  FALSE
  OBVIOUS
<1>0. FramingTypeOK /\ SentOK /\ ReaderAt /\ SenderAt /\ ~Lost
  <2>1. Len(received) \in Nat /\ FramingTypeOK
    BY FlightType DEF FramingInv
  <2>2. \A i \in 1..Len(received) : i \in 1..Reading
    BY <2>1 DEF Reading
  <2>3. ~Misled
    BY <2>2 DEF Misled, ForeignWithin
  <2> QED
    BY <2>3 DEF FramingInv, Lost, ReaderGone
<1>1. arrived = <<>> /\ end = "open"
  BY DEF RecvReturns
<1>2. Flight = <<>>
  BY <1>1 DEF Flight
<1>3. Expected = <<Len(sent) + 1, 1>>
  BY <1>0, <1>1, <1>2 DEF SenderAt, NextSent
<1>4. Written(<<Reading, HeaderLen>>) /\ Reading \in 1..Len(sent)
  BY <1>0 DEF ReaderAt, Written
<1>5. sent[Reading].size \in 1..MAX_PACKET_LENGTH
  <2>1. Reading \in DOMAIN sent /\ Reading \in 1..Reading
    BY <1>0, <1>4, LenProperties DEF FramingTypeOK
  <2> QED
    BY <1>0, <1>4, <2>1 DEF SentOK, IsOwn, ForeignWithin
<1>6. Expected = <<Reading, HeaderLen + 1>>
  BY <1>5, Constants DEF Expected, Succ, Size
<1> QED
  BY <1>3, <1>6, Constants

THEOREM ReaderNeverStuck == FramingSpec => []NoEndlessRead
<1>1. FramingInv => NoEndlessRead
  BY BodyHasMore DEF NoEndlessRead, Reading
<1> QED
  BY <1>1, FramingInitInv, FramingNextInv, PTL DEF FramingSpec
=============================================================================
