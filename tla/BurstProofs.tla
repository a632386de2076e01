---------------------------- MODULE BurstProofs ----------------------------
(***************************************************************************)
(* Theorems about the burst format and the receive loop: the cutting of a  *)
(* payload into packets, and what the loop hands to the host.              *)
(***************************************************************************)
EXTENDS BurstRx, SequenceTheorems, TLAPS

----------------------------------------------------------------------------
(* The codec.                                                              *)

(* Every length the parser lets through makes 1 to 50 packets, so that     *)
(* transmitBurst's "bad burst size" cannot happen to an accepted frame and *)
(* the 16 bits of the packet count are enough.                             *)
THEOREM PacketsFit ==
  ASSUME NEW len \in 1..kMaxTotalPayload
  PROVE  SizeOk(len) /\ PacketCount(len) \in 1..kMaxPackets
<1>1. (len + 494) \div 495 \in 1..50
  BY DEF kMaxTotalPayload
<1>2. PacketCount(len) = (len + 494) \div 495
  BY <1>1 DEF PacketCount, U16, kChunk, kPacketPayload, kHeaderLen
<1> QED  BY <1>1, <1>2 DEF SizeOk, kMaxPackets, kMaxTotalPayload

(* The chunks encode_packet copies tile the payload: none is empty or      *)
(* reaches behind the end, each begins where the one before ended, and the *)
(* last one ends with the payload. No packet overflows its 511 bytes.      *)
THEOREM ChunksTile ==
  ASSUME NEW len \in 1..kMaxTotalPayload, NEW idx \in 0..PacketCount(len) - 1
  PROVE  /\ ChunkLen(idx, len) \in 1..kChunk
         /\ ChunkOff(idx) + ChunkLen(idx, len)
              = IF idx + 1 < PacketCount(len) THEN ChunkOff(idx + 1) ELSE len
         /\ kHeaderLen + ChunkLen(idx, len) + Padding(idx, len) = kPacketPayload
<1> DEFINE n == (len + 494) \div 495
<1>1. n \in 1..50 /\ 495 * n <= len + 494 /\ len + 494 < 495 * n + 495
  BY DEF kMaxTotalPayload
<1>2. PacketCount(len) = n
  BY <1>1 DEF PacketCount, U16, kChunk, kPacketPayload, kHeaderLen
<1> HIDE DEF n
<1>3. idx \in 0..n - 1 /\ len \in 1..24576
  <2>1. idx \in 0..n - 1
    BY <1>1, <1>2, Zenon
  <2>2. len \in 1..24576
    BY DEF kMaxTotalPayload
  <2> QED  BY <2>1, <2>2
<1>4. CASE idx + 1 < n
  <2>1. ChunkLen(idx, len) = 495
    BY <1>1, <1>3, <1>4 DEF ChunkLen, ChunkOff, kChunk, kPacketPayload, kHeaderLen
  <2>2. Padding(idx, len) = 0
    BY <2>1 DEF Padding, kPacketPayload, kHeaderLen
  <2> QED  BY <2>1, <2>2, <1>1, <1>2, <1>3, <1>4 DEF ChunkOff, kChunk, kPacketPayload, kHeaderLen
<1>5. CASE idx + 1 = n
  <2>1. ChunkLen(idx, len) = len - 495 * idx /\ len - 495 * idx \in 1..495
    BY <1>1, <1>3, <1>5 DEF ChunkLen, ChunkOff, kChunk, kPacketPayload, kHeaderLen
  <2>2. Padding(idx, len) = 495 - (len - 495 * idx)
    BY <2>1 DEF Padding, kPacketPayload, kHeaderLen
  <2> QED  BY <2>1, <2>2, <1>1, <1>2, <1>3, <1>5 DEF ChunkOff, kChunk, kPacketPayload, kHeaderLen
<1> QED  BY <1>1, <1>3, <1>4, <1>5

(* What encode_packet writes decode_header accepts, for every packet of    *)
(* every burst, and the receive loop waits for more after each packet but  *)
(* the last.                                                               *)
THEOREM EncodedDecodes ==
  ASSUME NEW len \in 1..kMaxTotalPayload, NEW idx \in 0..PacketCount(len) - 1, NEW id, NEW crc
  PROVE  LET h == HeaderOf(id, idx, PacketCount(len), len, crc)
         IN  decode_header(h) /\ (MoreToCome(h) <=> idx # PacketCount(len) - 1)
<1>1. PacketCount(len) \in 1..50
  BY PacketsFit DEF kMaxPackets
<1> HIDE DEF PacketCount
<1> QED
  BY <1>1, SMTT(30) DEF HeaderOf, decode_header, MoreToCome, kMaxAirPacketsAlt, kMaxTotalPayload

----------------------------------------------------------------------------
(* The receive loop.  What is in the FIFO and what was read from it are    *)
(* parts of one stream of halves, ordered by Key.                          *)

Key(h) == 2 * h.pkt + h.half

(* The latest key the air has given out.                                   *)
Top == IF rx = 0 THEN 2 * Len(aired) + 2 ELSE 2 * Len(aired) + 1

AirHeader == FbHeaders \cup {NoHeader}

(* A packet that passed for one with an [FB] header.                       *)
Read2 == {p \in Seq(Half) : Len(p) = 2 /\ p[1].half = 1}

Handed ==
  /\ queue \in Seq(Read2) /\ delivered \in Seq(Read2) /\ kept \in Seq(Read2)
  /\ kept = delivered \o queue
  /\ pc = "idle" => queue = <<>>

InAir ==
  /\ aired \in Seq(AirHeader) /\ (rx # 0 => rx = Len(aired))
  /\ \A a, b \in 1..Len(fifo) : a < b => Key(fifo[a]) < Key(fifo[b])
  /\ \A a \in 1..Len(fifo) : Key(fifo[a]) <= Top

Ordered ==
  /\ \A i, j \in 1..Len(kept) : i < j => Key(kept[i][1]) < Key(kept[j][1])
  /\ \A i \in 1..Len(kept) : Key(kept[i][1]) <= Top
  /\ \A i \in 1..Len(kept), a \in 1..Len(fifo) : Key(kept[i][1]) < Key(fifo[a])

(* A first half in the FIFO is followed by its second half, or by nothing  *)
(* while that half is on the air.                                          *)
Paired ==
  ~cut => /\ \A i \in 1..Len(kept) : Whole(kept[i])
          /\ \A a \in 1..Len(fifo) :
               fifo[a].half = 1 =>
                 IF a < Len(fifo) THEN fifo[a + 1] = [pkt |-> fifo[a].pkt, half |-> 2]
                 ELSE rx # 0 /\ rx = fifo[a].pkt

(* The parts of TypeOK, each within the reach of one prover.               *)
Flags == inBurst \in BOOLEAN /\ late \in BOOLEAN /\ recheck \in BOOLEAN /\ cut \in BOOLEAN

Places ==
  /\ pc \in {"idle", "irq", "peek", "error", "fetch", "read", "after", "clear", "wait"}
  /\ irq \subseteq {"rx_done"} \cup Errors /\ mode \in {0, 1}

Sizes ==
  /\ fifo \in Seq(Half) /\ Len(fifo) <= kFifoHalves
  /\ pc = "read" => Len(fifo) >= kPacketHalves
  /\ rx \in 0..Len(aired)

RxInv == Flags /\ Places /\ Sizes /\ Handed /\ InAir /\ Ordered /\ Paired

(* Only a packet that begins with a first half has a header.               *)
LEMMA HeaderMeansFirst ==
  ASSUME NEW p, p[1] \in Half, decode_header(HeaderIn(p))
  PROVE  p[1].half = 1
<1>1. ~decode_header(NoHeader)
  BY DEF NoHeader, decode_header, HeaderOf, kMagic
<1> QED  BY <1>1 DEF HeaderIn

LEMMA KeyType == \A h \in Half : Key(h) \in Nat /\ h.half \in {1, 2} /\ h.pkt \in Nat
BY DEF Half, Key

(* What the lemmas below need of the types.                                *)
LEMMA RxFacts ==
  ASSUME RxInv
  PROVE  /\ fifo \in Seq(Half) /\ Len(fifo) \in Nat /\ Len(fifo) <= 3 /\ (pc = "read" => 2 <= Len(fifo))
         /\ \A a \in 1..Len(fifo) : Key(fifo[a]) \in Nat /\ fifo[a].half \in {1, 2} /\ fifo[a].pkt \in Nat
         /\ kept \in Seq(Read2) /\ Len(kept) \in Nat
         /\ \A i \in 1..Len(kept) : Key(kept[i][1]) \in Nat
         /\ aired \in Seq(AirHeader) /\ Len(aired) \in Nat /\ rx \in 0..Len(aired) /\ Top \in Nat
<1>1. fifo \in Seq(Half) /\ Len(fifo) <= 3 /\ (pc = "read" => Len(fifo) >= 2) /\ rx \in 0..Len(aired)
  BY DEF RxInv, Sizes, kFifoHalves, kPacketHalves
<1>2. kept \in Seq(Read2) /\ aired \in Seq(AirHeader)
  BY DEF RxInv, Handed, InAir
<1>3. Len(fifo) \in Nat /\ Len(kept) \in Nat /\ Len(aired) \in Nat
  BY <1>1, <1>2
<1>4. \A p \in Read2 : p[1] \in Half
  BY DEF Read2
<1>5. \A i \in 1..Len(kept) : Key(kept[i][1]) \in Nat
  BY <1>2, <1>4, KeyType
<1>6. \A a \in 1..Len(fifo) : Key(fifo[a]) \in Nat /\ fifo[a].half \in {1, 2} /\ fifo[a].pkt \in Nat
  BY <1>1, KeyType
<1>7. Top \in Nat
  BY <1>3 DEF Top
<1>8. Len(fifo) \in Nat /\ Len(fifo) <= 3 /\ (pc = "read" => 2 <= Len(fifo))
  BY <1>1, <1>3
<1> HIDE DEF Top, Key
<1> QED  BY <1>1, <1>2, <1>3, <1>5, <1>6, <1>7, <1>8, Zenon

(* What is left when the front packet is taken.                            *)
LEMMA Popped ==
  ASSUME NEW S, NEW s \in Seq(S), 2 <= Len(s) /\ Len(s) <= 3
  PROVE  /\ SubSeq(s, 3, Len(s)) \in Seq(S) /\ Len(SubSeq(s, 3, Len(s))) = Len(s) - 2
         /\ \A a \in 1..Len(s) - 2 : SubSeq(s, 3, Len(s))[a] = s[a + 2]
<1>0. PICK n \in {2, 3} : Len(s) = n
  <2>1. \A m \in Nat : 2 <= m /\ m <= 3 => m \in {2, 3}
    OBVIOUS
  <2>2. Len(s) \in Nat
    OBVIOUS
  <2> QED  BY <2>1, <2>2, Zenon
<1>1. CASE n = 2
  <2>1. SubSeq(s, 3, 2) = <<>>
    BY SubSeqEmpty
  <2> QED  BY <1>0, <1>1, <2>1
<1>2. CASE n = 3
  <2>1. SubSeq(s, 3, 3) \in Seq(S) /\ Len(SubSeq(s, 3, 3)) = 1 /\ SubSeq(s, 3, 3)[1] = s[3]
    <3>1. s[3] \in S
      BY <1>0, <1>2
    <3>2. \A i \in 3..3 : s[i] \in S
      BY <3>1
    <3> QED  BY <3>2, SubSeqProperties
  <2> QED  BY <1>0, <1>2, <2>1
<1> QED  BY <1>0, <1>1, <1>2

LEMMA RxInit == Init => RxInv
<1> SUFFICES ASSUME Init PROVE RxInv
  OBVIOUS
<1>1. Len(<<>>) = 0 /\ <<>> \in Seq(Read2) /\ <<>> \in Seq(Packet) /\ <<>> \in Seq(AirHeader)
      /\ <<>> \in Seq(Half) /\ <<>> \o <<>> = <<>>
  OBVIOUS
<1>2. Flags
  BY DEF Init, Flags
<1>6. Places /\ Sizes
  BY <1>1 DEF Init, Places, Sizes, kFifoHalves
<1>3. Handed
  BY <1>1 DEF Init, Handed
<1>4. InAir
  BY <1>1 DEF Init, InAir
<1>5. Ordered /\ Paired
  BY <1>1 DEF Init, Ordered, Paired
<1> QED  BY <1>2, <1>3, <1>4, <1>5, <1>6 DEF RxInv

(* What was delivered is the beginning of what was kept.                   *)
LEMMA DeliveredIsPrefix ==
  ASSUME Handed
  PROVE  /\ Len(delivered) \in Nat /\ Len(delivered) <= Len(kept)
         /\ \A i \in 1..Len(delivered) : delivered[i] = kept[i]
<1> QED  BY DEF Handed

(* Clearing the FIFO, giving a reception up and dropping the queue disturb *)
(* neither order nor pairs.                                                *)
LEMMA ClearingKeeps ==
  ASSUME RxInv, fifo' \in {fifo, <<>>}, rx' \in {0, rx}, fifo' = fifo => rx' = rx \/ fifo = <<>>,
         kept' \in {kept, delivered}, UNCHANGED <<aired, cut>>
  PROVE  InAir' /\ Ordered' /\ Paired'
<1>1. Len(delivered) \in Nat /\ Len(delivered) <= Len(kept) /\ Len(kept) \in Nat
      /\ \A i \in 1..Len(delivered) : delivered[i] = kept[i]
  BY DeliveredIsPrefix DEF RxInv, Handed
<1>2. \A i \in 1..Len(kept') : i \in 1..Len(kept) /\ kept'[i] = kept[i]
  BY <1>1
<1>3. fifo' = <<>> => Len(fifo') = 0
  OBVIOUS
<1>4. Len(aired) \in Nat /\ Top \in Nat /\ Top' \in Nat /\ Top <= Top'
  BY DEF RxInv, InAir, Top
<1>5. \A i \in 1..Len(kept) : Key(kept[i][1]) \in Nat
  <2>1. \A p \in Read2 : p[1] \in Half
    BY DEF Read2
  <2> QED  BY <2>1, KeyType DEF RxInv, Handed
<1>6. \A a \in 1..Len(fifo) : Key(fifo[a]) \in Nat
  <2>1. fifo \in Seq(Half)
    BY DEF RxInv, Sizes
  <2> QED  BY <2>1, KeyType
<1> HIDE DEF Top, Key
<1>7. InAir'
  BY <1>3, <1>4, <1>6 DEF RxInv, InAir
<1>8. Ordered'
  <2>0. Ordered
    BY DEF RxInv
  <2>1. \A i, j \in 1..Len(kept') : i < j => Key(kept'[i][1]) < Key(kept'[j][1])
    BY <1>2, <2>0 DEF Ordered
  <2>2. \A i \in 1..Len(kept') : Key(kept'[i][1]) <= Top'
    <3> SUFFICES ASSUME NEW i \in 1..Len(kept') PROVE Key(kept'[i][1]) <= Top'
      OBVIOUS
    <3>1. i \in 1..Len(kept) /\ kept'[i] = kept[i]
      BY <1>2
    <3>2. Key(kept[i][1]) <= Top /\ Key(kept[i][1]) \in Nat
      BY <1>5, <2>0, <3>1 DEF Ordered
    <3> QED  BY <1>4, <3>1, <3>2
  <2>3. \A i \in 1..Len(kept'), a \in 1..Len(fifo') : Key(kept'[i][1]) < Key(fifo'[a])
    BY <1>2, <1>3, <2>0 DEF Ordered
  <2> QED  BY <2>1, <2>2, <2>3 DEF Ordered, Key
<1>9. Paired'
  BY <1>2, <1>3 DEF RxInv, Paired, Whole
<1> QED  BY <1>7, <1>8, <1>9

(* The loop reads a whole packet from the front, when it is there.         *)
LEMMA FrontFacts ==
  ASSUME RxInv, pc = "read"
  PROVE  /\ Front \in Seq(Half) /\ Len(Front) = 2
         /\ Front[1] = fifo[1] /\ Front[2] = fifo[2] /\ 2 <= Len(fifo) /\ Len(fifo) <= 3
         /\ decode_header(HeaderIn(Front)) => Front \in Read2
<1>1. fifo \in Seq(Half) /\ 2 <= Len(fifo) /\ Len(fifo) <= 3
  BY RxFacts
<1>2. Front \in Seq(Half) /\ Len(Front) = 2 /\ Front[1] = fifo[1] /\ Front[2] = fifo[2]
  BY <1>1 DEF Front, kPacketHalves
<1>3. Front[1] \in Half
  BY <1>1, <1>2
<1> QED  BY <1>1, <1>2, <1>3, HeaderMeansFirst DEF Read2

(* A packet read joins what was kept, ahead of the rest of the FIFO.       *)
LEMMA ReadingKeeps ==
  RxInv /\ pc = "read" /\ decode_header(HeaderIn(Front)) /\ Pop
    /\ kept' = Append(kept, Front) /\ UNCHANGED <<rx, aired, cut>>
  => InAir' /\ Ordered' /\ Paired' /\ fifo' \in Seq(Half) /\ Len(fifo') <= 1
<1>0. SUFFICES ASSUME RxInv, pc = "read", decode_header(HeaderIn(Front)), Pop,
                      kept' = Append(kept, Front), UNCHANGED <<rx, aired, cut>>
               PROVE  InAir' /\ Ordered' /\ Paired' /\ fifo' \in Seq(Half) /\ Len(fifo') <= 1
  OBVIOUS
<1>a. InAir /\ Ordered /\ Paired
  BY <1>0 DEF RxInv
<1>b. rx' = rx /\ aired' = aired /\ cut' = cut
  BY <1>0
<1>1. /\ Front \in Read2 /\ Front[1] = fifo[1] /\ Front[2] = fifo[2]
      /\ Front[1].half = 1 /\ 2 <= Len(fifo) /\ Len(fifo) <= 3 /\ fifo \in Seq(Half)
  BY <1>0, FrontFacts, RxFacts DEF Read2
<1>2. fifo' \in Seq(Half) /\ Len(fifo') = Len(fifo) - 2 /\ \A a \in 1..Len(fifo') : fifo'[a] = fifo[a + 2]
  <2>1. fifo' = SubSeq(fifo, 3, Len(fifo))
    BY <1>0 DEF Pop, kPacketHalves
  <2>2. /\ SubSeq(fifo, 3, Len(fifo)) \in Seq(Half) /\ Len(SubSeq(fifo, 3, Len(fifo))) = Len(fifo) - 2
        /\ \A a \in 1..Len(fifo) - 2 : SubSeq(fifo, 3, Len(fifo))[a] = fifo[a + 2]
    BY <1>1, Popped
  <2> QED  BY <2>1, <2>2, Zenon
<1>3. kept \in Seq(Read2) /\ Len(kept) \in Nat
  BY <1>0, RxFacts
<1>4. /\ Len(kept') = Len(kept) + 1 /\ kept'[Len(kept) + 1] = Front
      /\ \A i \in 1..Len(kept) : kept'[i] = kept[i]
  BY <1>0, <1>1, <1>3, AppendProperties
<1>5. Top' = Top /\ Top \in Nat
  BY <1>0, <1>b, RxFacts DEF Top
<1>6. \A a \in 1..Len(fifo) : Key(fifo[a]) \in Nat
  BY <1>0, RxFacts
<1>7. \A i \in 1..Len(kept) : Key(kept[i][1]) \in Nat
  BY <1>0, RxFacts
<1> HIDE DEF Top, Key
<1>8. InAir'
  <2>1. \A a, b \in 1..Len(fifo') : a < b => Key(fifo'[a]) < Key(fifo'[b])
    BY <1>a, <1>1, <1>2 DEF InAir
  <2>2. \A a \in 1..Len(fifo') : Key(fifo'[a]) <= Top'
    BY <1>a, <1>1, <1>2, <1>5 DEF InAir
  <2> QED  BY <1>a, <1>b, <2>1, <2>2 DEF InAir
<1>9. Ordered'
  <2>1. \A i \in 1..Len(kept') : Key(kept'[i][1]) <= Top
    BY <1>a, <1>1, <1>3, <1>4, <1>5, SMTT(30) DEF InAir, Ordered
  <2>2. \A i \in 1..Len(kept) : Key(kept[i][1]) < Key(Front[1])
    BY <1>a, <1>1 DEF Ordered
  <2>3. \A i, j \in 1..Len(kept') : i < j => Key(kept'[i][1]) < Key(kept'[j][1])
    BY <1>a, <1>3, <1>4, <2>2 DEF Ordered
  <2>4. \A a \in 1..Len(fifo') : Key(Front[1]) < Key(fifo'[a])
    BY <1>a, <1>1, <1>2 DEF InAir
  <2>5. \A i \in 1..Len(kept'), a \in 1..Len(fifo') : Key(kept'[i][1]) < Key(fifo'[a])
    BY <1>a, <1>1, <1>2, <1>3, <1>4, <2>4 DEF Ordered
  <2> QED  BY <1>a, <2>1, <2>3, <2>5, <1>5 DEF Ordered
<1>10. Paired'
  <2>0. SUFFICES ASSUME ~cut
                 PROVE  /\ \A i \in 1..Len(kept') : Whole(kept'[i])
                      /\ \A a \in 1..Len(fifo') :
                           fifo'[a].half = 1 =>
                             IF a < Len(fifo')
                             THEN fifo'[a + 1] = [pkt |-> fifo'[a].pkt, half |-> 2]
                             ELSE rx # 0 /\ rx = fifo'[a].pkt
    BY <1>a, <1>b DEF Paired, Whole
  <2>1. Whole(Front)
    BY <1>a, <1>1, <2>0 DEF Paired, Whole
  <2>2. \A i \in 1..Len(kept') : Whole(kept'[i])
    BY <1>a, <1>3, <1>4, <2>0, <2>1 DEF Paired
  <2>3. ASSUME NEW a \in 1..Len(fifo'), fifo'[a].half = 1
        PROVE  IF a < Len(fifo') THEN fifo'[a + 1] = [pkt |-> fifo'[a].pkt, half |-> 2]
               ELSE rx # 0 /\ rx = fifo'[a].pkt
    <3>1. a + 2 \in 1..Len(fifo) /\ fifo[a + 2].half = 1 /\ fifo'[a] = fifo[a + 2]
          /\ (a < Len(fifo') <=> a + 2 < Len(fifo))
      BY <1>1, <1>2, <2>3
    <3>2. a < Len(fifo') => a + 1 \in 1..Len(fifo') /\ fifo'[a + 1] = fifo[(a + 2) + 1]
      BY <1>1, <1>2
    <3> QED  BY <1>a, <2>0, <3>1, <3>2 DEF Paired
  <2> QED  BY <2>2, <2>3
<1> QED  BY <1>1, <1>2, <1>8, <1>9, <1>10

(* A half that comes in is later than all before it, and follows its first *)
(* half unless a half was lost.                                            *)
LEMMA StoringKeeps ==
  ASSUME RxInv, NEW n \in Nat \ {0}, NEW h \in {1, 2}, Store(n, h), UNCHANGED kept,
         aired' \in Seq(AirHeader), Top' \in Nat, 2 * n + h <= Top', Top < 2 * n + h,
         rx' # 0 => rx' = Len(aired'),
         h = 1 => rx = 0 /\ rx' = n, h = 2 => rx = n /\ rx' = 0
  PROVE  InAir' /\ Ordered' /\ Paired' /\ fifo' \in Seq(Half) /\ Len(fifo') <= 3 /\ Len(fifo) <= Len(fifo')
<1> InAir /\ Ordered /\ Paired
  BY DEF RxInv
<1> DEFINE new == [pkt |-> n, half |-> h]
<1>1. new \in Half /\ Key(new) = 2 * n + h /\ new.half = h /\ new.pkt = n
  BY DEF Half, Key
<1>2. fifo \in Seq(Half) /\ Len(fifo) \in Nat /\ Len(fifo) <= 3
  BY RxFacts
<1>3. \A a \in 1..Len(fifo) : Key(fifo[a]) \in Nat /\ fifo[a].half \in {1, 2} /\ fifo[a].pkt \in Nat
  BY RxFacts
<1>4. Len(kept) \in Nat /\ \A i \in 1..Len(kept) : Key(kept[i][1]) \in Nat
  BY RxFacts
<1>5. Top \in Nat
  BY RxFacts
<1> HIDE DEF Top, Key
<1>6. CASE fifo' = fifo /\ cut' = TRUE
  <2>1. InAir'
    BY <1>3, <1>5, <1>6 DEF InAir
  <2>2. Ordered'
    BY <1>4, <1>5, <1>6 DEF Ordered
  <2>3. Paired'
    BY <1>6 DEF Paired
  <2> QED  BY <1>2, <1>6, <2>1, <2>2, <2>3
<1>7. CASE Len(fifo) < 3 /\ fifo' = Append(fifo, new) /\ cut' = cut
  <2>1. /\ fifo' \in Seq(Half) /\ Len(fifo') = Len(fifo) + 1
        /\ fifo'[Len(fifo) + 1] = new /\ \A a \in 1..Len(fifo) : fifo'[a] = fifo[a]
    BY <1>1, <1>2, <1>7
  <2> HIDE DEF new
  <2>2. InAir'
    <3>1. \A a \in 1..Len(fifo) : Key(fifo[a]) < Key(new)
      BY <1>1, <1>3, <1>5 DEF InAir
    <3>2. ASSUME NEW a \in 1..Len(fifo'), NEW b \in 1..Len(fifo'), a < b
          PROVE  Key(fifo'[a]) < Key(fifo'[b])
      <4>1. a \in 1..Len(fifo) /\ (b \in 1..Len(fifo) \/ b = Len(fifo) + 1)
        BY <1>2, <2>1, <3>2
      <4> QED  BY <2>1, <3>1, <3>2, <4>1 DEF InAir
    <3>3. \A a \in 1..Len(fifo') : Key(fifo'[a]) <= Top'
      BY <1>1, <1>2, <1>3, <1>5, <2>1 DEF InAir
    <3> QED  BY <3>2, <3>3 DEF InAir
  <2>3. Ordered'
    <3>1. \A i \in 1..Len(kept) : Key(kept[i][1]) < Key(new) /\ Key(kept[i][1]) <= Top'
      BY <1>1, <1>4, <1>5 DEF Ordered
    <3>2. ASSUME NEW i \in 1..Len(kept), NEW a \in 1..Len(fifo')
          PROVE  Key(kept[i][1]) < Key(fifo'[a])
      <4>1. a \in 1..Len(fifo) \/ a = Len(fifo) + 1
        BY <1>2, <2>1
      <4> QED  BY <2>1, <3>1, <4>1 DEF Ordered
    <3> QED  BY <3>1, <3>2 DEF Ordered
  <2>4. Paired'
    <3>1. h = 2 => new = [pkt |-> rx, half |-> 2]
      BY DEF new
    <3>2. ASSUME ~cut, Len(fifo) > 0, fifo[Len(fifo)].half = 1
          PROVE  new = [pkt |-> fifo[Len(fifo)].pkt, half |-> 2]
      <4> DEFINE k == Len(fifo)
      <4>1. k \in Nat /\ k > 0 /\ k = Len(fifo) /\ fifo[k].half = 1
        BY <1>2, <3>2
      <4> HIDE DEF k
      <4>2. k \in 1..Len(fifo) /\ ~(k < Len(fifo))
        BY <4>1
      <4>3. rx # 0 /\ rx = fifo[k].pkt
        BY <3>2, <4>1, <4>2 DEF Paired
      <4> QED  BY <3>1, <4>1, <4>3
    <3>3. \A i \in 1..Len(kept) : ~cut => Whole(kept[i])
      BY DEF Paired
    <3> SUFFICES ASSUME ~cut, NEW a \in 1..Len(fifo'), fifo'[a].half = 1
                 PROVE  IF a < Len(fifo') THEN fifo'[a + 1] = [pkt |-> fifo'[a].pkt, half |-> 2]
                        ELSE rx' # 0 /\ rx' = fifo'[a].pkt
      BY <1>7, <3>3 DEF Paired, Whole
    <3>4. CASE a = Len(fifo) + 1
      BY <1>1, <1>2, <2>1, <3>4
    <3>5. CASE a = Len(fifo)
      BY <1>2, <2>1, <3>2, <3>5
    <3>6. CASE a < Len(fifo)
      BY <1>2, <2>1, <3>6, SMTT(30) DEF Paired
    <3> QED  BY <1>2, <2>1, <3>4, <3>5, <3>6
  <2> QED  BY <1>2, <1>7, <2>1, <2>2, <2>3, <2>4
<1> QED  BY <1>6, <1>7 DEF Store, kFifoHalves

(* Queueing, delivering and the end of the loop keep the packets together. *)
LEMMA HandingOn ==
  ASSUME NEW d \in Seq(Read2), NEW q \in Seq(Read2), NEW p \in Read2
  PROVE  /\ Append(q, p) \in Seq(Read2) /\ d \o q \in Seq(Read2) /\ Append(d \o q, p) \in Seq(Read2)
         /\ d \o Append(q, p) = Append(d \o q, p)
         /\ (d \o q) \o <<>> = d \o q
         /\ Append(d \o q, p) \o <<>> = Append(d \o q, p)
<1>1. Append(q, p) \in Seq(Read2) /\ d \o q \in Seq(Read2) /\ Append(d \o q, p) \in Seq(Read2)
  OBVIOUS
<1>2. d \o Append(q, p) = Append(d \o q, p)
  <2>1. <<p>> \in Seq(Read2)
    OBVIOUS
  <2>2. Append(q, p) = q \o <<p>> /\ Append(d \o q, p) = (d \o q) \o <<p>>
    BY <1>1, AppendIsConcat
  <2> QED  BY <2>1, <2>2, ConcatAssociative
<1> QED  BY <1>1, <1>2, ConcatEmptySeq

(* Steps that leave the packets where they are.                            *)
LEMMA QuietKeeps ==
  ASSUME RxInv, UNCHANGED <<queue, delivered, kept>>, pc' = "idle" => queue = <<>>
  PROVE  Handed'
BY DEF RxInv, Handed

(* A step of the air.                                                      *)
LEMMA AirStep ==
  ASSUME RxInv, Chip
  PROVE  Handed' /\ InAir' /\ Ordered' /\ Paired' /\ Sizes'
<1>0. Len(aired) \in Nat /\ aired \in Seq(AirHeader) /\ rx \in 0..Len(aired) /\ (rx # 0 => rx = Len(aired))
      /\ (pc = "read" => 2 <= Len(fifo)) /\ Len(fifo) \in Nat /\ Len(fifo) <= 3 /\ fifo \in Seq(Half)
  BY RxFacts DEF RxInv, InAir
<1>1. Handed'
  <2>1. UNCHANGED <<queue, delivered, kept, pc>>
    BY DEF Chip, AirFirstHalf, AirSecondHalf, AirBreaksOff, loopVars
  <2>2. pc = "idle" => queue = <<>>
    BY DEF RxInv, Handed
  <2> QED  BY <2>1, <2>2, QuietKeeps
<1>2. CASE AirFirstHalf
  <2> DEFINE n == Len(aired) + 1
  <2>1. rx = 0 /\ rx' = n /\ Store(n, 1) /\ UNCHANGED <<kept, pc>>
    BY <1>2 DEF AirFirstHalf, loopVars
  <2>2. aired' \in Seq(AirHeader) /\ Len(aired') = n
    <3>1. PICK h \in AirHeader : aired' = Append(aired, h)
      BY <1>2 DEF AirFirstHalf, AirHeader
    <3> QED  BY <1>0, <3>1
  <2>3. Top = 2 * Len(aired) + 2 /\ Top' = 2 * n + 1 /\ n \in Nat \ {0}
    BY <1>0, <2>1, <2>2 DEF Top
  <2> HIDE DEF n, Top
  <2>4. Top' \in Nat /\ 2 * n + 1 <= Top' /\ Top < 2 * n + 1
    BY <1>0, <2>3 DEF n
  <2>5. InAir' /\ Ordered' /\ Paired' /\ fifo' \in Seq(Half) /\ Len(fifo') <= 3 /\ Len(fifo) <= Len(fifo')
    BY <2>1, <2>2, <2>3, <2>4, StoringKeeps
  <2>6. Sizes'
    <3>1. rx' \in 0..Len(aired')
      BY <2>1, <2>2, <2>3
    <3>2. pc' = "read" => Len(fifo') >= 2
      BY <1>0, <2>1, <2>5
    <3> QED  BY <2>5, <3>1, <3>2 DEF Sizes, kFifoHalves, kPacketHalves
  <2> QED  BY <1>1, <2>5, <2>6
<1>3. CASE AirSecondHalf
  <2>1. rx # 0 /\ rx' = 0 /\ Store(rx, 2) /\ UNCHANGED <<aired, kept, pc>>
    BY <1>3 DEF AirSecondHalf, loopVars
  <2>2. aired' \in Seq(AirHeader) /\ rx = Len(aired) /\ rx \in Nat \ {0}
    BY <1>0, <2>1
  <2>3. Top = 2 * rx + 1 /\ Top' = 2 * rx + 2
    BY <1>0, <2>1, <2>2 DEF Top
  <2> HIDE DEF Top
  <2>4. Top' \in Nat /\ 2 * rx + 2 <= Top' /\ Top < 2 * rx + 2
    BY <2>2, <2>3
  <2>5. InAir' /\ Ordered' /\ Paired' /\ fifo' \in Seq(Half) /\ Len(fifo') <= 3 /\ Len(fifo) <= Len(fifo')
    BY <2>1, <2>2, <2>3, <2>4, StoringKeeps
  <2>6. Sizes'
    <3>1. rx' \in 0..Len(aired')
      BY <1>0, <2>1
    <3>2. pc' = "read" => Len(fifo') >= 2
      BY <1>0, <2>1, <2>5
    <3> QED  BY <2>5, <3>1, <3>2 DEF Sizes, kFifoHalves, kPacketHalves
  <2> QED  BY <1>1, <2>5, <2>6
<1>4. CASE AirBreaksOff
  <2>1. rx' = 0 /\ cut' = TRUE /\ UNCHANGED <<aired, kept, pc, fifo>>
    BY <1>4 DEF AirBreaksOff, loopVars
  <2>2. InAir /\ Ordered /\ Top \in Nat /\ Top' \in Nat /\ Top <= Top'
    BY <1>0, <2>1 DEF RxInv, Top
  <2>3. /\ \A a \in 1..Len(fifo) : Key(fifo[a]) \in Nat
        /\ \A i \in 1..Len(kept) : Key(kept[i][1]) \in Nat
    BY RxFacts
  <2> HIDE DEF Top, Key
  <2>4. InAir'
    BY <2>1, <2>2, <2>3 DEF InAir
  <2>5. Ordered'
    BY <2>1, <2>2, <2>3 DEF Ordered
  <2>6. Paired'
    BY <2>1 DEF Paired
  <2>7. Sizes'
    BY <1>0, <2>1 DEF Sizes, kFifoHalves, kPacketHalves
  <2> QED  BY <1>1, <2>4, <2>5, <2>6, <2>7
<1> QED  BY <1>2, <1>3, <1>4 DEF Chip

LEMMA ClearingSizes ==
  ASSUME RxInv, fifo' \in {fifo, <<>>}, rx' \in {0, rx}, UNCHANGED aired,
         pc' = "read" => fifo' = fifo /\ Len(fifo) >= 2
  PROVE  Sizes'
<1>1. fifo \in Seq(Half) /\ Len(fifo) \in Nat /\ Len(fifo) <= 3 /\ rx \in 0..Len(aired) /\ Len(aired) \in Nat
  BY RxFacts
<1>2. fifo' \in Seq(Half) /\ Len(fifo') <= 3
  <2>1. <<>> \in Seq(Half) /\ Len(<<>>) <= 3
    OBVIOUS
  <2> QED  BY <1>1, <2>1, Zenon
<1>3. rx' \in 0..Len(aired')
  BY <1>1
<1>4. pc' = "read" => Len(fifo') >= 2
  OBVIOUS
<1> QED  BY <1>2, <1>3, <1>4 DEF Sizes, kFifoHalves, kPacketHalves

(* Steps of the loop, and the re-arming between its runs, that read no     *)
(* packet.                                                                 *)
LEMMA LoopStep ==
  ASSUME RxInv,
         DeadlinePasses \/ rearm \/ enterLoop \/ pollIrq \/ peekFifo \/ rxError \/ fetchNothing
           \/ fetchPacket \/ readFails \/ afterBurst \/ clearFifo \/ waitMore \/ leaveLoop
  PROVE  Handed' /\ InAir' /\ Ordered' /\ Paired' /\ Sizes'
<1> DEFINE
      Quiet == /\ fifo' \in {fifo, <<>>} /\ rx' \in {0, rx} /\ (fifo' = fifo => rx' = rx \/ fifo = <<>>)
               /\ kept' = kept /\ aired' = aired /\ cut' = cut
               /\ pc' = "read" => fifo' = fifo /\ (pc = "read" \/ Len(fifo) >= 2)
<1>1. Quiet
  <2>1. CASE DeadlinePasses
    BY <2>1 DEF DeadlinePasses, chipVars
  <2>2. CASE rearm
    BY <2>2 DEF rearm, ArmReceive
  <2>3. CASE enterLoop
    BY <2>3 DEF enterLoop, chipVars
  <2>4. CASE pollIrq
    BY <2>4 DEF pollIrq
  <2>5. CASE peekFifo
    BY <2>5 DEF peekFifo, chipVars
  <2>6. CASE rxError
    BY <2>6 DEF rxError, ArmReceive
  <2>7. CASE fetchNothing
    BY <2>7 DEF fetchNothing, ArmReceive
  <2>8. CASE fetchPacket
    BY <2>8 DEF fetchPacket, chipVars, kPacketHalves
  <2>9. CASE readFails
    BY <2>9 DEF readFails, ArmReceive
  <2>10. CASE afterBurst
    BY <2>10 DEF afterBurst, chipVars
  <2>11. CASE clearFifo
    BY <2>11 DEF clearFifo
  <2>12. CASE waitMore
    BY <2>12 DEF waitMore, chipVars
  <2>13. CASE leaveLoop
    BY <2>13 DEF leaveLoop, ArmReceive
  <2> QED  BY <2>1, <2>2, <2>3, <2>4, <2>5, <2>6, <2>7, <2>8, <2>9, <2>10, <2>11, <2>12, <2>13
<1>2. pc = "read" => Len(fifo) >= 2
  BY RxFacts
<1>3. InAir' /\ Ordered' /\ Paired'
  BY <1>1, ClearingKeeps
<1>4. Sizes'
  BY <1>1, <1>2, ClearingSizes
<1>5. pc = "idle" => queue = <<>>
  BY DEF RxInv, Handed
<1>6. CASE leaveLoop
  <2>1. delivered' = delivered \o queue /\ queue' = <<>> /\ kept' = kept
    BY <1>6 DEF leaveLoop, Deliver
  <2>2. queue \in Seq(Read2) /\ delivered \in Seq(Read2) /\ kept \in Seq(Read2) /\ kept = delivered \o queue
    BY DEF RxInv, Handed
  <2>3. delivered' \in Seq(Read2) /\ delivered' \o <<>> = kept
    BY <2>1, <2>2, ConcatEmptySeq
  <2> QED  BY <1>3, <1>4, <2>1, <2>2, <2>3 DEF Handed
<1>7. CASE ~leaveLoop
  <2>1. UNCHANGED <<queue, delivered, kept>> /\ (pc' = "idle" => pc = "idle")
    BY <1>5, <1>7 DEF DeadlinePasses, rearm, enterLoop, pollIrq, peekFifo, rxError, fetchNothing,
       fetchPacket, readFails, afterBurst, clearFifo, waitMore, chipVars
  <2> QED  BY <1>3, <1>4, <1>5, <2>1, QuietKeeps
<1> QED  BY <1>6, <1>7

(* Steps that read a packet.                                               *)
LEMMA ReadStep ==
  ASSUME RxInv, readForeign \/ readMiddle \/ readLast
  PROVE  Handed' /\ InAir' /\ Ordered' /\ Paired' /\ Sizes'
<1>0. queue \in Seq(Read2) /\ delivered \in Seq(Read2) /\ kept \in Seq(Read2) /\ kept = delivered \o queue
      /\ aired \in Seq(AirHeader) /\ Len(aired) \in Nat /\ rx \in 0..Len(aired)
  BY RxFacts DEF RxInv, Handed
<1>1. CASE readForeign
  <2>1. /\ fifo' = <<>> /\ rx' = 0 /\ queue' = <<>> /\ kept' = delivered /\ pc' = "idle"
        /\ UNCHANGED <<aired, cut, delivered>>
    BY <1>1 DEF readForeign, ArmReceive
  <2>2. fifo' = fifo => rx' = rx \/ fifo = <<>>
    BY <2>1
  <2>3. InAir' /\ Ordered' /\ Paired'
    BY <2>1, <2>2, ClearingKeeps
  <2>4. Sizes'
    BY <2>1, ClearingSizes
  <2>5. delivered \o <<>> = delivered
    BY <1>0, ConcatEmptySeq
  <2> QED  BY <1>0, <2>1, <2>3, <2>4, <2>5 DEF Handed
<1>2. CASE readMiddle \/ readLast
  <2>1. /\ pc = "read" /\ decode_header(HeaderIn(Front)) /\ Pop /\ kept' = Append(kept, Front)
        /\ UNCHANGED <<rx, aired, cut>> /\ pc' \notin {"read", "idle"}
    BY <1>2 DEF readMiddle, readLast
  <2>2. Front \in Read2
    BY <2>1, FrontFacts
  <2>3. InAir' /\ Ordered' /\ Paired' /\ fifo' \in Seq(Half) /\ Len(fifo') <= 1
    BY <2>1, ReadingKeeps
  <2>4. Sizes'
    <3>1. Len(fifo') <= 3 /\ rx' \in 0..Len(aired') /\ ~(pc' = "read")
      BY <1>0, <2>1, <2>3
    <3> QED  BY <2>3, <3>1 DEF Sizes, kFifoHalves
  <2>5. \/ queue' = Append(queue, Front) /\ delivered' = delivered
        \/ delivered' = delivered \o Append(queue, Front) /\ queue' = <<>>
    BY <1>2 DEF readMiddle, readLast, Deliver
  <2>6. /\ Append(queue, Front) \in Seq(Read2) /\ kept' \in Seq(Read2)
        /\ delivered \o Append(queue, Front) = kept' /\ kept' \o <<>> = kept'
    BY <1>0, <2>1, <2>2, HandingOn
  <2>7. queue' \in Seq(Read2) /\ delivered' \in Seq(Read2) /\ kept' = delivered' \o queue'
    <3>1. CASE queue' = Append(queue, Front) /\ delivered' = delivered
      BY <1>0, <2>6, <3>1, Zenon
    <3>2. CASE delivered' = delivered \o Append(queue, Front) /\ queue' = <<>>
      <4>1. <<>> \in Seq(Read2)
        OBVIOUS
      <4> QED  BY <2>6, <3>2, <4>1, Zenon
    <3> QED  BY <2>5, <3>1, <3>2
  <2> QED  BY <2>1, <2>3, <2>4, <2>6, <2>7 DEF Handed
<1> QED  BY <1>1, <1>2

LEMMA PlacesStep == Places /\ [Next]_vars => Places'
<1> SUFFICES ASSUME Places, [Next]_vars PROVE Places'
  OBVIOUS
<1> USE DEF Places, Errors
<1>1. CASE Chip
  BY <1>1 DEF Chip, AirFirstHalf, AirSecondHalf, AirBreaksOff, loopVars
<1>2. CASE DeadlinePasses \/ rearm \/ enterLoop
  BY <1>2 DEF DeadlinePasses, rearm, enterLoop, ArmReceive, chipVars
<1>3. CASE pollIrq \/ peekFifo \/ rxError \/ fetchNothing \/ fetchPacket
  BY <1>3 DEF pollIrq, peekFifo, rxError, fetchNothing, fetchPacket, ArmReceive, chipVars
<1>4. CASE Read
  BY <1>4 DEF Read, readFails, readForeign, readMiddle, readLast, ArmReceive
<1>5. CASE afterBurst \/ clearFifo \/ waitMore \/ leaveLoop
  BY <1>5 DEF afterBurst, clearFifo, waitMore, leaveLoop, ArmReceive, chipVars
<1>6. CASE UNCHANGED vars
  BY <1>6 DEF vars, loopVars, chipVars
<1> QED  BY <1>1, <1>2, <1>3, <1>4, <1>5, <1>6 DEF Next, Loop

LEMMA FlagsStep == Flags /\ [Next]_vars => Flags'
<1> SUFFICES ASSUME Flags, [Next]_vars PROVE Flags'
  OBVIOUS
<1> USE DEF Flags, StartBurst, EndBurst, ArmReceive
<1>1. CASE Chip
  BY <1>1, Zenon DEF Chip, AirFirstHalf, AirSecondHalf, AirBreaksOff, Store, loopVars
<1>2. CASE DeadlinePasses \/ rearm \/ enterLoop
  BY <1>2, Zenon DEF DeadlinePasses, rearm, enterLoop, chipVars
<1>3. CASE pollIrq \/ peekFifo \/ rxError \/ fetchNothing \/ fetchPacket
  BY <1>3, Zenon DEF pollIrq, peekFifo, rxError, fetchNothing, fetchPacket, chipVars
<1>4. CASE Read
  BY <1>4, Zenon DEF Read, readFails, readForeign, readMiddle, readLast
<1>5. CASE afterBurst \/ clearFifo \/ waitMore \/ leaveLoop
  BY <1>5, Zenon DEF afterBurst, clearFifo, waitMore, leaveLoop, chipVars
<1>6. CASE UNCHANGED vars
  BY <1>6, Zenon DEF vars, loopVars, chipVars
<1> QED  BY <1>1, <1>2, <1>3, <1>4, <1>5, <1>6, Zenon DEF Next, Loop

LEMMA RxStep == RxInv /\ [Next]_vars => RxInv'
<1> SUFFICES ASSUME RxInv, [Next]_vars PROVE RxInv'
  OBVIOUS
<1>1. Places' /\ Flags'
  BY PlacesStep, FlagsStep DEF RxInv
<1>2. CASE Next
  <2>1. Handed' /\ InAir' /\ Ordered' /\ Paired' /\ Sizes'
    BY <1>2, AirStep, LoopStep, ReadStep DEF Next, Loop, Read
  <2> QED  BY <1>1, <2>1 DEF RxInv
<1>3. CASE UNCHANGED vars
  <2>1. UNCHANGED <<fifo, rx, aired, cut, queue, delivered, kept, pc>>
    BY <1>3 DEF vars, loopVars, chipVars
  <2>2. Top' = Top
    BY <2>1 DEF Top
  <2>3. Handed' /\ InAir' /\ Ordered' /\ Paired' /\ Sizes'
    BY <2>1, <2>2 DEF RxInv, Handed, InAir, Ordered, Paired, Sizes, Key, Whole
  <2> QED  BY <1>1, <2>3 DEF RxInv
<1> QED  BY <1>2, <1>3

LEMMA RxInvariant == Spec => []RxInv
BY RxInit, RxStep, PTL DEF Spec

(* Every variable of the receive loop keeps its type, and the loop never   *)
(* reads from a FIFO that holds less than a packet (lines 653-657), for    *)
(* any traffic, errors and timing.                                         *)
THEOREM RxTypes == Spec => []TypeOK
<1>1. RxInv => TypeOK
  <2> SUFFICES ASSUME RxInv PROVE TypeOK
    OBVIOUS
  <2>1. queue \in Seq(Packet) /\ delivered \in Seq(Packet) /\ kept \in Seq(Packet)
    <3>1. Read2 \subseteq Packet
      BY DEF Read2, Packet
    <3> QED  BY <3>1, SeqMonotonic DEF RxInv, Handed
  <2> QED  BY <2>1, Zenon DEF RxInv, Flags, Places, Sizes, TypeOK
<1> QED  BY <1>1, RxInvariant, PTL

(* The packets handed to the host are in the order of the air, none twice, *)
(* for any number of packets, overruns, errors and re-arms.                *)
THEOREM PacketsInOrder == Spec => []InOrderOnce
<1>1. RxInv => InOrderOnce
  <2> SUFFICES ASSUME RxInv, NEW i \in 1..Len(delivered), NEW j \in 1..Len(delivered), i < j
               PROVE  delivered[i][1].pkt < delivered[j][1].pkt
    BY DEF InOrderOnce
  <2>1. /\ i \in 1..Len(kept) /\ j \in 1..Len(kept)
        /\ delivered[i] = kept[i] /\ delivered[j] = kept[j]
    <3>1. Len(kept) \in Nat
      BY RxFacts
    <3> QED  BY <3>1, DeliveredIsPrefix DEF RxInv
  <2>2. Key(kept[i][1]) < Key(kept[j][1])
    BY <2>1 DEF RxInv, Ordered
  <2>3. kept[i] \in Read2 /\ kept[j] \in Read2
    BY <2>1, RxFacts
  <2>4. /\ kept[i][1] \in Half /\ kept[i][1].half = 1
        /\ kept[j][1] \in Half /\ kept[j][1].half = 1
    BY <2>3 DEF Read2
  <2>5. \A g, h \in Half : g.half = 1 /\ h.half = 1 /\ Key(g) < Key(h) => g.pkt < h.pkt
    BY DEF Half, Key
  <2> QED  BY <2>1, <2>2, <2>4, <2>5, Zenon
<1> QED  BY <1>1, RxInvariant, PTL

(* While no half is lost, every delivered packet is whole: clearing the    *)
(* FIFO after a burst may take a first half away, and the second half that *)
(* follows is then not mistaken for a packet.                              *)
THEOREM PacketsWhole == Spec => []NeverTorn
<1>1. RxInv => NeverTorn
  <2> SUFFICES ASSUME RxInv, ~cut, NEW i \in 1..Len(delivered) PROVE Whole(delivered[i])
    BY DEF NeverTorn
  <2>1. i \in 1..Len(kept) /\ delivered[i] = kept[i]
    <3>1. Len(kept) \in Nat
      BY RxFacts
    <3> QED  BY <3>1, DeliveredIsPrefix DEF RxInv
  <2> QED  BY <2>1 DEF RxInv, Paired
<1> QED  BY <1>1, RxInvariant, PTL

(* When the loop has ended, everything it read has been handed over except *)
(* what a foreign packet threw away.                                       *)
THEOREM LoopHandsOver == Spec => []NothingHeldBack
<1>1. RxInv => NothingHeldBack
  BY ConcatEmptySeq DEF RxInv, Handed, NothingHeldBack
<1> QED  BY <1>1, RxInvariant, PTL
=============================================================================
