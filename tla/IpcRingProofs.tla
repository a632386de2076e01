--------------------------- MODULE IpcRingProofs ---------------------------
(***************************************************************************)
(* The ring hands on exactly what was written as long as nothing is given  *)
(* up, and nothing twice or out of order when the writer gives up the      *)
(* oldest bytes outside a read: for every capacity, every counter width    *)
(* above it and all lengths, with the file accesses of writer and reader   *)
(* interleaved in any way.                                                 *)
(***************************************************************************)
EXTENDS IpcRing, SequenceTheorems, TLAPS

----------------------------------------------------------------------------
(* Remainders.                                                             *)

LEMMA ModFacts ==
  ASSUME NEW c \in Nat \ {0}, NEW k \in Nat
  PROVE  \E q \in Nat, r \in Nat : k % c = r /\ r < c /\ k = q * c + r
<1>1. k % c \in Nat /\ k % c < c
  OBVIOUS
<1>2. k = (k \div c) * c + (k % c)
  OBVIOUS
<1>3. k \div c \in Int
  OBVIOUS
<1>4. k \div c >= 0
  OBVIOUS
<1>5. k \div c \in Nat
  <2>1. \A n \in Int : n >= 0 => n \in Nat
    OBVIOUS
  <2> QED  BY <1>3, <1>4, <2>1, Zenon
<1> QED  BY <1>1, <1>2, <1>5, Zenon

LEMMA Distance ==
  ASSUME NEW c \in Nat \ {0}, NEW x \in Nat, NEW y \in Nat, NEW m \in Nat, NEW r \in Nat,
         x + m = y + r, m < c, r < c
  PROVE  ~(x + c <= y) /\ ~(y + c <= x)
OBVIOUS

LEMMA ModUnique ==
  ASSUME NEW c \in Nat \ {0}, NEW k \in Nat, NEW q \in Nat, NEW r \in Nat, r < c, k = q * c + r
  PROVE  k % c = r
<1>1. PICK p \in Nat, m \in Nat : k % c = m /\ m < c /\ k = p * c + m
  BY ModFacts
<1>2. p * c \in Nat /\ q * c \in Nat
  OBVIOUS
<1>3. \A a, b \in Nat : a < b => a * c + c <= b * c
  OBVIOUS
<1>4. ~(p * c + c <= q * c) /\ ~(q * c + c <= p * c)
  BY <1>1, <1>2, Distance
<1>5. p = q
  BY <1>3, <1>4
<1>6. p * c + m = p * c + r
  BY <1>1, <1>5
<1>7. \A z \in Nat : z + m = z + r => m = r
  OBVIOUS
<1> QED  BY <1>1, <1>2, <1>6, <1>7

(* Moving on by j, short of a ringful.                                     *)
LEMMA ModAdd ==
  ASSUME NEW c \in Nat \ {0}, NEW k \in Nat, NEW j \in Nat, j < c
  PROVE  (k + j) % c = IF (k % c) + j < c THEN (k % c) + j ELSE (k % c) + j - c
<1>1. PICK q \in Nat, r \in Nat : k % c = r /\ r < c /\ k = q * c + r
  BY ModFacts
<1>2. q * c \in Nat /\ (q + 1) * c = q * c + c /\ q + 1 \in Nat
  OBVIOUS
<1>3. CASE r + j < c
  <2>1. k + j = q * c + (r + j) /\ r + j \in Nat /\ k + j \in Nat
    BY <1>1, <1>2
  <2>2. (k + j) % c = r + j
    BY <1>3, <2>1, ModUnique
  <2> QED  BY <1>1, <1>3, <2>2
<1>4. CASE ~(r + j < c)
  <2>1. k + j = (q + 1) * c + (r + j - c) /\ r + j - c \in Nat /\ k + j \in Nat /\ r + j - c < c
    BY <1>1, <1>2, <1>4
  <2>2. (k + j) % c = r + j - c
    BY <1>2, <2>1, ModUnique
  <2> QED  BY <1>1, <1>4, <2>2
<1> QED  BY <1>3, <1>4

(* Positions less than a ringful apart are different places.               *)
LEMMA ModDiffers ==
  ASSUME NEW c \in Nat \ {0}, NEW k \in Nat, NEW l \in Nat, k < l, l < k + c
  PROVE  k % c # l % c
<1>1. PICK j \in Nat : l = k + j /\ 0 < j /\ j < c
  <2>1. l - k \in Nat /\ l = k + (l - k) /\ 0 < l - k /\ l - k < c
    OBVIOUS
  <2> QED  BY <2>1
<1>2. PICK q \in Nat, r \in Nat : k % c = r /\ r < c /\ k = q * c + r
  BY ModFacts
<1>3. l % c = IF r + j < c THEN r + j ELSE r + j - c
  BY <1>1, <1>2, ModAdd, ZenonT(30)
<1> QED  BY <1>1, <1>2, <1>3

----------------------------------------------------------------------------
(* Places in the ring.                                                     *)

LEMMA Cap == kIpcRingCap \in Nat \ {0} /\ CounterMod \in Nat /\ kIpcRingCap < CounterMod
             /\ RxBufSize \in Nat \ {0} /\ (\A n \in Lens : n \in Nat /\ 1 <= n /\ n <= kIpcRingCap)
BY RingAssumption

LEMMA OffFacts ==
  ASSUME NEW k \in Nat
  PROVE  Off(k) \in Nat /\ Off(k) < kIpcRingCap
<1>1. PICK q \in Nat, r \in Nat : k % kIpcRingCap = r /\ r < kIpcRingCap /\ k = q * kIpcRingCap + r
  BY Cap, ModFacts
<1> QED  BY <1>1, Zenon DEF Off

LEMMA OffAdd ==
  ASSUME NEW k \in Nat, NEW j \in Nat, j < kIpcRingCap
  PROVE  Off(k + j) = IF Off(k) + j < kIpcRingCap THEN Off(k) + j ELSE Off(k) + j - kIpcRingCap
BY Cap, ModAdd DEF Off

LEMMA OffDiffers ==
  ASSUME NEW k \in Nat, NEW l \in Nat, k < l, l < k + kIpcRingCap
  PROVE  Off(k) # Off(l)
BY Cap, ModDiffers DEF Off

(* The two parts of an access of n bytes from k on.                        *)
LEMMA PartFacts ==
  ASSUME NEW k \in Nat, NEW n \in Nat, 1 <= n, n <= kIpcRingCap
  PROVE  /\ FirstPart(k, n) \in Nat /\ 1 <= FirstPart(k, n) /\ FirstPart(k, n) <= n
         /\ Off(k) + FirstPart(k, n) <= kIpcRingCap
         /\ \A j \in Nat : j < FirstPart(k, n) => Off(k + j) = Off(k) + j
         /\ \A j \in Nat : FirstPart(k, n) <= j /\ j < n => Off(k + j) = j - FirstPart(k, n)
<1> DEFINE F == FirstPart(k, n)
<1>1. Off(k) \in Nat /\ Off(k) < kIpcRingCap
  BY OffFacts
<1> HIDE DEF Off
<1>2. /\ F \in Nat /\ 1 <= F /\ F <= n /\ Off(k) + F <= kIpcRingCap
      /\ F < n => Off(k) + F = kIpcRingCap
  BY <1>1, Cap DEF FirstPart
<1> HIDE DEF F
<1>3. \A j \in Nat : j < F => Off(k + j) = Off(k) + j
  <2> SUFFICES ASSUME NEW j \in Nat, j < F PROVE Off(k + j) = Off(k) + j
    OBVIOUS
  <2>1. j < kIpcRingCap /\ Off(k) + j < kIpcRingCap
    BY <1>1, <1>2, Cap
  <2> QED  BY <2>1, OffAdd
<1>4. \A j \in Nat : F <= j /\ j < n => Off(k + j) = j - F
  <2> SUFFICES ASSUME NEW j \in Nat, F <= j, j < n PROVE Off(k + j) = j - F
    OBVIOUS
  <2>1. j < kIpcRingCap /\ ~(Off(k) + j < kIpcRingCap) /\ Off(k) + j - kIpcRingCap = j - F
    BY <1>1, <1>2, Cap
  <2> QED  BY <2>1, OffAdd
<1> QED  BY <1>2, <1>3, <1>4 DEF F

----------------------------------------------------------------------------
(* The inductive invariant.  Positions in the stream and counters are the  *)
(* same numbers while the head has not gone round.                         *)

(* The ring holds the bytes of the stream from the a-th to before the b-th.*)
Holds(a, b) == \A k \in Nat : a <= k /\ k < b => ring[Off(k)] = k + 1

Counters ==
  /\ sent \in Nat /\ head = sent /\ tail \in Nat
  /\ tail <= head /\ head <= tail + kIpcRingCap
  /\ Holds(tail, head)

(* What was handed on lies before the tail, and reaches up to it as long   *)
(* as nothing was given up.                                                *)
HandedOn ==
  /\ last \in Nat /\ last <= tail /\ again = FALSE
  /\ ~moved => last = tail /\ gap = FALSE

(* The writer has room for all it is writing, and writes it behind head;   *)
(* when it found no room, its new tail lies behind the one it saw.         *)
WriterOk ==
  /\ wpc \in {"idle", "tail", "first", "rest", "head"}
  /\ wpc # "idle" => whead = head /\ 1 <= wlen /\ wlen <= kIpcRingCap
  /\ wpc = "tail" => wtail + kIpcRingCap < head + wlen
  /\ wpc \in {"first", "rest", "head"} => head + wlen <= tail + kIpcRingCap
  /\ wpc = "rest" => Holds(head, head + FirstPart(head, wlen)) /\ FirstPart(head, wlen) < wlen
  /\ wpc = "head" => Holds(head, head + wlen)

Copied(n) == rbuf \in Seq(Nat) /\ Len(rbuf) = n /\ \A i \in 1..n : rbuf[i] = tail + i

(* The reader copies what lies between tail and head.                      *)
ReaderOk ==
  /\ rpc \in {"idle", "first", "rest", "tail"}
  /\ rpc # "idle" => rtail = tail /\ take \in Nat /\ 1 <= take /\ tail + take <= head
  /\ rpc = "first" => rbuf = <<>>
  /\ rpc = "rest" => Copied(FirstPart(tail, take)) /\ FirstPart(tail, take) < take
  /\ rpc = "tail" => Copied(take)

RingInv ==
  /\ sent \in Nat /\ wlen \in Nat
  /\ raced => moved
  /\ ~raced /\ FirstRound => Counters /\ HandedOn /\ WriterOk /\ ReaderOk

LEMMA RingInit == Init => RingInv
<1> SUFFICES ASSUME Init PROVE RingInv
  OBVIOUS
<1>1. Counters
  BY Cap DEF Init, Counters, Holds
<1>2. HandedOn /\ WriterOk /\ ReaderOk
  BY DEF Init, HandedOn, WriterOk, ReaderOk
<1> QED  BY <1>1, <1>2 DEF RingInv, Init

(* What a write of the bytes behind the a-th up to the b-th does: they are *)
(* in their places, and older bytes of the same ringful are untouched.     *)
LEMMA PutEffect ==
  ASSUME NEW a \in Nat, NEW b \in Nat, a < b, NEW o \in Nat, o + (b - a) <= kIpcRingCap,
         head \in Nat, sent = head, Put(o, a + 1, b),
         \A j \in Nat : a <= j /\ j < b => Off(head + j) = o + (j - a)
  PROVE  /\ \A j \in Nat : a <= j /\ j < b => ring'[Off(head + j)] = (head + j) + 1
         /\ \A k \in Nat : head + b <= k + kIpcRingCap /\ k < head + a => ring'[Off(k)] = ring[Off(k)]
<1>1. \A i \in 0..kIpcRingCap - 1 :
        ring'[i] = IF o <= i /\ i <= o + b - (a + 1) THEN sent + (a + 1) + (i - o) ELSE ring[i]
  BY DEF Put
<1>2. \A j \in Nat : a <= j /\ j < b => ring'[Off(head + j)] = (head + j) + 1
  <2> SUFFICES ASSUME NEW j \in Nat, a <= j, j < b PROVE ring'[Off(head + j)] = (head + j) + 1
    OBVIOUS
  <2>1. PICK i \in Int : i = o + (j - a)
    OBVIOUS
  <2>2. i \in 0..kIpcRingCap - 1 /\ o <= i /\ i <= o + b - (a + 1) /\ sent + (a + 1) + (i - o) = (head + j) + 1
    BY <2>1, Cap
  <2>3. Off(head + j) = i
    BY <2>1
  <2> QED  BY <1>1, <2>2, <2>3
<1>3. ASSUME NEW k \in Nat, head + b <= k + kIpcRingCap, k < head + a
      PROVE  ring'[Off(k)] = ring[Off(k)]
  <2>1. PICK i \in Nat : i = Off(k) /\ i < kIpcRingCap
    BY OffFacts
  <2>2. ~(o <= i /\ i <= o + b - (a + 1))
    <3> SUFFICES ASSUME o <= i, i <= o + b - (a + 1) PROVE FALSE
      OBVIOUS
    <3>1. PICK j \in Nat : j = i - o + a /\ a <= j /\ j < b
      <4>1. i - o + a \in Nat /\ a <= i - o + a /\ i - o + a < b
        OBVIOUS
      <4> QED  BY <4>1
    <3>2. Off(head + j) = i
      BY <3>1
    <3>3. head + j \in Nat /\ k < head + j /\ head + j < k + kIpcRingCap
      BY <1>3, <3>1, Cap
    <3> QED  BY <2>1, <3>2, <3>3, OffDiffers
  <2>3. i \in 0..kIpcRingCap - 1
    BY <2>1, Cap
  <2> QED  BY <1>1, <2>1, <2>2, <2>3
<1> QED  BY <1>2, <1>3

Tight == Counters /\ HandedOn /\ WriterOk /\ ReaderOk /\ sent < CounterMod /\ wlen \in Nat

(* Counters less than a ringful apart: the difference is exact.            *)
LEMMA SubExact ==
  ASSUME Tight
  PROVE  Sub(head, tail) = head - tail /\ head - tail \in Nat /\ head - tail <= kIpcRingCap
<1>1. head - tail \in Nat /\ head - tail <= kIpcRingCap /\ head - tail < CounterMod
  BY Cap DEF Tight, Counters
<1>2. head - tail = 0 * CounterMod + (head - tail)
  BY <1>1, Cap
<1>3. CounterMod \in Nat \ {0}
  BY Cap
<1> QED  BY <1>1, <1>2, <1>3, ModUnique DEF Sub

LEMMA AddExact ==
  ASSUME NEW a \in Nat, NEW b \in Nat, a + b < CounterMod
  PROVE  Add(a, b) = a + b
<1>1. a + b \in Nat /\ a + b = 0 * CounterMod + (a + b) /\ CounterMod \in Nat \ {0}
  BY Cap
<1> QED  BY <1>1, ModUnique DEF Add

LEMMA WriteBeginKeeps ==
  ASSUME Tight, writeBegin
  PROVE  Counters' /\ HandedOn' /\ WriterOk' /\ ReaderOk'
<1>1. /\ UNCHANGED <<head, tail, ring, sent, last, gap, again, moved, rpc, rtail, rbuf, take>>
      /\ whead' = head /\ wtail' = tail
  BY DEF writeBegin, shared, reader
<1>2. Counters' /\ HandedOn' /\ ReaderOk'
  BY <1>1 DEF Tight, Counters, HandedOn, Holds, ReaderOk, Copied
<1>3. PICK n \in Lens : wlen' = n /\ wpc' = IF HasRoom(n) THEN "first" ELSE "tail"
  BY DEF writeBegin
<1>4. n \in Nat /\ 1 <= n /\ n <= kIpcRingCap
  BY Cap
<1>5. /\ HasRoom(n) => head + n <= tail + kIpcRingCap
      /\ ~HasRoom(n) => tail + kIpcRingCap < head + n
  <2>1. Used = head - tail
    BY SubExact, Cap DEF Used
  <2> QED  BY <1>4, <2>1, Cap DEF HasRoom, Tight, Counters
<1>6. WriterOk'
  BY <1>1, <1>3, <1>4, <1>5 DEF WriterOk
<1> QED  BY <1>2, <1>6

(* The tail is moved to where the write leaves a ringful, and forward.     *)
LEMMA WriteTailKeeps ==
  ASSUME Tight, writeTail, ~raced'
  PROVE  Counters' /\ HandedOn' /\ WriterOk' /\ ReaderOk'
<1>0. /\ UNCHANGED <<head, ring, sent, last, again, rpc, whead, wlen>> /\ wpc = "tail" /\ wpc' = "first"
      /\ tail' = Sub(whead, kIpcRingCap - wlen) /\ moved' = TRUE
  BY DEF writeTail, reader
<1>1. rpc = "idle" /\ tail = wtail
  BY DEF writeTail
<1>2. /\ sent \in Nat /\ head = sent /\ sent < CounterMod /\ whead = head /\ wlen \in Nat /\ 1 <= wlen
      /\ wlen <= kIpcRingCap /\ tail \in Nat /\ tail <= head /\ tail + kIpcRingCap < head + wlen
      /\ Holds(tail, head) /\ last \in Nat /\ last <= tail /\ again = FALSE
  BY <1>0, <1>1 DEF Tight, Counters, HandedOn, WriterOk
<1>3. PICK d \in Nat : /\ d = head - (kIpcRingCap - wlen) /\ d < CounterMod
                       /\ tail <= d /\ d <= head /\ head + wlen <= d + kIpcRingCap
  <2>1. /\ head - (kIpcRingCap - wlen) \in Nat /\ head - (kIpcRingCap - wlen) < CounterMod
        /\ tail <= head - (kIpcRingCap - wlen) /\ head - (kIpcRingCap - wlen) <= head
        /\ head + wlen <= head - (kIpcRingCap - wlen) + kIpcRingCap
    BY <1>2, Cap
  <2> QED  BY <2>1
<1>4. tail' = d
  <2>1. d = 0 * CounterMod + d /\ CounterMod \in Nat \ {0}
    BY <1>3, Cap
  <2>2. d % CounterMod = d
    BY <1>3, <2>1, ModUnique
  <2> QED  BY <1>0, <1>2, <1>3, <2>2 DEF Sub
<1>5. Counters'
  <2>1. Holds(tail, head)'
    <3> SUFFICES ASSUME NEW k \in Nat, d <= k, k < head PROVE ring[Off(k)] = k + 1
      BY <1>0, <1>4 DEF Holds, Off
    <3>1. tail <= k
      BY <1>2, <1>3
    <3> QED  BY <1>2, <3>1 DEF Holds
  <2>2. head <= tail' + kIpcRingCap
    BY <1>2, <1>3, <1>4, Cap
  <2> QED  BY <1>0, <1>2, <1>3, <1>4, <2>1, <2>2 DEF Counters
<1>6. HandedOn'
  BY <1>0, <1>2, <1>3, <1>4 DEF HandedOn
<1>7. WriterOk'
  BY <1>0, <1>2, <1>3, <1>4 DEF WriterOk
<1>8. ReaderOk'
  BY <1>0, <1>1 DEF ReaderOk
<1> QED  BY <1>5, <1>6, <1>7, <1>8

LEMMA WriteFirstKeeps ==
  ASSUME Tight, writeFirst
  PROVE  Counters' /\ HandedOn' /\ WriterOk' /\ ReaderOk'
<1> DEFINE F == FirstPart(head, wlen)
<1>0. /\ UNCHANGED <<head, tail, sent, last, gap, again, moved, rpc, rtail, rbuf, take, whead, wlen>>
      /\ wpc = "first" /\ Put(Off(whead), 1, FirstPart(whead, wlen))
      /\ wpc' = IF wlen > FirstPart(whead, wlen) THEN "rest" ELSE "head"
  BY DEF writeFirst, reader
<1>1. /\ sent \in Nat /\ head = sent /\ whead = head /\ wlen \in Nat /\ 1 <= wlen /\ wlen <= kIpcRingCap
      /\ tail \in Nat /\ tail <= head /\ head + wlen <= tail + kIpcRingCap /\ Holds(tail, head)
  BY <1>0 DEF Tight, Counters, WriterOk
<1>2. /\ F \in Nat /\ 1 <= F /\ F <= wlen /\ Off(head) + F <= kIpcRingCap
      /\ \A j \in Nat : j < F => Off(head + j) = Off(head) + j
  BY <1>1, PartFacts
<1>3. Off(head) \in Nat
  BY <1>1, OffFacts
<1> HIDE DEF F
<1>4. Put(Off(head), 0 + 1, F)
  BY <1>0, <1>1 DEF F
<1>5. \A j \in Nat : 0 <= j /\ j < F => Off(head + j) = Off(head) + (j - 0)
  BY <1>2, <1>3
<1>6. /\ \A j \in Nat : 0 <= j /\ j < F => ring'[Off(head + j)] = (head + j) + 1
      /\ \A k \in Nat : head + F <= k + kIpcRingCap /\ k < head + 0 => ring'[Off(k)] = ring[Off(k)]
  <2>1. 0 < F /\ Off(head) + (F - 0) <= kIpcRingCap
    BY <1>2, <1>3
  <2> QED  BY <1>1, <1>2, <1>3, <1>4, <1>5, <2>1, PutEffect, ZenonT(30)
<1>7. Holds(tail, head)'
  <2> SUFFICES ASSUME NEW k \in Nat, tail <= k, k < head PROVE ring'[Off(k)] = k + 1
    BY <1>0 DEF Holds, Off
  <2>1. head + F <= k + kIpcRingCap /\ k < head + 0
    BY <1>1, <1>2, Cap
  <2> QED  BY <1>1, <1>6, <2>1 DEF Holds
<1>8. Holds(head, head + F)'
  <2> SUFFICES ASSUME NEW k \in Nat, head <= k, k < head + F PROVE ring'[Off(k)] = k + 1
    BY <1>0 DEF Holds, Off, F, FirstPart
  <2>1. PICK j \in Nat : k = head + j /\ j < F
    <3>1. k - head \in Nat /\ k = head + (k - head) /\ k - head < F
      BY <1>1, <1>2
    <3> QED  BY <3>1
  <2> QED  BY <1>6, <2>1
<1>9. Counters' /\ HandedOn'
  BY <1>0, <1>7 DEF Tight, Counters, HandedOn
<1>10. ReaderOk'
  BY <1>0 DEF Tight, ReaderOk, Copied
<1>11. WriterOk'
  <2>1. F' = F
    BY <1>0 DEF F, FirstPart, Off
  <2>2. CASE wlen > F
    <3>1. wpc' = "rest"
      BY <1>0, <1>1, <2>2 DEF F
    <3> QED  BY <1>0, <1>1, <1>8, <2>1, <3>1 DEF WriterOk, F
  <2>3. CASE wlen = F
    <3>1. wpc' = "head"
      BY <1>0, <1>1, <2>3 DEF F
    <3>2. Holds(head, head + wlen)'
      BY <1>0, <1>8, <2>1, <2>3 DEF Holds
    <3> QED  BY <1>0, <1>1, <3>1, <3>2 DEF WriterOk
  <2> QED  BY <1>1, <1>2, <2>2, <2>3
<1> QED  BY <1>9, <1>10, <1>11

LEMMA WriteRestKeeps ==
  ASSUME Tight, writeRest
  PROVE  Counters' /\ HandedOn' /\ WriterOk' /\ ReaderOk'
<1> DEFINE F == FirstPart(head, wlen)
<1>0. /\ UNCHANGED <<head, tail, sent, last, gap, again, moved, rpc, rtail, rbuf, take, whead, wlen>>
      /\ wpc = "rest" /\ Put(0, FirstPart(whead, wlen) + 1, wlen) /\ wpc' = "head"
  BY DEF writeRest, reader
<1>1. /\ sent \in Nat /\ head = sent /\ whead = head /\ wlen \in Nat /\ 1 <= wlen /\ wlen <= kIpcRingCap
      /\ tail \in Nat /\ tail <= head /\ head + wlen <= tail + kIpcRingCap /\ Holds(tail, head)
      /\ Holds(head, head + F) /\ F < wlen
  BY <1>0 DEF Tight, Counters, WriterOk
<1>2. /\ F \in Nat /\ 1 <= F /\ F <= wlen
      /\ \A j \in Nat : F <= j /\ j < wlen => Off(head + j) = j - F
  BY <1>1, PartFacts
<1>4. Put(0, F + 1, wlen)
  BY <1>0, <1>1
<1> HIDE DEF F
<1>5. \A j \in Nat : F <= j /\ j < wlen => Off(head + j) = 0 + (j - F)
  BY <1>2
<1>6. /\ \A j \in Nat : F <= j /\ j < wlen => ring'[Off(head + j)] = (head + j) + 1
      /\ \A k \in Nat : head + wlen <= k + kIpcRingCap /\ k < head + F => ring'[Off(k)] = ring[Off(k)]
  <2>1. 0 \in Nat /\ 0 + (wlen - F) <= kIpcRingCap
    BY <1>1, <1>2, Cap
  <2> QED  BY <1>1, <1>2, <1>4, <1>5, <2>1, PutEffect, ZenonT(30)
<1>7. Holds(tail, head)'
  <2> SUFFICES ASSUME NEW k \in Nat, tail <= k, k < head PROVE ring'[Off(k)] = k + 1
    BY <1>0 DEF Holds, Off
  <2>1. head + wlen <= k + kIpcRingCap /\ k < head + F
    BY <1>1, <1>2, Cap
  <2> QED  BY <1>1, <1>6, <2>1 DEF Holds
<1>8. Holds(head, head + wlen)'
  <2> SUFFICES ASSUME NEW k \in Nat, head <= k, k < head + wlen PROVE ring'[Off(k)] = k + 1
    BY <1>0 DEF Holds, Off
  <2>1. CASE k < head + F
    <3>1. head + wlen <= k + kIpcRingCap
      BY <1>1, Cap
    <3> QED  BY <1>1, <1>6, <2>1, <3>1 DEF Holds
  <2>2. CASE head + F <= k
    <3>1. PICK j \in Nat : k = head + j /\ F <= j /\ j < wlen
      <4>1. k - head \in Nat /\ k = head + (k - head) /\ F <= k - head /\ k - head < wlen
        BY <1>1, <1>2, <2>2
      <4> QED  BY <4>1
    <3> QED  BY <1>6, <3>1
  <2> QED  BY <1>1, <1>2, <2>1, <2>2
<1>9. Counters' /\ HandedOn'
  BY <1>0, <1>7 DEF Tight, Counters, HandedOn
<1>10. ReaderOk'
  BY <1>0 DEF Tight, ReaderOk, Copied
<1>11. WriterOk'
  BY <1>0, <1>1, <1>8 DEF WriterOk
<1> QED  BY <1>9, <1>10, <1>11

LEMMA WriteHeadKeeps ==
  ASSUME Tight, writeHead, sent' < CounterMod
  PROVE  Counters' /\ HandedOn' /\ WriterOk' /\ ReaderOk'
<1>0. /\ UNCHANGED <<tail, ring, last, gap, again, moved, rpc, rtail, rbuf, take>>
      /\ wpc = "head" /\ wpc' = "idle" /\ head' = Add(whead, wlen) /\ sent' = sent + wlen
  BY DEF writeHead, reader
<1>1. /\ sent \in Nat /\ head = sent /\ whead = head /\ wlen \in Nat /\ 1 <= wlen
      /\ tail \in Nat /\ tail <= head /\ head + wlen <= tail + kIpcRingCap /\ Holds(tail, head)
      /\ Holds(head, head + wlen)
  BY <1>0 DEF Tight, Counters, WriterOk
<1>2. head' = head + wlen
  BY <1>0, <1>1, AddExact
<1>3. Holds(tail, head)'
  <2> SUFFICES ASSUME NEW k \in Nat, tail <= k, k < head + wlen PROVE ring[Off(k)] = k + 1
    BY <1>0, <1>2 DEF Holds, Off
  <2>1. k < head \/ head <= k
    BY <1>1
  <2> QED  BY <1>1, <2>1 DEF Holds
<1>4. Counters' /\ HandedOn'
  <2>1. sent' \in Nat /\ head' = sent' /\ tail <= head' /\ head' <= tail + kIpcRingCap
    BY <1>0, <1>1, <1>2, Cap
  <2>2. HandedOn'
    BY <1>0 DEF Tight, HandedOn
  <2> QED  BY <1>0, <1>1, <1>3, <2>1, <2>2 DEF Counters
<1>5. WriterOk'
  BY <1>0 DEF WriterOk
<1>6. ReaderOk'
  <2>1. rpc # "idle" => tail + take <= head'
    BY <1>1, <1>2 DEF Tight, ReaderOk
  <2> QED  BY <1>0, <2>1 DEF Tight, ReaderOk, Copied, FirstPart, Off
<1> QED  BY <1>4, <1>5, <1>6

LEMMA ReadBeginKeeps ==
  ASSUME Tight, readBegin
  PROVE  Counters' /\ HandedOn' /\ WriterOk' /\ ReaderOk'
<1>0. /\ UNCHANGED <<head, tail, ring, wpc, whead, wtail, wlen, sent, last, gap, again, moved>>
      /\ head # tail /\ rtail' = tail /\ rbuf' = <<>> /\ rpc' = "first"
      /\ take' = IF Sub(head, tail) < RxBufSize THEN Sub(head, tail) ELSE RxBufSize
  BY DEF readBegin, shared, writer
<1>1. Counters' /\ HandedOn' /\ WriterOk'
  BY <1>0 DEF Tight, Counters, HandedOn, WriterOk, Holds, Off, FirstPart
<1>2. take' \in Nat /\ 1 <= take' /\ tail + take' <= head
  <2>1. PICK d \in Nat : d = head - tail /\ Sub(head, tail) = d
    BY SubExact
  <2>2. head \in Nat /\ tail \in Nat
    BY DEF Tight, Counters
  <2>3. take' = IF d < RxBufSize THEN d ELSE RxBufSize
    BY <1>0, <2>1
  <2> QED  BY <1>0, <2>1, <2>2, <2>3, Cap
<1>3. ReaderOk'
  BY <1>0, <1>2 DEF ReaderOk
<1> QED  BY <1>1, <1>3

(* A copy of n bytes from position k on, appended to what was copied.      *)
LEMMA CopyEffect ==
  ASSUME NEW o \in Nat, NEW n \in Nat, NEW m \in Nat, tail \in Nat, Copy(o, n),
         rbuf \in Seq(Nat), Len(rbuf) = m, \A i \in 1..m : rbuf[i] = tail + i,
         \A i \in 1..n : ring[o + i - 1] = tail + m + i
  PROVE  rbuf' \in Seq(Nat) /\ Len(rbuf') = m + n /\ \A i \in 1..m + n : rbuf'[i] = tail + i
<1> DEFINE new == [i \in 1..n |-> ring[o + i - 1]]
<1>1. \A i \in 1..n : new[i] = tail + m + i
  OBVIOUS
<1>2. new \in Seq(Nat) /\ Len(new) = n
  <2>1. new = [i \in 1..n |-> tail + m + i]
    OBVIOUS
  <2>2. [i \in 1..n |-> tail + m + i] \in [1..n -> Nat]
    OBVIOUS
  <2>3. new \in [1..n -> Nat]
    BY <2>1, <2>2
  <2> HIDE DEF new
  <2>4. new \in Seq(Nat)
    BY <2>3, SeqDef
  <2>5. Len(new) = n
    BY <2>3, <2>4, LenProperties
  <2> QED  BY <2>4, <2>5
<1>3. rbuf' = rbuf \o new
  BY DEF Copy
<1> HIDE DEF new
<1>4. /\ rbuf \o new \in Seq(Nat) /\ Len(rbuf \o new) = m + n
      /\ \A i \in 1..m + n : (rbuf \o new)[i] = IF i <= m THEN rbuf[i] ELSE new[i - m]
  BY <1>2, ConcatProperties, ZenonT(30)
<1>5. \A i \in 1..m + n : rbuf'[i] = tail + i
  <2> SUFFICES ASSUME NEW i \in 1..m + n PROVE rbuf'[i] = tail + i
    OBVIOUS
  <2>1. CASE i <= m
    <3>1. i \in 1..m
      BY <2>1
    <3> QED  BY <1>3, <1>4, <2>1, <3>1
  <2>2. CASE ~(i <= m)
    <3>1. i - m \in 1..n /\ tail + m + (i - m) = tail + i
      BY <2>2
    <3> QED  BY <1>1, <1>3, <1>4, <2>2, <3>1
  <2> QED  BY <2>1, <2>2
<1> QED  BY <1>3, <1>4, <1>5

LEMMA ReadFirstKeeps ==
  ASSUME Tight, readFirst
  PROVE  Counters' /\ HandedOn' /\ WriterOk' /\ ReaderOk'
<1> DEFINE F == FirstPart(tail, take)
<1>0. /\ UNCHANGED <<head, tail, ring, wpc, whead, wtail, wlen, sent, last, gap, again, moved, rtail, take>>
      /\ rpc = "first" /\ Copy(Off(rtail), FirstPart(rtail, take))
      /\ rpc' = IF take > FirstPart(rtail, take) THEN "rest" ELSE "tail"
  BY DEF readFirst, shared, writer
<1>1. Counters' /\ HandedOn' /\ WriterOk'
  BY <1>0 DEF Tight, Counters, HandedOn, WriterOk, Holds, Off, FirstPart
<1>2. /\ rtail = tail /\ tail \in Nat /\ head \in Nat /\ take \in Nat /\ 1 <= take
      /\ tail + take <= head /\ head <= tail + kIpcRingCap /\ rbuf = <<>> /\ Holds(tail, head)
  BY <1>0 DEF Tight, Counters, ReaderOk
<1>3. take <= kIpcRingCap
  BY <1>2, Cap
<1>4. /\ F \in Nat /\ 1 <= F /\ F <= take
      /\ \A j \in Nat : j < F => Off(tail + j) = Off(tail) + j
  BY <1>2, <1>3, PartFacts
<1>5. Off(tail) \in Nat /\ Copy(Off(tail), F) /\ F' = F
  BY <1>0, <1>2, OffFacts DEF FirstPart, Off
<1> HIDE DEF F
<1>6. \A i \in 1..F : ring[Off(tail) + i - 1] = tail + 0 + i
  <2> SUFFICES ASSUME NEW i \in 1..F PROVE ring[Off(tail) + i - 1] = tail + 0 + i
    OBVIOUS
  <2>1. PICK j \in Nat : j = i - 1 /\ j < F
    <3>1. i - 1 \in Nat /\ i - 1 < F
      BY <1>4
    <3> QED  BY <3>1
  <2>2. tail + j \in Nat /\ tail <= tail + j /\ tail + j < head /\ (tail + j) + 1 = tail + 0 + i
    BY <1>2, <1>4, <2>1
  <2>3. Off(tail + j) = Off(tail) + i - 1
    BY <1>4, <1>5, <2>1
  <2> QED  BY <1>2, <2>2, <2>3 DEF Holds
<1>7. rbuf' \in Seq(Nat) /\ Len(rbuf') = F /\ \A i \in 1..F : rbuf'[i] = tail + i
  <2>1. PICK m \in Nat : m = 0
    OBVIOUS
  <2>2. rbuf \in Seq(Nat) /\ Len(rbuf) = m /\ \A i \in 1..m : rbuf[i] = tail + i
    BY <1>2, <2>1
  <2>3. \A i \in 1..F : ring[Off(tail) + i - 1] = tail + m + i
    BY <1>6, <2>1
  <2>4. rbuf' \in Seq(Nat) /\ Len(rbuf') = m + F /\ \A i \in 1..m + F : rbuf'[i] = tail + i
    <3>1. tail \in Nat /\ F \in Nat /\ Off(tail) \in Nat /\ Copy(Off(tail), F)
      BY <1>2, <1>4, <1>5
    <3> QED  BY <2>2, <2>3, <3>1, CopyEffect, ZenonT(30)
  <2>5. m + F = F
    BY <1>4, <2>1
  <2> QED  BY <2>4, <2>5
<1>8. ReaderOk'
  <2>1. CASE F < take
    <3>1. rpc' = "rest"
      BY <1>0, <1>2, <2>1 DEF F
    <3>2. FirstPart(tail, take)' = F
      BY <1>5 DEF F
    <3> QED  BY <1>0, <1>2, <1>7, <2>1, <3>1, <3>2 DEF ReaderOk, Copied
  <2>2. CASE F = take
    <3>1. rpc' = "tail"
      BY <1>0, <1>2, <2>2 DEF F
    <3> QED  BY <1>0, <1>2, <1>7, <2>2, <3>1 DEF ReaderOk, Copied
  <2> QED  BY <1>2, <1>4, <2>1, <2>2
<1> QED  BY <1>1, <1>8

LEMMA ReadRestKeeps ==
  ASSUME Tight, readRest
  PROVE  Counters' /\ HandedOn' /\ WriterOk' /\ ReaderOk'
<1> DEFINE F == FirstPart(tail, take)
<1> DEFINE R == take - F
<1>0. /\ UNCHANGED <<head, tail, ring, wpc, whead, wtail, wlen, sent, last, gap, again, moved, rtail, take>>
      /\ rpc = "rest" /\ Copy(0, take - FirstPart(rtail, take)) /\ rpc' = "tail"
  BY DEF readRest, shared, writer
<1>1. Counters' /\ HandedOn' /\ WriterOk'
  BY <1>0 DEF Tight, Counters, HandedOn, WriterOk, Holds, Off, FirstPart
<1>2. /\ rtail = tail /\ tail \in Nat /\ head \in Nat /\ take \in Nat /\ 1 <= take
      /\ tail + take <= head /\ head <= tail + kIpcRingCap /\ Holds(tail, head)
      /\ rbuf \in Seq(Nat) /\ Len(rbuf) = F /\ (\A i \in 1..F : rbuf[i] = tail + i) /\ F < take
  BY <1>0 DEF Tight, Counters, ReaderOk, Copied
<1>3. take <= kIpcRingCap
  BY <1>2, Cap
<1>4. /\ F \in Nat /\ 1 <= F /\ F <= take
      /\ \A j \in Nat : F <= j /\ j < take => Off(tail + j) = j - F
  BY <1>2, <1>3, PartFacts
<1>5. Copy(0, R)
  BY <1>0, <1>2
<1> HIDE DEF F
<1>6. R \in Nat /\ F + R = take
  BY <1>2, <1>4
<1>7. \A i \in 1..R : ring[0 + i - 1] = tail + F + i
  <2> SUFFICES ASSUME NEW i \in 1..R PROVE ring[0 + i - 1] = tail + F + i
    OBVIOUS
  <2>1. PICK j \in Nat : j = F + i - 1 /\ F <= j /\ j < take
    <3>1. F + i - 1 \in Nat /\ F <= F + i - 1 /\ F + i - 1 < take
      BY <1>2, <1>4, <1>6
    <3> QED  BY <3>1
  <2>2. tail + j \in Nat /\ tail <= tail + j /\ tail + j < head /\ (tail + j) + 1 = tail + F + i
    BY <1>2, <1>4, <2>1
  <2>3. Off(tail + j) = 0 + i - 1
    <3>1. j - F = 0 + i - 1
      BY <1>4, <2>1
    <3> QED  BY <1>4, <2>1, <3>1
  <2> QED  BY <1>2, <2>2, <2>3 DEF Holds
<1> HIDE DEF R
<1>8. rbuf' \in Seq(Nat) /\ Len(rbuf') = F + R /\ \A i \in 1..F + R : rbuf'[i] = tail + i
  <2>1. 0 \in Nat /\ R \in Nat /\ F \in Nat /\ tail \in Nat
    BY <1>2, <1>4, <1>6
  <2>2. rbuf \in Seq(Nat) /\ Len(rbuf) = F /\ \A i \in 1..F : rbuf[i] = tail + i
    BY <1>2
  <2> QED  BY <1>5, <1>7, <2>1, <2>2, CopyEffect
<1>9. ReaderOk'
  BY <1>0, <1>2, <1>6, <1>8 DEF ReaderOk, Copied
<1> QED  BY <1>1, <1>9

LEMMA ReadTailKeeps ==
  ASSUME Tight, readTail
  PROVE  Counters' /\ HandedOn' /\ WriterOk' /\ ReaderOk'
<1>0. /\ UNCHANGED <<head, ring, wpc, whead, wtail, wlen, sent, moved>>
      /\ rpc = "tail" /\ rpc' = "idle" /\ tail' = Add(rtail, take) /\ HandOn(rbuf)
  BY DEF readTail, writer
<1>1. /\ rtail = tail /\ sent \in Nat /\ head = sent /\ sent < CounterMod /\ tail \in Nat
      /\ last \in Nat /\ last <= tail /\ again = FALSE /\ (~moved => last = tail /\ gap = FALSE)
      /\ take \in Nat /\ 1 <= take
      /\ tail + take <= head /\ head <= tail + kIpcRingCap /\ Holds(tail, head)
      /\ rbuf \in Seq(Nat) /\ Len(rbuf) = take /\ \A i \in 1..take : rbuf[i] = tail + i
  BY <1>0 DEF Tight, Counters, HandedOn, ReaderOk, Copied
<1>2. tail' = tail + take
  <2>1. tail + take < CounterMod
    BY <1>1, Cap
  <2> QED  BY <1>0, <1>1, <2>1, AddExact
<1>3. last' = tail'
  <2>1. last' = rbuf[take]
    BY <1>0, <1>1 DEF HandOn
  <2>2. take \in 1..take
    BY <1>1
  <2> QED  BY <1>1, <1>2, <2>1, <2>2
<1>4. ~moved => gap' = FALSE
  <2>0. SUFFICES ASSUME ~moved PROVE gap' = FALSE
    OBVIOUS
  <2>1. \A i \in 1..take : rbuf[i] = (IF i = 1 THEN last ELSE rbuf[i - 1]) + 1
    <3> SUFFICES ASSUME NEW i \in 1..take PROVE rbuf[i] = (IF i = 1 THEN last ELSE rbuf[i - 1]) + 1
      OBVIOUS
    <3>1. CASE i = 1
      BY <1>1, <2>0, <3>1
    <3>2. CASE i # 1
      <4>1. i - 1 \in 1..take /\ tail + i = (tail + (i - 1)) + 1
        BY <1>1, <3>2
      <4> QED  BY <1>1, <3>2, <4>1
    <3> QED  BY <3>1, <3>2
  <2>2. gap' = (gap \/ \E i \in 1..take : rbuf[i] # (IF i = 1 THEN last ELSE rbuf[i - 1]) + 1)
    BY <1>0, <1>1 DEF HandOn
  <2> QED  BY <1>1, <2>0, <2>1, <2>2, Zenon
<1>5. again' = FALSE
  <2>1. \A i \in 1..take : ~(rbuf[i] <= (IF i = 1 THEN last ELSE rbuf[i - 1]))
    <3> SUFFICES ASSUME NEW i \in 1..take PROVE ~(rbuf[i] <= (IF i = 1 THEN last ELSE rbuf[i - 1]))
      OBVIOUS
    <3>1. CASE i = 1
      BY <1>1, <3>1
    <3>2. CASE i # 1
      <4>1. i - 1 \in 1..take /\ ~(tail + i <= tail + (i - 1))
        BY <1>1, <3>2
      <4> QED  BY <1>1, <3>2, <4>1
    <3> QED  BY <3>1, <3>2
  <2>2. again' = (again \/ \E i \in 1..take : rbuf[i] <= (IF i = 1 THEN last ELSE rbuf[i - 1]))
    BY <1>0, <1>1 DEF HandOn
  <2> QED  BY <1>1, <2>1, <2>2, Zenon
<1>6. Holds(tail, head)'
  <2> SUFFICES ASSUME NEW k \in Nat, tail + take <= k, k < head PROVE ring[Off(k)] = k + 1
    BY <1>0, <1>2 DEF Holds, Off
  <2>1. tail <= k
    BY <1>1
  <2> QED  BY <1>1, <2>1 DEF Holds
<1>7. Counters' /\ HandedOn'
  <2>1. tail' \in Nat /\ tail' <= head /\ head <= tail' + kIpcRingCap
    BY <1>1, <1>2, Cap
  <2>2. HandedOn'
    BY <1>0, <1>3, <1>4, <1>5, <2>1 DEF HandedOn
  <2> QED  BY <1>0, <1>1, <1>6, <2>1, <2>2 DEF Counters
<1>8. WriterOk'
  <2>1. wpc \in {"first", "rest", "head"} => head + wlen <= tail' + kIpcRingCap
    <3>1. wpc \in {"first", "rest", "head"} => head + wlen <= tail + kIpcRingCap
      BY DEF Tight, WriterOk
    <3>2. wlen \in Nat
      BY DEF Tight
    <3> QED  BY <1>1, <1>2, <3>1, <3>2, Cap
  <2> QED  BY <1>0, <2>1 DEF Tight, WriterOk, Holds, Off, FirstPart
<1>9. ReaderOk'
  BY <1>0 DEF ReaderOk
<1> QED  BY <1>7, <1>8, <1>9

(* A race once seen stays so, and a head once round too.                   *)
LEMMA RingStep == RingInv /\ [Next]_vars => RingInv'
<1> SUFFICES ASSUME RingInv, [Next]_vars PROVE RingInv'
  OBVIOUS
<1>1. sent \in Nat /\ wlen \in Nat
  BY DEF RingInv
<1>2. sent' \in Nat /\ wlen' \in Nat /\ sent <= sent'
  <2>1. CASE writeBegin
    <3>1. PICK n \in Lens : wlen' = n
      BY <2>1 DEF writeBegin
    <3> QED  BY <1>1, <2>1, <3>1, Cap DEF writeBegin
  <2>2. CASE writeHead
    BY <1>1, <2>2 DEF writeHead
  <2>3. CASE writeTail \/ writeFirst \/ writeRest \/ Read \/ UNCHANGED vars
    BY <1>1, <2>3 DEF writeTail, writeFirst, writeRest, Read, readBegin, readDrop, readDropTail, readFirst, readRest,
       readTail, vars, writer
  <2> QED  BY <2>1, <2>2, <2>3 DEF Next, WriteOn
<1>3. raced' => moved'
  <2>1. raced => moved
    BY DEF RingInv
  <2>2. CASE writeTail
    BY <2>2 DEF writeTail
  <2>3. CASE readDropTail
    BY <2>3 DEF readDropTail
  <2>4. CASE UNCHANGED <<moved, raced>>
    BY <2>1, <2>4
  <2> QED  BY <2>2, <2>3, <2>4 DEF Next, WriteOn, Read, writeBegin, writeFirst, writeRest, writeHead,
              readBegin, readDrop, readFirst, readRest, readTail, vars
<1>4. SUFFICES ASSUME ~raced', sent' < CounterMod PROVE (Counters /\ HandedOn /\ WriterOk /\ ReaderOk)'
  BY <1>2, <1>3 DEF RingInv, FirstRound
<1>5. ~raced
  BY <1>4 DEF Next, WriteOn, Read, writeBegin, writeTail, writeFirst, writeRest, writeHead, readBegin,
     readDrop, readDropTail, readFirst, readRest, readTail, vars
<1>6. sent < CounterMod
  BY <1>1, <1>2, <1>4, Cap
<1>7. Tight
  BY <1>1, <1>5, <1>6 DEF RingInv, FirstRound, Tight
<1>8. ~readDrop /\ ~readDropTail
  <2>1. ~readDrop
    BY <1>7, SubExact, Cap DEF readDrop
  <2>2. ~readDropTail
    BY <1>7 DEF readDropTail, Tight, ReaderOk
  <2> QED  BY <2>1, <2>2
<1>9. CASE writeBegin \/ writeTail \/ writeFirst \/ writeRest \/ writeHead
  BY <1>4, <1>7, <1>9, WriteBeginKeeps, WriteTailKeeps, WriteFirstKeeps, WriteRestKeeps, WriteHeadKeeps
<1>10. CASE readBegin \/ readFirst \/ readRest \/ readTail
  BY <1>7, <1>10, ReadBeginKeeps, ReadFirstKeeps, ReadRestKeeps, ReadTailKeeps
<1>11. CASE UNCHANGED vars
  BY <1>7, <1>11 DEF Tight, Counters, HandedOn, WriterOk, ReaderOk, Copied, Holds, Off, FirstPart, vars, shared,
     writer, reader
<1> QED  BY <1>8, <1>9, <1>10, <1>11 DEF Next, WriteOn, Read

(* Fifo for every capacity, counter width, buffer and length: as long as   *)
(* writeAll gives up nothing, readByte hands on exactly the bytes written, *)
(* in order, although neither side ever waits for the other.               *)
THEOREM RingIsFifo == Spec => []Fifo
<1>1. RingInv => Fifo
  BY DEF RingInv, HandedOn, Fifo
<1> QED  BY RingInit, RingStep, <1>1, PTL DEF Spec

(* The same when writeAll gives up the oldest bytes, as long as no read    *)
(* overlaps with its look at the tail and the move: readByte loses bytes   *)
(* and hands on none twice, out of order or from an older round.           *)
THEOREM RingOnlyLoses == Spec => []OnlyLosesOldest
<1>1. RingInv => OnlyLosesOldest
  BY DEF RingInv, HandedOn, OnlyLosesOldest
<1> QED  BY RingInit, RingStep, <1>1, PTL DEF Spec

----------------------------------------------------------------------------
(* Types, whatever was moved, raced or wrapped: a read under way has taken *)
(* no more than the buffer holds, and both its parts lie in the ring.      *)

WriterTypes ==
  /\ wpc \in {"idle", "tail", "first", "rest", "head"}
  /\ whead \in Counter /\ wtail \in Counter /\ wlen \in 0..kIpcRingCap /\ sent \in Nat
  /\ wpc # "idle" => 1 <= wlen

ReaderTypes ==
  /\ rpc \in {"idle", "drop", "first", "rest", "tail"}
  /\ rtail \in Counter /\ take \in 0..kIpcRingCap
  /\ rbuf \in Seq(Nat) /\ Len(rbuf) <= RxBufSize /\ last \in Nat
  /\ rpc \in {"first", "rest", "tail"} => 1 <= take /\ take <= RxBufSize
  /\ rpc = "first" => rbuf = <<>>
  /\ rpc = "rest" => Len(rbuf) = FirstPart(rtail, take) /\ FirstPart(rtail, take) < take
  /\ rpc = "tail" => Len(rbuf) = take

SharedTypes == head \in Counter /\ tail \in Counter /\ ring \in [0..kIpcRingCap - 1 -> Nat]

Flags == gap \in BOOLEAN /\ again \in BOOLEAN /\ moved \in BOOLEAN /\ raced \in BOOLEAN

LEMMA Width ==
  ASSUME NEW a \in Int, NEW b \in Int
  PROVE  Sub(a, b) \in Counter /\ Add(a, b) \in Counter
<1>1. \A k \in Int, c \in Nat \ {0} : k % c \in 0..c - 1
  OBVIOUS
<1>2. CounterMod \in Nat \ {0} /\ a - b \in Int /\ a + b \in Int
  BY Cap
<1> QED  BY <1>1, <1>2 DEF Sub, Add, Counter

(* Two counters that differ are a positive distance apart.                 *)
LEMMA SubPositive ==
  ASSUME NEW a \in Counter, NEW b \in Counter, a # b
  PROVE  Sub(a, b) \in Nat /\ Sub(a, b) # 0
<1>1. a \in Nat /\ a < CounterMod /\ b \in Nat /\ b < CounterMod /\ CounterMod \in Nat \ {0}
  BY Cap DEF Counter
<1>2. \A x, y, c \in Nat : c # 0 /\ x < c /\ y < c /\ x # y => (x - y) % c # 0
  OBVIOUS
<1>3. Sub(a, b) \in Nat
  BY <1>1, Width, Cap DEF Counter
<1> QED  BY <1>1, <1>2, <1>3 DEF Sub

(* A copy of n bytes of the ring lengthens the buffer by n.                *)
LEMMA CopyTypes ==
  ASSUME NEW o \in Nat, NEW n \in Nat, o + n <= kIpcRingCap, ring \in [0..kIpcRingCap - 1 -> Nat],
         rbuf \in Seq(Nat), Copy(o, n)
  PROVE  rbuf' \in Seq(Nat) /\ Len(rbuf') = Len(rbuf) + n
<1> DEFINE new == [i \in 1..n |-> ring[o + i - 1]]
<1>1. new \in [1..n -> Nat]
  <2> SUFFICES ASSUME NEW i \in 1..n PROVE ring[o + i - 1] \in Nat
    OBVIOUS
  <2>1. o + i - 1 \in 0..kIpcRingCap - 1
    BY Cap
  <2> QED  BY <2>1
<1>2. rbuf' = rbuf \o new
  BY DEF Copy
<1> HIDE DEF new
<1>3. new \in Seq(Nat)
  BY <1>1, SeqDef
<1>4. Len(new) = n
  BY <1>1, <1>3, LenProperties
<1>5. rbuf \o new \in Seq(Nat) /\ Len(rbuf \o new) = Len(rbuf) + Len(new)
  BY <1>3, ConcatProperties
<1> QED  BY <1>2, <1>4, <1>5

LEMMA PutTypes ==
  ASSUME NEW o \in Nat, NEW m \in Nat, NEW n \in Nat, sent \in Nat,
         ring \in [0..kIpcRingCap - 1 -> Nat], Put(o, m, n)
  PROVE  ring' \in [0..kIpcRingCap - 1 -> Nat]
<1>1. ASSUME NEW i \in 0..kIpcRingCap - 1
      PROVE  (IF o <= i /\ i <= o + n - m THEN sent + m + (i - o) ELSE ring[i]) \in Nat
  <2>1. ring[i] \in Nat /\ i \in Nat
    BY Cap
  <2>2. o <= i => sent + m + (i - o) \in Nat
    BY <2>1
  <2> QED  BY <2>1, <2>2
<1> QED  BY <1>1 DEF Put

LEMMA TypesInit == Init => SharedTypes /\ WriterTypes /\ ReaderTypes /\ Flags
<1> SUFFICES ASSUME Init PROVE SharedTypes /\ WriterTypes /\ ReaderTypes /\ Flags
  OBVIOUS
<1>1. 0 \in Counter
  BY Cap DEF Counter
<1>2. SharedTypes
  BY <1>1 DEF Init, SharedTypes
<1>3. WriterTypes /\ Flags
  <2>1. WriterTypes
    BY <1>1, Cap DEF Init, WriterTypes
  <2>2. Flags
    BY Zenon DEF Init, Flags
  <2> QED  BY <2>1, <2>2
<1>4. ReaderTypes
  BY <1>1, Cap DEF Init, ReaderTypes
<1> QED  BY <1>2, <1>3, <1>4

LEMMA WriterTypesStep ==
  ASSUME SharedTypes, WriterTypes, ReaderTypes, Flags, writeBegin \/ WriteOn
  PROVE  SharedTypes' /\ WriterTypes' /\ ReaderTypes' /\ Flags'
<1>0. ReaderTypes' /\ gap' \in BOOLEAN /\ again' \in BOOLEAN
  <2>1. UNCHANGED <<rpc, rtail, rbuf, take, last, gap, again>>
    BY DEF WriteOn, writeBegin, writeTail, writeFirst, writeRest, writeHead, reader
  <2>2. ReaderTypes'
    BY <2>1 DEF ReaderTypes, FirstPart, Off
  <2> QED  BY <2>1, <2>2 DEF Flags
<1>1. /\ head \in Nat /\ tail \in Nat /\ whead \in Nat /\ wlen \in Nat /\ wlen <= kIpcRingCap /\ sent \in Nat
      /\ 0 \in Counter
  BY Cap DEF SharedTypes, WriterTypes, Counter
<1>2. wpc # "idle" => /\ FirstPart(whead, wlen) \in Nat /\ Off(whead) \in Nat
                      /\ FirstPart(whead, wlen) <= wlen
  BY <1>1, PartFacts, OffFacts DEF WriterTypes
<1>3. CASE writeBegin
  <2>1. PICK n \in Lens : wlen' = n /\ wpc' = IF HasRoom(n) THEN "first" ELSE "tail"
    BY <1>3 DEF writeBegin
  <2>2. n \in 0..kIpcRingCap /\ 1 <= n
    BY Cap
  <2>3. UNCHANGED <<head, tail, ring, sent, moved, raced>> /\ whead' = head /\ wtail' = tail
    BY <1>3 DEF writeBegin, shared
  <2>4. WriterTypes'
    BY <2>1, <2>2, <2>3 DEF WriterTypes, SharedTypes
  <2> QED  BY <1>0, <2>3, <2>4 DEF SharedTypes, Flags
<1>4. CASE writeTail
  <2>1. /\ UNCHANGED <<head, ring, whead, wtail, wlen, sent>> /\ wpc = "tail" /\ wpc' = "first"
        /\ tail' = Sub(whead, kIpcRingCap - wlen) /\ moved' = TRUE
    BY <1>4 DEF writeTail
  <2>2. raced' \in BOOLEAN
    BY <1>4 DEF writeTail
  <2>3. tail' \in Counter
    <3>1. whead \in Int /\ kIpcRingCap - wlen \in Int
      BY <1>1, Cap
    <3> QED  BY <2>1, <3>1, Width
  <2>4. WriterTypes'
    BY <2>1 DEF WriterTypes
  <2> QED  BY <1>0, <2>1, <2>2, <2>3, <2>4 DEF SharedTypes, Flags
<1>5. CASE writeFirst \/ writeRest
  <2>1. UNCHANGED <<head, tail, whead, wtail, wlen, sent, moved, raced>> /\ wpc # "idle" /\ wpc' \in {"rest", "head"}
    BY <1>5 DEF writeFirst, writeRest
  <2>2. ring' \in [0..kIpcRingCap - 1 -> Nat]
    <3>0. ring \in [0..kIpcRingCap - 1 -> Nat]
      BY DEF SharedTypes
    <3>1. CASE writeFirst
      <4>1. Put(Off(whead), 1, FirstPart(whead, wlen)) /\ 1 \in Nat
        BY <3>1 DEF writeFirst
      <4> QED  BY <1>1, <1>2, <2>1, <3>0, <4>1, PutTypes
    <3>2. CASE writeRest
      <4>1. PICK m \in Nat : m = FirstPart(whead, wlen) + 1
        BY <1>2, <2>1
      <4>2. Put(0, m, wlen) /\ 0 \in Nat
        BY <3>2, <4>1 DEF writeRest
      <4> QED  BY <1>1, <3>0, <4>2, PutTypes
    <3> QED  BY <1>5, <3>1, <3>2
  <2>3. WriterTypes'
    BY <2>1 DEF WriterTypes
  <2> QED  BY <1>0, <2>1, <2>2, <2>3 DEF SharedTypes, Flags
<1>6. CASE writeHead
  <2>1. /\ UNCHANGED <<tail, ring, moved, raced>> /\ head' = Add(whead, wlen) /\ sent' = sent + wlen
        /\ wpc' = "idle" /\ whead' = 0 /\ wtail' = 0 /\ wlen' = 0
    BY <1>6 DEF writeHead
  <2>2. head' \in Counter
    <3>1. whead \in Int /\ wlen \in Int
      BY <1>1
    <3> QED  BY <2>1, <3>1, Width
  <2>3. WriterTypes'
    BY <1>1, <2>1, Cap DEF WriterTypes
  <2> QED  BY <1>0, <2>1, <2>2, <2>3 DEF SharedTypes, Flags
<1> QED  BY <1>3, <1>4, <1>5, <1>6 DEF WriteOn

LEMMA ReaderTypesStep ==
  ASSUME SharedTypes, WriterTypes, ReaderTypes, Flags, Read
  PROVE  SharedTypes' /\ WriterTypes' /\ ReaderTypes' /\ Flags'
<1>0. WriterTypes' /\ head' = head /\ ring' = ring /\ raced' = raced
  <2>1. UNCHANGED <<head, ring, raced, writer>>
    BY DEF Read, readBegin, readDrop, readDropTail, readFirst, readRest, readTail, shared
  <2> QED  BY <2>1 DEF WriterTypes, writer
<1>1. /\ head \in Nat /\ tail \in Nat /\ rtail \in Nat /\ take \in Nat /\ take <= kIpcRingCap
      /\ 0 \in Counter /\ ring \in [0..kIpcRingCap - 1 -> Nat] /\ rbuf \in Seq(Nat) /\ Len(rbuf) \in Nat
  BY Cap DEF SharedTypes, ReaderTypes, Counter
<1> DEFINE F == FirstPart(rtail, take)
<1>2. rpc \in {"first", "rest", "tail"} =>
        /\ F \in Nat /\ Off(rtail) \in Nat /\ F <= take /\ Off(rtail) + F <= kIpcRingCap
  BY <1>1, PartFacts, OffFacts DEF ReaderTypes
<1>3. CASE readBegin
  <2>1. /\ UNCHANGED <<tail, last, gap, again, moved>> /\ head # tail /\ Sub(head, tail) <= kIpcRingCap
        /\ take' = IF Sub(head, tail) < RxBufSize THEN Sub(head, tail) ELSE RxBufSize
        /\ rtail' = tail /\ rbuf' = <<>> /\ rpc' = "first"
    BY <1>3 DEF readBegin, shared
  <2>2. PICK d \in Nat : d = Sub(head, tail) /\ d # 0
    BY <1>1, <2>1, SubPositive DEF SharedTypes
  <2>3. take' \in 0..kIpcRingCap /\ 1 <= take' /\ take' <= RxBufSize
    <3>1. d <= kIpcRingCap /\ take' = IF d < RxBufSize THEN d ELSE RxBufSize
      BY <2>1, <2>2
    <3> QED  BY <2>2, <3>1, Cap
  <2>4. ReaderTypes'
    <3>1. <<>> \in Seq(Nat) /\ Len(<<>>) <= RxBufSize
      BY Cap
    <3> QED  BY <2>1, <2>3, <3>1 DEF ReaderTypes, SharedTypes
  <2> QED  BY <1>0, <2>1, <2>4 DEF SharedTypes, Flags
<1>4. CASE readDrop
  <2>1. rtail' = head /\ rpc' = "drop" /\ UNCHANGED <<tail, rbuf, take, last, gap, again, moved>>
    BY <1>4 DEF readDrop, shared
  <2>2. ReaderTypes'
    BY <2>1 DEF ReaderTypes, SharedTypes
  <2> QED  BY <1>0, <2>1, <2>2 DEF SharedTypes, Flags
<1>9. CASE readDropTail
  <2>1. /\ tail' = rtail /\ moved' = TRUE /\ rpc' = "idle" /\ rtail' = 0
        /\ UNCHANGED <<rbuf, take, last, gap, again>>
    BY <1>9 DEF readDropTail
  <2>2. ReaderTypes'
    BY <1>1, <2>1 DEF ReaderTypes
  <2> QED  BY <1>0, <2>1, <2>2 DEF SharedTypes, ReaderTypes, Flags
<1>5. CASE readFirst
  <2>1. /\ UNCHANGED <<tail, rtail, take, last, gap, again, moved>> /\ rpc = "first" /\ Copy(Off(rtail), F)
        /\ rpc' = IF take > F THEN "rest" ELSE "tail"
    BY <1>5 DEF readFirst, shared
  <2>2. F' = F
    BY <2>1 DEF FirstPart, Off
  <2>3. rbuf = <<>> /\ 1 <= take /\ take <= RxBufSize /\ rtail \in Counter /\ take \in 0..kIpcRingCap /\ last \in Nat
    BY <2>1 DEF ReaderTypes
  <2>4. F \in Nat /\ Off(rtail) \in Nat /\ F <= take /\ Off(rtail) + F <= kIpcRingCap
    BY <1>2, <2>1
  <2> HIDE DEF F
  <2>5. rbuf' \in Seq(Nat) /\ Len(rbuf') = Len(rbuf) + F
    BY <1>1, <2>1, <2>4, CopyTypes
  <2>6. Len(rbuf') = F /\ F <= RxBufSize
    BY <2>3, <2>4, <2>5, Cap
  <2>7. ReaderTypes'
    <3>1. CASE F < take
      <4>1. rpc' = "rest"
        BY <1>1, <2>1, <2>4, <3>1
      <4>2. FirstPart(rtail, take)' = F
        BY <2>2 DEF F
      <4> QED  BY <2>1, <2>3, <2>5, <2>6, <3>1, <4>1, <4>2 DEF ReaderTypes
    <3>2. CASE F = take
      <4>1. rpc' = "tail"
        BY <1>1, <2>1, <2>4, <3>2
      <4> QED  BY <2>1, <2>3, <2>5, <2>6, <3>2, <4>1 DEF ReaderTypes
    <3> QED  BY <1>1, <2>4, <3>1, <3>2
  <2> QED  BY <1>0, <2>1, <2>7 DEF SharedTypes, Flags
<1>6. CASE readRest
  <2>1. /\ UNCHANGED <<tail, rtail, take, last, gap, again, moved>> /\ rpc = "rest" /\ Copy(0, take - F)
        /\ rpc' = "tail"
    BY <1>6 DEF readRest, shared
  <2>2. /\ Len(rbuf) = F /\ F < take /\ 1 <= take /\ take <= RxBufSize /\ rtail \in Counter
        /\ take \in 0..kIpcRingCap /\ last \in Nat
    BY <2>1 DEF ReaderTypes
  <2>3. F \in Nat
    BY <1>2, <2>1
  <2> HIDE DEF F
  <2>4. PICK n \in Nat : n = take - F /\ 0 + n <= kIpcRingCap /\ F + n = take
    <3>1. take - F \in Nat /\ 0 + (take - F) <= kIpcRingCap /\ F + (take - F) = take
      BY <1>1, <2>2, <2>3, Cap
    <3> QED  BY <3>1
  <2>5. rbuf' \in Seq(Nat) /\ Len(rbuf') = Len(rbuf) + n
    <3>1. Copy(0, n) /\ 0 \in Nat
      BY <2>1, <2>4
    <3> QED  BY <1>1, <2>4, <3>1, CopyTypes
  <2>6. Len(rbuf') = take
    BY <2>2, <2>4, <2>5
  <2>7. ReaderTypes'
    BY <2>1, <2>2, <2>5, <2>6 DEF ReaderTypes
  <2> QED  BY <1>0, <2>1, <2>7 DEF SharedTypes, Flags
<1>7. CASE readTail
  <2>1. /\ tail' = Add(rtail, take) /\ HandOn(rbuf) /\ moved' = moved /\ rpc = "tail"
        /\ rpc' = "idle" /\ rtail' = 0 /\ rbuf' = <<>> /\ take' = 0
    BY <1>7 DEF readTail
  <2>2. tail' \in Counter
    BY <1>1, <2>1, Width
  <2>3. last' \in Nat
    <3>1. Len(rbuf) = take /\ 1 <= take
      BY <2>1 DEF ReaderTypes
    <3>2. Len(rbuf) \in 1..Len(rbuf)
      BY <1>1, <3>1
    <3>3. rbuf[Len(rbuf)] \in Nat
      BY <1>1, <3>2, ElementOfSeq
    <3> QED  BY <2>1, <3>3 DEF HandOn
  <2>4. gap' \in BOOLEAN /\ again' \in BOOLEAN
    BY <2>1 DEF HandOn
  <2>5. ReaderTypes'
    <3>1. <<>> \in Seq(Nat) /\ Len(<<>>) <= RxBufSize
      BY Cap
    <3> QED  BY <1>1, <2>1, <2>3, <3>1, Cap DEF ReaderTypes
  <2> QED  BY <1>0, <2>1, <2>2, <2>4, <2>5 DEF SharedTypes, Flags
<1> QED  BY <1>3, <1>4, <1>5, <1>6, <1>7, <1>9 DEF Read

(* Counters stay in their width and reads and writes inside the ring and   *)
(* the buffer, also when writer and reader race for the tail (writeAll,    *)
(* readByte).                                                              *)
THEOREM RingTypes == Spec => []TypeOK
<1> DEFINE Inv == SharedTypes /\ WriterTypes /\ ReaderTypes /\ Flags
<1>1. Init => Inv
  BY TypesInit
<1>2. Inv /\ [Next]_vars => Inv'
  <2> SUFFICES ASSUME Inv, [Next]_vars PROVE Inv'
    OBVIOUS
  <2>1. CASE UNCHANGED vars
    BY <2>1 DEF vars, shared, writer, reader, SharedTypes, WriterTypes, ReaderTypes, Flags, FirstPart, Off
  <2> QED  BY <2>1, WriterTypesStep, ReaderTypesStep DEF Next
<1>3. Inv => TypeOK
  BY DEF SharedTypes, WriterTypes, ReaderTypes, Flags, TypeOK
<1> QED  BY <1>1, <1>2, <1>3, PTL DEF Spec
=============================================================================
