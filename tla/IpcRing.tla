------------------------------ MODULE IpcRing ------------------------------
(***************************************************************************)
(* One ring of the shared-memory transport (service/src/serial_server.cpp, *)
(* ipc://).  The file holds two rings, R2V from the service to the         *)
(* validator and V2R back, each with a head and a tail counter and 65520   *)
(* bytes.  The repository has the writer of R2V (writeAll) and the reader  *)
(* of V2R (readByte); the other ends are in the validator.  This module    *)
(* puts the two ends of the repository at one ring, as two processes: the  *)
(* validator is taken to mirror the service.                               *)
(*                                                                         *)
(* Every file access is a step of its own.  A byte is its position in the  *)
(* stream the writer was given, so that what the reader hands on can be    *)
(* compared with it.                                                       *)
(***************************************************************************)
EXTENDS Integers, Sequences

CONSTANTS
  kIpcRingCap, \* ring capacity (65520 in the code)
  CounterMod,  \* head and tail count modulo this (2^32 in the code)
  RxBufSize,   \* sizeof(ipc_rx_buf_) (4096 in the code)
  Lens,        \* lengths of the writes
  MaxSent      \* bound: bytes written in a behaviour

ASSUME RingAssumption ==
  /\ kIpcRingCap \in Nat \ {0} /\ CounterMod \in Nat /\ CounterMod > kIpcRingCap
  /\ RxBufSize \in Nat \ {0} /\ Lens \subseteq 1..kIpcRingCap /\ MaxSent \in Nat

VARIABLES
  head, tail, \* the counters in the file
  ring,       \* the bytes in the file
  wpc,        \* writer: the file access it does next
  whead,      \* writer: its copy of head
  wtail,      \* writer: its copy of tail
  wlen,       \* writer: bytes of this write
  rpc,        \* reader: the file access it does next
  rtail,      \* reader: its copy of tail
  rbuf,       \* reader: bytes copied in this read (ipc_rx_buf_)
  take,       \* reader: bytes of this read
  sent,       \* history: bytes written
  last,       \* history: the latest byte handed on
  gap,        \* history: a byte was handed on that does not follow the one before
  again,      \* history: a byte was handed on that is not later than the one before
  moved,      \* history: the writer moved the tail, or bytes were dropped
  raced       \* history: it did so in the middle of a read, or a read came
              \* between its look at the tail and the move

shared == <<head, tail, ring>>
writer == <<wpc, whead, wtail, wlen, sent>>
reader == <<rpc, rtail, rbuf, take, last, gap, again>>
vars == <<shared, writer, reader, moved, raced>>

Sub(a, b) == (a - b) % CounterMod
Add(a, b) == (a + b) % CounterMod
Off(c) == c % kIpcRingCap
FirstPart(c, n) == IF Off(c) + n <= kIpcRingCap THEN n ELSE kIpcRingCap - Off(c)

----------------------------------------------------------------------------
(* writeAll.                                                               *)

(* used, after the correction of a reader's tail that makes no sense; the  *)
(* correction stays in the writer's copy of the header.                    *)
Used == IF Sub(head, tail) > kIpcRingCap THEN 0 ELSE Sub(head, tail)

(* Mutant: the test for room is off by one.                                *)
HasRoomOffByOne(n) == Used + n <= kIpcRingCap + 1

HasRoom(n) == Used + n <= kIpcRingCap

writeBegin ==
  /\ wpc = "idle"
  /\ \E n \in Lens :
       /\ sent + n <= MaxSent
       /\ wlen' = n
       /\ wpc' = IF HasRoom(n) THEN "first" ELSE "tail"
  /\ whead' = head /\ wtail' = tail
  /\ UNCHANGED <<shared, reader, sent, moved, raced>>

(* No room: the oldest bytes are given up by moving the reader's tail.     *)
writeTail ==
  /\ wpc = "tail"
  /\ tail' = Sub(whead, kIpcRingCap - wlen)
  /\ wpc' = "first"
  /\ moved' = TRUE /\ raced' = (raced \/ rpc # "idle" \/ tail # wtail)
  /\ UNCHANGED <<head, ring, whead, wtail, wlen, sent, reader>>

(* The bytes from the m-th to the n-th of this write, from offset o on.    *)
Put(o, m, n) ==
  ring' = [i \in 0..kIpcRingCap - 1 |->
             IF o <= i /\ i <= o + n - m THEN sent + m + (i - o) ELSE ring[i]]

writeFirst ==
  /\ wpc = "first"
  /\ Put(Off(whead), 1, FirstPart(whead, wlen))
  /\ wpc' = IF wlen > FirstPart(whead, wlen) THEN "rest" ELSE "head"
  /\ UNCHANGED <<head, tail, whead, wtail, wlen, sent, reader, moved, raced>>

(* Mutant: the part behind the wrap goes on where the first one ended.     *)
writeRestNoWrap ==
  /\ wpc = "rest"
  /\ Put(Off(whead), FirstPart(whead, wlen) + 1, wlen)
  /\ wpc' = "head"
  /\ UNCHANGED <<head, tail, whead, wtail, wlen, sent, reader, moved, raced>>

writeRest ==
  /\ wpc = "rest"
  /\ Put(0, FirstPart(whead, wlen) + 1, wlen)
  /\ wpc' = "head"
  /\ UNCHANGED <<head, tail, whead, wtail, wlen, sent, reader, moved, raced>>

writeHead ==
  /\ wpc = "head"
  /\ head' = Add(whead, wlen)
  /\ sent' = sent + wlen
  /\ wpc' = "idle" /\ whead' = 0 /\ wtail' = 0 /\ wlen' = 0
  /\ UNCHANGED <<tail, ring, reader, moved, raced>>

----------------------------------------------------------------------------
(* readByte, when its buffer is used up.                                   *)

(* Mutant: the size of the buffer is not looked at.                        *)
readBeginAll ==
  /\ rpc = "idle" /\ head # tail
  /\ Sub(head, tail) <= kIpcRingCap
  /\ take' = Sub(head, tail)
  /\ rtail' = tail
  /\ rbuf' = <<>>
  /\ rpc' = "first"
  /\ UNCHANGED <<shared, writer, last, gap, again, moved, raced>>

(* Mutant: a full ring is not read.                                        *)
readBeginNotFull ==
  /\ rpc = "idle" /\ head # tail
  /\ Sub(head, tail) < kIpcRingCap
  /\ take' = IF Sub(head, tail) < RxBufSize THEN Sub(head, tail) ELSE RxBufSize
  /\ rtail' = tail
  /\ rbuf' = <<>>
  /\ rpc' = "first"
  /\ UNCHANGED <<shared, writer, last, gap, again, moved, raced>>

readBegin ==
  /\ rpc = "idle" /\ head # tail
  /\ Sub(head, tail) <= kIpcRingCap
  /\ take' = IF Sub(head, tail) < RxBufSize THEN Sub(head, tail) ELSE RxBufSize
  /\ rtail' = tail
  /\ rbuf' = <<>>
  /\ rpc' = "first"
  /\ UNCHANGED <<shared, writer, last, gap, again, moved, raced>>

(* Mutant: counters that make no sense are left as they are.               *)
readDropNothing ==
  /\ rpc = "idle" /\ head # tail
  /\ Sub(head, tail) > kIpcRingCap
  /\ UNCHANGED vars

(* Head and tail make no sense: drop everything, up to the head just read. *)
readDrop ==
  /\ rpc = "idle" /\ head # tail
  /\ Sub(head, tail) > kIpcRingCap
  /\ rtail' = head
  /\ rpc' = "drop"
  /\ UNCHANGED <<shared, writer, rbuf, take, last, gap, again, moved, raced>>

readDropTail ==
  /\ rpc = "drop"
  /\ tail' = rtail
  /\ moved' = TRUE
  /\ rpc' = "idle" /\ rtail' = 0
  /\ UNCHANGED <<head, ring, writer, rbuf, take, last, gap, again, raced>>

HandOn(s) ==
  /\ last' = s[Len(s)]
  /\ gap' = (gap \/ \E i \in 1..Len(s) : s[i] # (IF i = 1 THEN last ELSE s[i - 1]) + 1)
  /\ again' = (again \/ \E i \in 1..Len(s) : s[i] <= (IF i = 1 THEN last ELSE s[i - 1]))

Copy(o, n) == rbuf' = rbuf \o [i \in 1..n |-> ring[o + i - 1]]

readFirst ==
  /\ rpc = "first"
  /\ Copy(Off(rtail), FirstPart(rtail, take))
  /\ rpc' = IF take > FirstPart(rtail, take) THEN "rest" ELSE "tail"
  /\ UNCHANGED <<shared, writer, rtail, take, last, gap, again, moved, raced>>

readRest ==
  /\ rpc = "rest"
  /\ Copy(0, take - FirstPart(rtail, take))
  /\ rpc' = "tail"
  /\ UNCHANGED <<shared, writer, rtail, take, last, gap, again, moved, raced>>

(* The tail is written, the bytes are handed on one by one.                *)
readTail ==
  /\ rpc = "tail"
  /\ tail' = Add(rtail, take)
  /\ HandOn(rbuf)
  /\ rpc' = "idle" /\ rtail' = 0 /\ rbuf' = <<>> /\ take' = 0
  /\ UNCHANGED <<head, ring, writer, moved, raced>>

----------------------------------------------------------------------------
(* init zeroes both headers.                                               *)
Init ==
  /\ head = 0 /\ tail = 0 /\ ring = [i \in 0..kIpcRingCap - 1 |-> 0]
  /\ wpc = "idle" /\ whead = 0 /\ wtail = 0 /\ wlen = 0 /\ sent = 0
  /\ rpc = "idle" /\ rtail = 0 /\ rbuf = <<>> /\ take = 0
  /\ last = 0 /\ gap = FALSE /\ again = FALSE
  /\ moved = FALSE /\ raced = FALSE

WriteOn == writeTail \/ writeFirst \/ writeRest \/ writeHead

Read == readBegin \/ readDrop \/ readDropTail \/ readFirst \/ readRest \/ readTail

Next == writeBegin \/ WriteOn \/ Read

Spec == Init /\ [][Next]_vars

(* The reader polls; a write that was begun is finished.                   *)
FairSpec == Spec /\ WF_vars(Read) /\ WF_vars(WriteOn)

----------------------------------------------------------------------------
(* Properties.                                                             *)

Counter == 0..CounterMod - 1

(* Counters stay in their width, reads and writes inside the ring.         *)
TypeOK ==
  /\ head \in Counter /\ tail \in Counter /\ ring \in [0..kIpcRingCap - 1 -> Nat]
  /\ wpc \in {"idle", "tail", "first", "rest", "head"}
  /\ whead \in Counter /\ wtail \in Counter /\ wlen \in 0..kIpcRingCap /\ sent \in Nat
  /\ rpc \in {"idle", "drop", "first", "rest", "tail"}
  /\ rtail \in Counter /\ take \in 0..kIpcRingCap
  /\ rbuf \in Seq(Nat) /\ Len(rbuf) <= RxBufSize /\ last \in Nat /\ gap \in BOOLEAN /\ again \in BOOLEAN
  /\ moved \in BOOLEAN /\ raced \in BOOLEAN

(* The head has not gone round: the first 4 GiB of the code.               *)
FirstRound == sent < CounterMod

(* While the reader keeps up (no tail moved by writeAll, nothing dropped   *)
(* by readByte), it hands on exactly the bytes written, in order, none     *)
(* torn out of a write in progress, wherever the ring wraps.               *)
Fifo == ~moved /\ FirstRound => ~gap

(* When writeAll gives up the oldest bytes, and no read overlaps with its  *)
(* look at the tail and the move, the reader loses bytes and gets none     *)
(* twice, out of order or from an older round.                             *)
OnlyLosesOldest == ~raced /\ FirstRound => ~again

(* A tail that the reader wrote back after the writer had moved it leaves  *)
(* more than a ringful between the counters; the reader's next look        *)
(* repairs that, and nobody waits for ever.                                *)
Heals == (Sub(head, tail) > kIpcRingCap) ~> (Sub(head, tail) <= kIpcRingCap)

(* When writing stops, the ring is read to its end: no value of the two    *)
(* counters, wrapped or raced, leaves bytes in it that nobody reads.       *)
Drains == (head # tail) ~> (head = tail)
=============================================================================
