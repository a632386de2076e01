------------------------------ MODULE BurstRx ------------------------------
(***************************************************************************)
(* The receive loop of RadioWorker::pollOnce (service/src/radio_worker.cpp *)
(* 605-789) against the LR2021's RX FIFO and interrupt bits.  The loop     *)
(* talks to the chip one SPI command at a time; the chip goes on receiving *)
(* between any two of them, and that is where packets get lost.            *)
(*                                                                         *)
(* Bytes are counted in half packets: an air packet is 511 bytes, two      *)
(* halves, and the FIFO's 1000 bytes hold three halves, not four.  The     *)
(* burst deadlines (4, 5 or 10 ms) are a flag that time may raise.  What a *)
(* sweep tallies is part of RadioWorker.                                   *)
(***************************************************************************)
EXTENDS BurstCodec, Sequences

CONSTANTS
  PayloadLens, \* payload lengths (bytes) of the bursts on the air
  Foreign,     \* whether packets without an [FB] header are on the air
  ChipErrors,  \* whether receptions and SPI reads may fail
  MaxAired     \* bound: packets on the air in a behaviour

ASSUME RxAssumption ==
  /\ PayloadLens \subseteq 1..kMaxTotalPayload
  /\ Foreign \in BOOLEAN /\ ChipErrors \in BOOLEAN /\ MaxAired \in Nat

VARIABLES
  pc,        \* where the loop stands; "idle": the superloop is elsewhere
  irq,       \* the chip's interrupt bits
  fifo,      \* the chip's RX FIFO, a sequence of halves
  rx,        \* packet whose second half is still to come, 0: none
  inBurst,   \* in_burst
  late,      \* the burst deadline has passed
  recheck,   \* check_fifo_after_rx
  queue,     \* burst_rx_queue
  mode,      \* st_.burst_mode
  aired,     \* history: headers of the packets on the air so far
  delivered, \* history: packets given to on_rx_packet
  kept,      \* history: packets read, of those no foreign packet threw away
  cut        \* history: a half was lost, in a full FIFO or a reception broken off

chipVars == <<irq, fifo, rx, aired, cut>>
loopVars == <<pc, inBurst, late, recheck, queue, mode, delivered, kept>>
vars == <<chipVars, loopVars>>

kFifoHalves == 3
kPacketHalves == 2
Errors == {"crc_error", "len_error"}
Half == [pkt : Nat, half : 1..2]

NoHeader == [HeaderOf(0, 0, 0, 0, 0) EXCEPT !.magic = 0]

AirHeaders ==
  {HeaderOf(1, i, PacketCount(len), len, 0) : len \in PayloadLens, i \in 0..kMaxPackets - 1}
FbHeaders == {h \in AirHeaders : decode_header(h)}

(* The header the loop finds in a packet: only a first half begins with    *)
(* one.                                                                    *)
HeaderIn(p) == IF p[1].half = 1 THEN aired[p[1].pkt] ELSE NoHeader

----------------------------------------------------------------------------
(* The chip and the air.                                                   *)

Store(n, h) ==
  IF Len(fifo) < kFifoHalves
  THEN fifo' = Append(fifo, [pkt |-> n, half |-> h]) /\ UNCHANGED cut
  ELSE cut' = TRUE /\ UNCHANGED fifo

AirFirstHalf ==
  /\ rx = 0 /\ Len(aired) < MaxAired
  /\ \E h \in FbHeaders \cup (IF Foreign THEN {NoHeader} ELSE {}) : aired' = Append(aired, h)
  /\ rx' = Len(aired) + 1
  /\ Store(Len(aired) + 1, 1)
  /\ UNCHANGED <<irq, loopVars>>

(* RX_DONE, with an error bit when the CRC failed.                         *)
AirSecondHalf ==
  /\ rx # 0
  /\ Store(rx, 2)
  /\ \E e \in SUBSET (IF ChipErrors THEN {"crc_error"} ELSE {}) : irq' = irq \cup {"rx_done"} \cup e
  /\ rx' = 0
  /\ UNCHANGED <<aired, loopVars>>

(* The reception breaks off.                                               *)
AirBreaksOff ==
  /\ rx # 0 /\ ChipErrors
  /\ irq' = irq \cup {"len_error"}
  /\ rx' = 0 /\ cut' = TRUE
  /\ UNCHANGED <<fifo, aired, loopVars>>

DeadlinePasses ==
  /\ inBurst /\ ~late
  /\ late' = TRUE
  /\ UNCHANGED <<chipVars, pc, inBurst, recheck, queue, mode, delivered, kept>>

----------------------------------------------------------------------------
(* The loop.                                                               *)

(* Mutant: reception is restarted and the FIFO left as it is.              *)
ArmReceiveKeepsFifo == irq' = {} /\ rx' = 0 /\ UNCHANGED fifo

(* armReceive: startReceive clears the interrupt bits and the FIFO and     *)
(* restarts reception, so that the packet on the air is missed.            *)
ArmReceive == irq' = {} /\ fifo' = <<>> /\ rx' = 0

Deliver(ps) == delivered' = delivered \o ps /\ queue' = <<>>

StartBurst == inBurst' = TRUE /\ late' = FALSE
EndBurst == inBurst' = FALSE /\ late' = FALSE

(* Between two runs of the loop other parts of the worker re-arm the chip: *)
(* a CONFIG, a step of a sweep, the end of a transmission.                 *)
rearm ==
  /\ pc = "idle"
  /\ ArmReceive
  /\ mode' = 0
  /\ UNCHANGED <<aired, cut, pc, inBurst, late, recheck, queue, delivered, kept>>

enterLoop ==
  /\ pc = "idle"
  /\ pc' = "irq"
  /\ EndBurst /\ recheck' = FALSE /\ queue' = <<>>
  /\ UNCHANGED <<chipVars, mode, delivered, kept>>

(* get_clear_IrqStatus.                                                    *)
pollIrq ==
  /\ pc = "irq"
  /\ irq' = {}
  /\ pc' = IF irq \cap Errors # {} THEN "error" ELSE IF irq # {} THEN "fetch" ELSE "peek"
  /\ UNCHANGED <<fifo, rx, aired, cut, inBurst, late, recheck, queue, mode, delivered, kept>>

(* No interrupt: a packet may all the same be complete after a read, or    *)
(* begin to come in.                                                       *)
peekFifo ==
  /\ pc = "peek"
  /\ IF recheck /\ Len(fifo) >= kPacketHalves
     THEN pc' = "fetch" /\ UNCHANGED <<inBurst, late>>
     ELSE /\ pc' = "wait"
          /\ IF Len(fifo) > 0 /\ ~inBurst THEN StartBurst ELSE UNCHANGED <<inBurst, late>>
  /\ recheck' = FALSE
  /\ UNCHANGED <<chipVars, queue, mode, delivered, kept>>

(* An error, with or without RX_DONE (LORA_HEADER_ERROR and TIMEOUT do not *)
(* occur: the modem is FLRC, reception has no time limit).                 *)
rxError ==
  /\ pc = "error"
  /\ ArmReceive /\ EndBurst /\ mode' = 0
  /\ recheck' = FALSE
  /\ pc' = "wait"
  /\ UNCHANGED <<aired, cut, queue, delivered, kept>>

(* RX_DONE, but less than a packet in the FIFO: nothing is read.           *)
fetchNothing ==
  /\ pc = "fetch" /\ Len(fifo) < kPacketHalves
  /\ IF Len(fifo) > 0 THEN ArmReceive /\ mode' = 0 ELSE UNCHANGED <<irq, fifo, rx, mode>>
  /\ EndBurst /\ recheck' = FALSE
  /\ pc' = "wait"
  /\ UNCHANGED <<aired, cut, queue, delivered, kept>>

(* Mutant: RX_DONE alone is taken for a packet.                            *)
fetchUnchecked ==
  /\ pc = "fetch"
  /\ recheck' = FALSE
  /\ pc' = "read"
  /\ UNCHANGED <<chipVars, inBurst, late, queue, mode, delivered, kept>>

fetchPacket ==
  /\ pc = "fetch" /\ Len(fifo) >= kPacketHalves
  /\ recheck' = FALSE
  /\ pc' = "read"
  /\ UNCHANGED <<chipVars, inBurst, late, queue, mode, delivered, kept>>

readFails ==
  /\ pc = "read" /\ ChipErrors
  /\ ArmReceive /\ EndBurst /\ mode' = 0
  /\ pc' = "wait"
  /\ UNCHANGED <<aired, cut, recheck, queue, delivered, kept>>

Front == SubSeq(fifo, 1, kPacketHalves)
Pop == fifo' = SubSeq(fifo, kPacketHalves + 1, Len(fifo))

(* Not an [FB] packet: FIFO and queue are thrown away, the loop ends.      *)
readForeign ==
  /\ pc = "read" /\ ~decode_header(HeaderIn(Front))
  /\ ArmReceive /\ EndBurst /\ mode' = 0
  /\ recheck' = TRUE
  /\ queue' = <<>> /\ kept' = delivered
  /\ pc' = "idle"
  /\ UNCHANGED <<aired, cut, delivered>>

(* A packet of a burst that is not its last one waits in the queue.        *)
readMiddle ==
  /\ pc = "read" /\ decode_header(HeaderIn(Front)) /\ MoreToCome(HeaderIn(Front))
  /\ Pop /\ StartBurst /\ mode' = 1
  /\ recheck' = TRUE
  /\ queue' = Append(queue, Front) /\ kept' = Append(kept, Front)
  /\ pc' = "irq"
  /\ UNCHANGED <<irq, rx, aired, cut, delivered>>

(* Mutant: the packet just read goes out before the queue.                 *)
readLastFirst ==
  /\ pc = "read" /\ decode_header(HeaderIn(Front)) /\ ~MoreToCome(HeaderIn(Front))
  /\ Pop /\ EndBurst /\ mode' = 0
  /\ recheck' = TRUE
  /\ Deliver(<<Front>> \o queue) /\ kept' = Append(kept, Front)
  /\ pc' = "after"
  /\ UNCHANGED <<irq, rx, aired, cut>>

(* The last packet: the queue goes out, then the packet.                   *)
readLast ==
  /\ pc = "read" /\ decode_header(HeaderIn(Front)) /\ ~MoreToCome(HeaderIn(Front))
  /\ Pop /\ EndBurst /\ mode' = 0
  /\ recheck' = TRUE
  /\ Deliver(Append(queue, Front)) /\ kept' = Append(kept, Front)
  /\ pc' = "after"
  /\ UNCHANGED <<irq, rx, aired, cut>>

(* After a burst: stay if anything is in the FIFO.                         *)
afterBurst ==
  /\ pc = "after"
  /\ IF Len(fifo) > 0 THEN StartBurst /\ pc' = "irq"
     ELSE pc' = "clear" /\ UNCHANGED <<inBurst, late>>
  /\ UNCHANGED <<chipVars, recheck, queue, mode, delivered, kept>>

(* clearRxBuffer; reception goes on.                                       *)
clearFifo ==
  /\ pc = "clear"
  /\ fifo' = <<>>
  /\ pc' = "wait"
  /\ UNCHANGED <<irq, rx, aired, cut, inBurst, late, recheck, queue, mode,
                 delivered, kept>>

(* Mutant: the deadline is not looked at.                                  *)
waitForever ==
  /\ pc = "wait" /\ inBurst
  /\ pc' = "irq"
  /\ UNCHANGED <<chipVars, inBurst, late, recheck, queue, mode, delivered, kept>>

waitMore ==
  /\ pc = "wait" /\ inBurst /\ ~late
  /\ pc' = "irq"
  /\ UNCHANGED <<chipVars, inBurst, late, recheck, queue, mode, delivered, kept>>

(* Mutant: a burst whose deadline passes is not handed over.               *)
leaveLoopDropsQueue ==
  /\ pc = "wait" /\ (inBurst => late)
  /\ IF inBurst THEN ArmReceive /\ mode' = 0 ELSE UNCHANGED <<irq, fifo, rx, mode>>
  /\ EndBurst
  /\ Deliver(IF inBurst THEN <<>> ELSE queue)
  /\ pc' = "idle"
  /\ UNCHANGED <<aired, cut, recheck, kept>>

(* The deadline has passed, or there was none: hand over what is there.    *)
leaveLoop ==
  /\ pc = "wait" /\ (inBurst => late)
  /\ IF inBurst THEN ArmReceive /\ mode' = 0 ELSE UNCHANGED <<irq, fifo, rx, mode>>
  /\ EndBurst
  /\ Deliver(queue)
  /\ pc' = "idle"
  /\ UNCHANGED <<aired, cut, recheck, kept>>

----------------------------------------------------------------------------
Init ==
  /\ pc = "idle" /\ irq = {} /\ fifo = <<>> /\ rx = 0
  /\ inBurst = FALSE /\ late = FALSE /\ recheck = FALSE /\ queue = <<>> /\ mode = 0
  /\ aired = <<>> /\ delivered = <<>> /\ kept = <<>> /\ cut = FALSE

Chip == AirFirstHalf \/ AirSecondHalf \/ AirBreaksOff

Read == readFails \/ readForeign \/ readMiddle \/ readLast

Loop == \/ pollIrq \/ peekFifo \/ rxError \/ fetchNothing \/ fetchPacket \/ Read
        \/ afterBurst \/ clearFifo \/ waitMore \/ leaveLoop

Next == Chip \/ DeadlinePasses \/ rearm \/ enterLoop \/ Loop

Spec == Init /\ [][Next]_vars

(* The loop runs, time passes, and a packet on the air ends.               *)
FairSpec ==
  /\ Spec
  /\ WF_vars(Loop) /\ WF_vars(DeadlinePasses)
  /\ WF_vars(AirSecondHalf)

----------------------------------------------------------------------------
(* Properties.                                                             *)

Packet == Seq(Half)

(* Every variable of the loop has its type, and a packet is read only when *)
(* it is in the FIFO (lines 653-657: reading fewer bytes than that wedges  *)
(* the chip).                                                              *)
TypeOK ==
  /\ pc \in {"idle", "irq", "peek", "error", "fetch", "read", "after", "clear", "wait"}
  /\ irq \subseteq {"rx_done"} \cup Errors
  /\ fifo \in Seq(Half) /\ Len(fifo) <= kFifoHalves
  /\ pc = "read" => Len(fifo) >= kPacketHalves
  /\ rx \in 0..Len(aired) /\ inBurst \in BOOLEAN /\ late \in BOOLEAN
  /\ recheck \in BOOLEAN /\ mode \in {0, 1} /\ cut \in BOOLEAN
  /\ queue \in Seq(Packet) /\ delivered \in Seq(Packet) /\ kept \in Seq(Packet)

(* The packets handed to the host (readData, burst_rx_queue, on_rx_packet) *)
(* are in the order in which they were on the air, none of them twice,     *)
(* whatever is cleared, missed or overrun in between.                      *)
InOrderOnce ==
  \A i, j \in 1..Len(delivered) : i < j => delivered[i][1].pkt < delivered[j][1].pkt

Whole(p) == p[1].half = 1 /\ p[2] = [pkt |-> p[1].pkt, half |-> 2]

(* As long as the FIFO does not overflow and receptions run to their end,  *)
(* no packet is delivered that was put together from two, although the     *)
(* clear after a burst (line 762) can take the beginning of a packet away  *)
(* and RX_DONE may be read after the packet it was set for.                *)
NeverTorn == ~cut => \A i \in 1..Len(delivered) : Whole(delivered[i])

(* Whenever the loop has ended, every packet it read has been handed over, *)
(* in order, also when the burst broke off; only a packet without an [FB]  *)
(* header (line 718) throws away those that waited.                        *)
NothingHeldBack == pc = "idle" => queue = <<>> /\ delivered = kept

(* The loop ends once the air is silent: no state of FIFO, interrupt bits  *)
(* and deadline keeps the superloop in it.                                 *)
LoopEnds == (Len(aired) = MaxAired) ~> (pc = "idle")

(* "do NOT call armReceive() or clearRxBuffer() mid-burst so arriving      *)
(* packets in the 1000B RX FIFO are never wiped!": while a burst is being  *)
(* received, without an error or a missed deadline, the FIFO is not        *)
(* cleared.                                                                *)
NeverWiped ==
  [][~cut /\ mode = 1 /\ inBurst /\ ~late /\ fifo # <<>> /\ fifo' = <<>>
     => pc \in {"read", "error"}]_vars
=============================================================================
