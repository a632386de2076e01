----------------------------- MODULE BurstCodec -----------------------------
(***************************************************************************)
(* The on-air burst format (service/src/burst.hpp) and the cutting of a    *)
(* frame into packets (transmitBurst).  A header is a record of its        *)
(* fields; a chunk is the part of the payload a packet copies, as an       *)
(* offset and a length, and the zeros after it.  The checksum is carried,  *)
(* not computed.                                                           *)
(***************************************************************************)
EXTENDS Integers

kMagic == 17986            \* 0x4642
kMaxTotalPayload == 24576
kPacketPayload == 511
kHeaderLen == 16
kChunk == kPacketPayload - kHeaderLen
kMaxPackets == 50
kMaxAirPacketsAlt == 105

U16(n) == n % 65536

(* total of transmitBurst; the quotient is cut to 16 bits.                 *)
PacketCount(len) == U16((len + kChunk - 1) \div kChunk)

(* transmitBurst goes on, otherwise "bad burst size".                      *)
SizeOk(len) ==
  /\ PacketCount(len) # 0 /\ PacketCount(len) <= kMaxPackets
  /\ len <= kMaxTotalPayload

(* The identifier a burst gets from its 32 bits of entropy: never 0.       *)
BurstId(mixed) == IF U16(mixed) = 0 THEN 1 ELSE U16(mixed)

(* encode_packet: the header, and what follows it.                         *)
HeaderOf(id, idx, total, len, crc) ==
  [magic |-> kMagic, burst_id |-> id, packet_idx |-> idx, total_packets |-> total,
   total_payload_len |-> len, payload_crc32 |-> crc]

ChunkOff(idx) == idx * kChunk

(* take is unsigned: behind the end of the payload it wraps to a huge      *)
(* number, which is cut to a whole chunk.                                  *)
ChunkLen(idx, len) ==
  IF ChunkOff(idx) <= len /\ len - ChunkOff(idx) <= kChunk THEN len - ChunkOff(idx) ELSE kChunk

Padding(idx, len) ==
  IF kHeaderLen + ChunkLen(idx, len) < kPacketPayload
  THEN kPacketPayload - kHeaderLen - ChunkLen(idx, len) ELSE 0

decode_header(h) ==
  /\ h.magic = kMagic
  /\ h.total_packets # 0 /\ h.total_packets <= kMaxAirPacketsAlt
  /\ h.total_payload_len # 0 /\ h.total_payload_len <= kMaxTotalPayload
  /\ h.packet_idx < h.total_packets

(* The receive loop's test for more packets of the burst to come.          *)
MoreToCome(h) == h.packet_idx + 1 < h.total_packets
=============================================================================
