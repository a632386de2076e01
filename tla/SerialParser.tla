---------------------------- MODULE SerialParser ----------------------------
(***************************************************************************)
(* The byte-tag state machine of SerialServer::pollOnce                    *)
(* (service/src/serial_server.cpp): one action per parser state, each      *)
(* handling one byte from the host, and the reset of the parser at a TCP   *)
(* accept.  late says that more than 100 ms passed since the last byte     *)
(* was read (last_arrival_ms_).                                            *)
(*                                                                         *)
(* The widths of the wire format are constants, so that TLC can use short  *)
(* frames; buf stands for config_body_, window_body_ and tx_buf with their *)
(* index have_ (Len(buf)), qbuf for the scan buffer with scan_have_.  ev   *)
(* is what handling the byte calls or writes.                              *)
(***************************************************************************)
EXTENDS Integers, Sequences

CONSTANTS
  Base,             \* values of a byte (256)
  chT, chX, chW, chC, chS, chQ, \* the tags
  ConfigShort, ConfigLong,      \* CONFIG body lengths (15 and 17)
  WindowLen,        \* SET_WINDOW body length (8)
  MaxTotalPayload,  \* longest TX payload (24576)
  ScanMax,          \* most frequencies of a Q command (16)
  Word              \* bytes of a u32 (4)

Byte == 0..(Base - 1)

ASSUME WireAssumption ==
  /\ Base \in Nat \ {0}
  /\ {chT, chX, chW, chC, chS, chQ} \subseteq Byte
  /\ ConfigShort \in Nat \ {0} /\ ConfigLong \in Nat \ {0} /\ ConfigShort < ConfigLong
  /\ WindowLen \in Nat \ {0} /\ MaxTotalPayload \in Nat \ {0}
  /\ ScanMax \in Nat \ {0} /\ Word \in Nat \ {0}

VARIABLES
  state,     \* state_
  tag,       \* tag_
  frameLen,  \* frame_len_
  buf,       \* the body received so far; Len(buf) is have_
  skip,      \* skip_remain_
  scanCount, \* scan_count_
  qbuf,      \* the scan body received so far; Len(qbuf) is scan_have_
  killed,    \* whether this byte incremented parser_frames_killed_
  ev         \* what this byte made the server do

vars == <<state, tag, frameLen, buf, skip, scanCount, qbuf, killed, ev>>

States == {"tag", "txMagic", "setWindow", "lenLo", "lenHi", "config", "payload",
           "scanCount", "scanBody"}

Events == {"none", "stats", "reset", "window", "config", "tx", "scanQ", "E02", "E03"}

Replies == [what : Events, body : Seq(Byte)]

NoEvent == [what |-> "none", body |-> <<>>]
Event(what, body) == [what |-> what, body |-> body]

----------------------------------------------------------------------------
(* The idle resync, done before the byte is looked at.                     *)

(* Mutant: a stale frame is dropped only in its body.                      *)
StaleInBody(late) == late /\ state \in {"setWindow", "config", "payload", "scanBody"}

Stale(late) == late /\ (state # "tag" \/ skip > 0)

State(late) == IF Stale(late) THEN "tag" ELSE state
Skip(late) == IF Stale(late) THEN 0 ELSE skip
Buf(late) == IF Stale(late) THEN <<>> ELSE buf

Kills(late) == Stale(late) /\ state \in {"payload", "config", "setWindow", "lenHi"}

(* A byte that the parser takes in state s.                                *)
Takes(s, late) == State(late) = s /\ Skip(late) = 0 /\ skip' = 0 /\ killed' = Kills(late)

----------------------------------------------------------------------------
skipByte(b, late) ==
  /\ Skip(late) > 0
  /\ skip' = Skip(late) - 1
  /\ state' = State(late) /\ buf' = Buf(late)
  /\ killed' = Kills(late) /\ ev' = NoEvent
  /\ UNCHANGED <<tag, frameLen, scanCount, qbuf>>

(* T, W, C and Q open a frame; S and X are handled at once; anything else  *)
(* is noise.                                                               *)
tagByte(b, late) ==
  /\ Takes("tag", late)
  /\ tag' = b
  /\ state' = IF b = chT THEN "txMagic" ELSE IF b = chW THEN "setWindow"
              ELSE IF b = chC THEN "lenLo" ELSE IF b = chQ THEN "scanCount" ELSE "tag"
  /\ buf' = IF state' = "tag" THEN Buf(late) ELSE <<>>
  /\ ev' = IF b = chS THEN Event("stats", <<>>)
           ELSE IF b = chX THEN Event("reset", <<>>) ELSE NoEvent
  /\ UNCHANGED <<frameLen, scanCount, qbuf>>

txMagicByte(b, late) ==
  /\ Takes("txMagic", late)
  /\ state' = IF b = chX THEN "lenLo" ELSE "tag"
  /\ buf' = Buf(late) /\ ev' = NoEvent
  /\ UNCHANGED <<tag, frameLen, scanCount, qbuf>>

setWindowByte(b, late) ==
  /\ Takes("setWindow", late)
  /\ buf' = Append(buf, b)
  /\ IF Len(buf') = WindowLen
     THEN state' = "tag" /\ ev' = Event("window", buf')
     ELSE state' = "setWindow" /\ ev' = NoEvent
  /\ UNCHANGED <<tag, frameLen, scanCount, qbuf>>

lenLoByte(b, late) ==
  /\ Takes("lenLo", late)
  /\ frameLen' = b
  /\ state' = "lenHi"
  /\ buf' = Buf(late) /\ ev' = NoEvent
  /\ UNCHANGED <<tag, scanCount, qbuf>>

(* Mutant: the TX limit is off by one.                                     *)
LengthOkAboveMax(n) ==
  IF tag = chC THEN n \in {ConfigShort, ConfigLong} ELSE n \in 1..(MaxTotalPayload + 1)

LengthOk(n) == IF tag = chC THEN n \in {ConfigShort, ConfigLong} ELSE n \in 1..MaxTotalPayload

(* Mutant: a refused TX frame is not skipped.                              *)
SkipNothing(n) == 0

(* The bytes to skip after a refused length.                               *)
SkipRefused(n) == IF tag = chC THEN 0 ELSE n

(* The length is complete: enter the body, or answer E 0x03 / E 0x02; a    *)
(* refused TX frame has its payload skipped, a refused CONFIG has not.     *)
(* tag_ is C or T here (LenForFrames), so the code's else is unreachable.  *)
lenHiByte(b, late) ==
  /\ State(late) = "lenHi" /\ Skip(late) = 0 /\ killed' = Kills(late)
  /\ frameLen' = frameLen + Base * b
  /\ IF LengthOk(frameLen')
     THEN /\ state' = IF tag = chC THEN "config" ELSE "payload"
          /\ buf' = <<>> /\ skip' = 0 /\ ev' = NoEvent
     ELSE /\ state' = "tag"
          /\ buf' = buf
          /\ skip' = SkipRefused(frameLen')
          /\ ev' = Event(IF tag = chC THEN "E03" ELSE "E02", <<>>)
  /\ UNCHANGED <<tag, scanCount, qbuf>>

configByte(b, late) ==
  /\ Takes("config", late)
  /\ buf' = Append(buf, b)
  /\ IF Len(buf') = frameLen
     THEN state' = "tag" /\ ev' = Event("config", buf')
     ELSE state' = "config" /\ ev' = NoEvent
  /\ UNCHANGED <<tag, frameLen, scanCount, qbuf>>

payloadByte(b, late) ==
  /\ Takes("payload", late)
  /\ buf' = Append(buf, b)
  /\ IF Len(buf') = frameLen
     THEN state' = "tag" /\ ev' = Event("tx", buf')
     ELSE state' = "payload" /\ ev' = NoEvent
  /\ UNCHANGED <<tag, frameLen, scanCount, qbuf>>

scanCountByte(b, late) ==
  /\ Takes("scanCount", late)
  /\ scanCount' = b
  /\ qbuf' = <<>>
  /\ state' = IF b \in 1..ScanMax THEN "scanBody" ELSE "tag"
  /\ buf' = Buf(late) /\ ev' = NoEvent
  /\ UNCHANGED <<tag, frameLen>>

ScanNeed == Word + scanCount * Word

scanBodyByte(b, late) ==
  /\ Takes("scanBody", late)
  /\ qbuf' = Append(qbuf, b)
  /\ IF Len(qbuf') = ScanNeed
     THEN state' = "tag" /\ ev' = Event("scanQ", qbuf')
     ELSE state' = "scanBody" /\ ev' = NoEvent
  /\ buf' = Buf(late)
  /\ UNCHANGED <<tag, frameLen, scanCount>>

(* TCP accept: the parser starts over with the new client.                 *)
accept ==
  /\ state' = "tag" /\ skip' = 0 /\ buf' = <<>>
  /\ killed' = FALSE /\ ev' = NoEvent
  /\ UNCHANGED <<tag, frameLen, scanCount, qbuf>>

handleByte(b, late) ==
  \/ skipByte(b, late) \/ tagByte(b, late) \/ txMagicByte(b, late) \/ setWindowByte(b, late)
  \/ lenLoByte(b, late) \/ lenHiByte(b, late) \/ configByte(b, late) \/ payloadByte(b, late)
  \/ scanCountByte(b, late) \/ scanBodyByte(b, late)

Init ==
  /\ state = "tag" /\ tag = 0 /\ frameLen = 0 /\ buf = <<>> /\ skip = 0
  /\ scanCount = 0 /\ qbuf = <<>> /\ killed = FALSE /\ ev = NoEvent

Next == accept \/ \E b \in Byte, late \in BOOLEAN : handleByte(b, late)

Spec == Init /\ [][Next]_vars

(* TLC's view of a state: what the next bytes depend on.  A length, a body *)
(* or a tag left over from an earlier frame is overwritten before it is    *)
(* read again.                                                             *)
View ==
  <<state, skip, killed, ev,
    IF state \in {"txMagic", "lenLo", "lenHi"} THEN tag ELSE 0,
    IF state \in {"lenHi", "config", "payload"} THEN frameLen ELSE 0,
    IF state \in {"setWindow", "config", "payload"} THEN buf ELSE <<>>,
    IF state = "scanBody" THEN <<scanCount>> \o qbuf ELSE <<>> >>

----------------------------------------------------------------------------
(* Properties.                                                             *)

(* The parser's variables keep their types.                                *)
TypeOK ==
  /\ state \in States /\ tag \in Byte /\ frameLen \in Nat /\ buf \in Seq(Byte)
  /\ skip \in Nat /\ scanCount \in Byte /\ qbuf \in Seq(Byte) /\ killed \in BOOLEAN
  /\ ev \in Replies

(* No byte is ever stored outside its buffer: wherever the next byte goes, *)
(* the index lies inside config_body_[17], window_body_[8],                *)
(* tx_buf[kMaxTotalPayload] or qbuf[4 + 16*4], and below the length that   *)
(* ends the frame, which is therefore reached (the code compares with ==). *)
InBounds ==
  /\ state = "setWindow" => Len(buf) < WindowLen
  /\ state = "config" => Len(buf) < frameLen /\ frameLen <= ConfigLong
  /\ state = "payload" => Len(buf) < frameLen /\ frameLen <= MaxTotalPayload
  /\ state = "scanBody" => Len(qbuf) < ScanNeed /\ scanCount <= ScanMax

(* LEN states are entered for C and T only.                                *)
LenForFrames == state \in {"txMagic", "lenLo", "lenHi"} => tag \in {chC, chT}
=============================================================================
