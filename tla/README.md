# A formal model of the K230 LR2021 radio service

TLA+ specifications of the radio service in `service/src`, their TLC
configurations, and TLAPS proofs. The service is one thread on the K230's
RT-SMART core: a *superloop* (`main.cpp`) that alternates between the serial
server, which parses the host's bytes into commands, and the radio worker, which
drives the LR2021.

## 1. The system

| Part | Code | State it keeps | Operations |
|---|---|---|---|
| Superloop | `main.cpp` | none | `server.pollOnce`, `worker.pollOnce`, sleep (2, 10 or 250 ms by thermal level) |
| Byte-tag parser | `serial_server.cpp` 516-704 | `state_`, `tag_`, `frame_len_`, `have_`, bodies, `skip_remain_`, `last_arrival_ms_` | one byte at a time, 100 ms idle resync, reset at a TCP accept |
| Command handlers | `serial_server.cpp` 324-429 | none of their own | CONFIG, scan, TX, stats, window, reset |
| Configuration | `radio_worker.cpp` 122-235 | `cfg_`, `radio_ok_` | `init`, `applyConfig`, `armReceive` |
| TX path | `radio_worker.cpp` 296-372, 542-583 | `tx_q_`, `pending_tx_valid` | `enqueueTx`, `serviceTxQueue`, `transmitBurst` |
| Channel scan | `radio_worker.cpp` 237-294 | `scan_*`, `pre_scan_freq_hz_` | `startScan`, `scanTick` |
| Thermal control | `radio_worker.cpp` 374-540 | `thermal_level_`, `thermal_powered_down_`, `fan_on_`, `cpu_dvfs_stage_` | `thermalTick` |
| Burst reception | `radio_worker.cpp` 605-789 | locals of `pollOnce`; the chip's FIFO and IRQ bits | the receive loop |
| Transports | `serial_server.cpp` 62-210, 431-553 | file descriptors, IPC rings | `readByte`, `writeAll`, accept, disconnect |
| Burst codec | `burst.hpp` | none | `encode_packet`, `decode_header`, `crc32` |
| Statistics | `stats.hpp` | counters | `serialize`, `snapshot` |
| Chip driver, HAL | `vendor/` | chip registers | RadioLib calls |

How they interact: the server calls `applyConfig`, `startScan` and `enqueueTx` of
the worker directly; the worker calls back (`on_tx_terminal`, `on_rx_packet`,
`on_scan_result`) and the callbacks write to the host. Both share one thread, so
the mutexes in the code are never contended. What is concurrent with the thread
is outside: the host, its pauses and its connections, the process at the other end
of the IPC rings, the air and the chip's FIFO, the die temperature, and the OS
thermal guardian that publishes a level in a file.

What is hard in this code is therefore not data races but sequences: a cutoff
between the acceptance of a frame and its transmission, commands that arrive while the
radio is off, a CONFIG that fails half-way, a sweep restarted during a sweep, a
packet left in the FIFO at a retune, a packet that arrives between two SPI commands,
a host that stops in the middle of a frame or goes away, a ring that is full, and
time that passes while the thread is elsewhere. `PROJECT.json` lists each of these
hazards at its line.

What makes each part correct:

- TX path: every accepted frame gets exactly one terminal, in order, and in the
  end; `G` means every packet was seen to leave.
- Configuration: the chip is where `cfg_` says; it is in RX whenever it is not
  sending; its power respects the thermal limit (both unless `init` failed).
- Scan: what is tallied for a channel was heard on it; the radio returns to
  the host's frequency; the sweep ends.
- Thermal: a cutoff holds the rail off and the fan on; the CPU clock does not flap.
- Parser: no write outside a buffer; after a pause or a whole command the next
  command is obeyed, once.
- Burst reception: packets reach the host in the order they were on the air, none
  twice, none put together from two, none kept back; the loop ends.
- Codec: chunks tile the frame; every packet encoded is one the receiver accepts.
- IPC ring: bytes come out as they went in; a full ring loses the oldest bytes and
  nothing else; the counters recover from the race for the tail.
- Sessions: every client reads a greeting and then whole frames; no frame is made of
  the bytes of two clients; terminals, statistics and new clients are served.

## 2. Modules

| Module | What it is |
|---|---|
| `RadioWorker` | the worker and the superloop's order: commands, thermal tick, scan, reception, transmission |
| `TxContract` | what the service promises the host about TX frames |
| `ThermalLevels` | the decisions of `thermalTick` as operators |
| `ThermalGovernor` | guardian, sensor, level, rail, fan and CPU clock |
| `SerialParser` | the byte-tag state machine |
| `SerialLink` | the parser with a host that stalls and gives up, and a superloop that stalls |
| `BurstCodec` | the on-air format and the cutting of frames, as operators |
| `BurstRx` | the receive loop against the chip's FIFO and interrupt bits |
| `IpcRing` | one shared-memory ring, writer and reader as processes |
| `Session` | TCP sessions: accept, commands, the send loop, disconnects, terminals |
| `MCRadioWorker`, `MCThermalGovernor` | constants for TLC |
| `RadioWorkerProofs`, `TxPathProofs`, `ReceiverProofs` | theorems about `RadioWorker` |
| `ThermalGovernorProofs`, `SerialParserProofs`, `BurstProofs`, `IpcRingProofs`, `SessionProofs` | theorems about the others |

### RadioWorker

`pc` is where the superloop stands: `server` (commands may be handled), `thermal`,
`scan`, `rx`, `service`, `tx`. One action is one command, one outcome of
`thermalTick`, one outcome of `scanTick`, one packet read, or one transmission
attempt. `cfg`, `scan`, `level`, `down`, `txQ`, `pending` are the members of the
same names. `chip` is the LR2021 as the driver's calls see it: rail, whether it
answers (`up`), frequency, power, mode, RX FIFO. A chip that is not up answers the
status bytes 0x00 or 0xFF, which RadioLib turns into `CHIP_NOT_FOUND`, so that
every call on it fails without effect. `terms`, `accepted`, `asked`, `cmds` and
the `aired` part of `cur` are history.

- `handleConfig` is `SerialServer::handleConfig` with `applyConfig`: the clamp,
  the early return when nothing changes, the retune that may fail, the power, RX.
- `startScan` stands for both entries, scan-CONFIG and `Q` (which `handleScanQ`
  turns into step 0).
- `txBusy` and `enqueueTx` are the two outcomes of `handleTx`.
- `thermalHold`, `thermalCutoff`, `thermalThrottle`, `thermalRecover`,
  `thermalRecoverFails` and `thermalRestorePower` are the outcomes of
  `thermalTick`. The level comes from the guardian (any level it publishes) or
  from `LocalLevel` of a reading. `BeginFails` has what a failed `init` leaves
  behind: a chip that does not answer, or, since `beginFLRC` can fail at every
  call after `findChip`, a live chip in standby, not tuned yet, tuned, or with its
  power set too. In each case the rail is on and `thermal_powered_down_` stays set,
  and the superloop, commands and sweeps go on with that chip. `ResetPower` is the
  power of a chip that was reset and told none; it is assumed not to exceed the
  bench limit of +10 dBm (nothing in the repository gives it).
- `scanIdle`, `scanAdvance`, `scanFinish` are the outcomes of `scanTick`; a dwell
  is over when the model says so.
- `AirPacket` puts a packet in the FIFO while the chip listens; `rxPacket` reads
  and tallies it, `rxDone` ends the receive loop, with or without the error paths
  that clear the FIFO and re-arm.
- `serviceTxQueue`, `txStartFails`, `txTimeout`, `txPacketDone` go through a burst
  packet by packet, with three attempts each. After a timeout the packet may or
  may not have been radiated. "bad burst size" cannot happen: the parser admits
  1..24576 bytes, which are 1 to 50 packets.

`radio_ok_` is left out: `main` exits when the first `init` fails, and nothing
clears it later.

### TxContract

Two variables, the number of frames taken and the terminals sent. `RadioWorker`
implements it with `settled` mapped to the results of `terms` and `Slots` to
`QueueCap`. A frame in flight has left the queue but is still unanswered; the
limit holds all the same, because the superloop handles no command, and so takes
no frame, during a burst. The number of slots is a separate question: the
document says two, the code has 16 (`TwoSlots`).

### ThermalLevels and ThermalGovernor

`LocalLevel`, `NextFan` and `NextDvfs` are the three hystereses of `thermalTick`,
in whole degrees. `guardianTick` takes a level from the guardian's file and
leaves fan and clock alone; `localTick` takes a reading. `SetLevel` has the effect
of a level change on rail and fan, the fan that `init` turns off at a recovery
included. `RadioWorker` uses the same `LocalLevel`.

### SerialParser and SerialLink

One action per parser state; each first does the idle resync (`Stale`), then
skips, then handles the byte. `buf` is the body received so far, its length
`have_`. `ev` is what the byte makes the server do. The wire format's widths are
constants, with the code's values in their comments.

`SerialLink` adds a host that sends whole commands byte by byte and may pause or
give a command up at any byte. `clean` says that parser and host should agree
where a command begins: after a whole command, or after a pause of more than 100 ms before the
first byte. With `Stalls` the time between reads says nothing about the time
between arrivals, which is what the code's clock gives when the worker is busy.

### BurstCodec and BurstRx

`BurstCodec` has the constants and functions of `burst.hpp` and the packet count
of `transmitBurst`: a header is a record, a chunk is the part of the payload a
packet copies. `PacketCount` is cut to 16 bits and `ChunkLen` has the wrap of the
unsigned subtraction, as in the code.

`BurstRx` is lines 605-789 of `radio_worker.cpp`. One action is one SPI command
with the decision that follows it (`pollIrq`, `peekFifo`, `fetchPacket` ...), and
the chip's actions (`AirFirstHalf`, `AirSecondHalf`, `AirBreaksOff`) come between
any two. Bytes are counted in half packets: a packet of 511 bytes is two, the FIFO of
1000 bytes holds three, which keeps what matters: less than a packet, a packet, a
packet and the beginning of the next, overflow. A half is stored with its packet, so
that a packet read from a shifted FIFO shows. The deadlines of 4, 5 and 10 ms
are a flag that time raises. `rearm` stands for the parts of the worker that call
`armReceive` between two runs of the loop.

### IpcRing

Every `lseek` with its `read` or `write` is a step of `writeAll` or `readByte`; the
dropping of everything is two, the look at the header (`readDrop`) and the write of
the tail (`readDropTail`). The
repository has the writer of one ring and the reader of the other; the validator
is taken to mirror them, and the module puts both ends at one ring. A byte is its
position in the stream. `moved`, `raced`, `gap` and `again` are history: whether the
tail was moved by the writer, in the middle of a read or around one, and what the reader
saw. The capacity does not divide the width of the counters, as 65520 does not
divide 2^32.

### Session

`SerialServer::pollOnce` on TCP with the worker's callbacks. A frame to the host is
two units, a bare `G` one; the socket holds `SockCap` units the client has not
read. `writeUnit` is one round of the send loop, `writeFails` the return on a dead
socket. A TX command is two pieces; `half` is the client whose command the parser is
in. `from` and `to` of a queued frame are the clients that sent its first and its last
piece. The worker is a queue that it empties when it can; `RadioWorker` says when.
The clients of `Session` send well-formed commands. The bytes the parser skips after
an over-long TX frame, for which `pollOnce` goes on without looking at the
statistics' timer (`serial_server.cpp` 572-575), are in `SerialParser` and
`SerialLink`; there are at most 65535 of them, and the first byte or empty read
after them looks at the timer again.

## 3. What TLC checks

Passing runs:

| Run | Bounds | Shows |
|---|---|---|
| `tx_thermal` | 4 commands, 3 frames of 1 or 2 packets, queue of 2, all roles, frequencies 0 and 903, powers 2 and 22 dBm, one-channel sweep, guardian and sensor, failing retunes, inits that fail with every outcome of `BeginFails`, `ResetPower` at its limit | types; `OneTerminalEach`, `CutoffSafe`, `QueueBounded`, `OkMeansAired`, `PowerCap`, `Listening`; refinement of `TxContract` |
| `scan` | 4 commands, grid, `Q` and start-0 sweeps, packets at any moment, throttle but no cutoff, no chip faults | `TallyOnChannel`, `ChipMatchesConfig`, `ScanReturnsHome` |
| `live` | 3 commands, 2 frames, two-channel sweep, cutoffs, recoveries that fail, packets | `FramesSettled`, `ScanEnds` under `FairSpec` |
| `governor` | every degree from 30 to 90, guardian levels 0..2 | types; `CutoffCools`, `NoFlap` |
| `framing` | 8 byte values, all commands with bodies of up to 3 bytes made of `T` and `X`, TX of 4 bytes (over-long) included | `InBounds`, `Framed`, `NothingElse` |
| `burst_rx` | 3 packets, of bursts of one and of two, foreign packets, CRC errors, broken receptions, failing reads | types; `InOrderOnce`, `NeverTorn`, `NothingHeldBack`; `LoopEnds` |
| `ipc_ring` | ring of 4, counters modulo 10, buffer of 3, writes of 1 to 4 bytes, 12 bytes in all | types; `Fifo`, `OnlyLosesOldest`; `Heals`, `Drains` |
| `session` | 2 connections, 2 TX commands, queue of 1, socket of 1 unit, one `S` or `X`, one packet, one statistics period | types; `CleanStream`, `OneClient`; `Answered`, `StatsKeepComing`, `Greeted` |

Why the bounds suffice: a queue of 2 has the empty, partly full and full cases,
and three frames fill it while one is in flight or answered; a burst of two
packets has a first and a last one; a sweep of two channels has an advance and a
finish; four commands let a sweep be started, restarted and cancelled around a
CONFIG, while thermal steps and superloop rounds are not bounded at all. The
readings lie in every band of `LocalLevel`. For the parser, a byte needs a value
for each of the six tags and one for noise; bodies made of `T` and `X` are the
worst case for framing, since every byte of them would open or reset something
if it were taken for a tag. That run identifies states that differ only in
left-over buffer contents (`LinkView`), which the code overwrites before it reads
them. `scan` leaves chip faults and cutoffs out, because with them the code does
not keep `cfg_` and chip together: see `v_recovery` and `AckedMeansTuned` below. `Listening` is about
a chip whose last `init` succeeded and `PowerCap` holds a chip that a failed `init`
left alive to the bench limit only; `LiveMeansListening` and `ThrottleReduces` below
show that the code does no more.

Three packets are one more than the FIFO can hold, and enough for a packet to be
complete, one to be half there and one to be on the air. Twelve bytes take the
counters of `ipc_ring` past their wrap at 10 and the ring of 4 around three times;
a buffer of 3 makes a full ring need two reads. A socket of one unit makes every
unit boundary a place where the send loop waits and the connection may break. In
`ipc_ring` and `session` deadlock is not checked: with the bounds used up nobody
has anything left to do, and in `accept` the service itself waits for a client.

Runs that TLC refutes, each against a line of the repository (quoted in
`PROJECT.json`):

| Run | The text says | The code does |
|---|---|---|
| `v_recovery` | "resuming normal radio operation" | comes back on 915 MHz, +10 dBm: `applyConfig(saved_cfg)` compares `cfg_` with itself and returns |
| `v_stall` | a frame is killed 100 ms after the last *arrival* | measures between reads; a prompt frame is killed when the worker is busy |
| `v_wiped` | "arriving packets in the 1000B RX FIFO are never wiped" in a burst | a stale `RX_DONE` finds half a packet and clears it |
| `v_blocked` | "Non-blocking poll step" | `accept()` blocks the superloop until a client comes |

Six more statements are at the end of `RadioWorker`, each refuted by TLC when it is
added to the configuration named here (an `INVARIANT`, the last a `PROPERTY`):

| Statement | Added to | The text says | The code does |
|---|---|---|---|
| `ThrottleReduces` | `tx_thermal` | "reducing TX power to +4 dBm" (`radio_worker.cpp` 512) | the throttle passes by a live chip whose `init` failed, because `thermal_powered_down_` is still set (515) |
| `LiveMeansListening` | `tx_thermal` | "the worker's only job is keeping the radio in RX" (`radio_worker.hpp` 3-4) | an `init` that fails after `findChip` leaves the chip in standby (`radio_worker.cpp` 528) |
| `AckedMeansTuned` | `tx_thermal` | a CONFIG "returns false + reason if the radio rejects it" (`radio_worker.hpp` 61) | the repetition of a rejected CONFIG is answered with `G`, because `cfg_` was updated before the retune (`radio_worker.cpp` 218) |
| `TwoSlots` | `tx_thermal`, with `QueueCap = 16` | "both queue slots" (`docs/protocol.md` 36, `radio_worker.hpp` 67), "2-deep queue" (`docs/protocol.md` 147) | 16 frames are taken (`radio_worker.cpp` 301) |
| `FirstDwellAtHome` | `scan` | "first dwell listens on the pre-scan frequency" (`docs/protocol.md` 60-61) | `startScan` tunes to the first channel (`radio_worker.cpp` 250-255) |
| `NoReturnToHome` | `scan` | "no return-to-home (the host retunes afterwards)" (`docs/protocol.md` 61-62) | `scanTick` tunes back to the frequency before the sweep (`radio_worker.cpp` 274-278) |

`QueueBounded`, `TallyOnChannel` and `ScanReturnsHome` therefore state what the code
does and a host of this service can rely on, not what `docs/protocol.md` says;
`QueueBounded` is about the limit the code tests, whatever its value.

Other disagreements met on the way, which the models show but no run is kept for:

- `docs/protocol.md` 41 has a CONFIG "always acked with 'G'"; one whose retune
  fails is answered with `E` 0x03 (`serial_server.cpp` 377-380).
- `docs/protocol.md` 52 says that the role "gates TX trigger only"; TX_ONLY also
  keeps the radio out of RX (`radio_worker.cpp` 193) and skips the receive loop.
- `kDropped` is "definitively not sent" (`radio_worker.hpp` 24), and half-sent bursts
  are reported with it (`radio_worker.cpp` 580).
- A frame accepted in RX_ONLY waits until the role changes (`radio_worker.cpp`
  543); `docs/protocol.md` 34-35 promises "Exactly one terminal is sent later per
  accepted frame". `live` has no RX_ONLY for that reason.
- The late rest of a killed frame is parsed as commands (`serial_server.cpp` 566);
  `docs/protocol.md` 22-24 has it "silently discarded".
- `X` clears neither queue nor sweep (`serial_server.cpp` 399-411), although the
  comment there says so; terminals of an old session reach the next client.
- `burst_mode` stays 1 when a stale `RX_DONE` finds an empty FIFO in a burst.
- The throttle logs "reducing TX power to +4 dBm" and also raises it if it was
  lower (`radio_worker.cpp` 512, 517); `radio_worker.hpp` 96 gives 70 and 80 C as
  the thresholds, the code has 68 and 82 C.

### Fairness

- `RadioWorker`: weak fairness of the stages of the superloop, which does not block
  outside `accept` and `send` (`readByte` has timeout 0, every loop has a deadline);
  strong fairness of advancing or finishing a sweep, because a dwell that is
  polled in every round is over after at most `dwell_ms`; strong fairness of
  `rxDone`, which assumes that the air falls silent now and then. It assumes that
  a client is connected and reads; `Session` is about the times when none is.
- `BurstRx`: the loop runs, deadlines pass, and a packet that is on the air ends.
  `LoopEnds` says that the loop ends once the air is silent; while packets keep
  coming the code does not bound it.
- `IpcRing`: the reader polls, and a write that was begun is finished. Nothing is
  assumed about when writes begin.
- `Session`: the superloop takes its enabled steps; the worker gets to its frames,
  which is what `live` shows; `accept` does not fail for ever; a client that stays
  connected reads. The last is an assumption about the host: the send loop
  repeats for as long as the client does not read. A client may close at any moment.

## 4. What is proved

The theorems hold for every value of the constants (any queue limit, burst
sizes, powers, readings, wire format widths, ring sizes, numbers of clients) under
the `ASSUME`s of the modules, which give the constants their types, the ring a
counter wider than its capacity, and the wire format tags that differ and lengths
that fit their fields; TLC evaluates them. Conditions beyond these are hypotheses
of the theorems themselves. Every invariant that a passing run checks is proved.

- `RadioWorkerProofs`: `TypeCorrect`, `CutoffIsSafe`, `PowerIsCapped`. Neither
  `CutoffSafe` nor `PowerCap` is inductive. `CutoffSafe` needs to know that under
  a cutoff the worker is in `server` or `thermal` (else a burst could be in
  flight when the level says 2). `PowerCap` needs that a chip is live unless
  `thermal_powered_down_` is set (else a throttle would not reach it), and that `cfg_`
  never holds more than the bench limit, because the end of a throttle writes
  `cfg_`'s power to the chip. While the flag is set the chip may be dead or alive
  (`BeginFails`), and the limit proved is the bench limit. `ThermalInv` is their
  conjunction.
- `TxPathProofs`: `ExactlyOneTerminal`, `GoMeansAired`, `QueueIsBounded`, and the
  refinement `WorkerImplementsContract`. `TxInv` adds to the properties that
  queued frames have packets, and `BurstProgress`: in a burst, all packets before
  the current one have left. The refinement needs in addition that no command is
  handled during a burst, so that the queue limit bounds the outstanding frames.
- `ReceiverProofs`: `AlwaysListening`, and `TalliesAreTrue` under the condition
  that `setFrequency` does not fail on a live chip, which the code does not check.
  Both are about a chip whose last `init` succeeded: of one that a failed recovery
  left alive neither is true, since it stands on 915 MHz or nowhere, and in standby.
  `ReceiverInv` says that the receive loop runs only with a role that receives,
  that what waits in the FIFO came in on the chip's present frequency, and that
  in a sweep the chip is on the sweep's channel. A TX_ONLY radio keeps old packets
  across retunes; they do no harm because the change of role re-arms.
  `ConfigIsOnChip` and `SweepsComeHome` hold in behaviours without
  a cutoff (`[]NoCutoff`), because `init` at recovery puts the chip's defaults
  in place of `cfg_` (`v_recovery` is that case), and again without failing
  retunes. `Home` says that a sweep under way
  returns to the frequency configured last, restarts included. It needs every CONFIG
  to name a frequency: one with frequency 0 does not retune but puts 0 into
  `cfg_`, and a sweep begun then returns to where the sweep before it was begun, or
  to 915 MHz (`radio_worker.cpp` 239; with 0 and 903 as `CfgFreqs` TLC finds it).
- `ThermalGovernorProofs`: `GovernorTypes`, `CutoffIsCooled`, `ClockDoesNotFlap`.
  `CutoffCools` is inductive with the types: a reading that would turn the fan
  off during a cutoff is below 38 C and ends it. `NoFlap` needs `TurnInv`, which
  ties the present stage to the reading it was entered at.
- `SerialParserProofs`: `ParserTypes`, `ParserStaysInBounds`,
  `LengthsAreOfFrames`. `InBounds` is inductive with the types: a body state is
  entered with an empty buffer and an admissible length, and left when the length
  is reached. `HostIsUnderstood`, `NothingElseIsDone` and `KilledOnlyByPauses` are
  about the parser with a host, for all bodies and widths, under the hypothesis
  that reads see pauses as they were (`~Stalls`; `v_stall` is the other case).
  `LinkInv` says, while both are in step, where the parser is in each command: what
  it has stored and what the host has still to send together are the body, the
  length it works with is the body's, and after an over-long frame it skips exactly
  what is left.
- `BurstProofs`: `PacketsFit`, `ChunksTile`, `EncodedDecodes` about the codec;
  `RxTypes`, `PacketsInOrder`, `PacketsWhole`, `LoopHandsOver` about the loop.
  `RxInv` orders the halves by the time they were on the air: those in the FIFO
  ascend, those read before lie below them, those to come above. As long as
  nothing was lost, a first half in the FIFO is followed by its second or is on
  the air still (`Paired`), so that a read that begins with a header gets a whole
  packet; a read that begins with a second half finds no header.
- `IpcRingProofs`: `RingIsFifo`, `RingOnlyLoses`, `RingTypes`. While the head has
  not gone round and no tail was moved in a read, counters are positions in the
  stream; `RingInv` says that the ring holds the bytes from tail to head, that the writer has room up to its end (`HasRoom`
  was true when it looked, and the tail only grows) and that the reader has copied
  the bytes behind the tail. What was handed on lies before the tail, and reaches
  up to it unless the writer moved it (`HandedOn`), which it only does forward: a
  writer that found no room moves the tail above the one it saw. The rest are facts about remainders: positions less than a capacity
  apart have different places. `RingTypes` has no such condition: whatever was
  raced or wrapped, a read under way has taken as much as it looked for, and no
  more than its buffer holds.
- `SessionProofs`: `NoMixedFrames`, `StreamsAreClean`, `SessionTypes`. `SessionInv`
  says that the parser is in a command of the client connected or of none, because `accept`
  resets it, and that what is left to write, after the unit in progress, is a
  sequence of whole frames that begins with the rest of the greeting. The types
  contain that no terminal names a frame that was not sent. This needs `Backed`:
  the frames taken, the command in the parser's hands and the beginnings of
  commands not yet read are together no more than the commands begun (a reset of
  the connection or of the parser loses some, nothing makes one); and `Numbered`:
  queue, terminals to be written and terminals told name frames taken.

Only model-checked: the liveness properties (`FramesSettled`, `ScanEnds`, `LoopEnds`,
`Heals`, `Drains`, `Answered`, `StatsKeepComing`, `Greeted`) and everything about
fairness, which is out of this prover's reach.

## 5. What is not modelled

- The opening of UART, sockets and shared memory, and the sizing of files.
- CRC-32, arithmetic on whole payloads, which the receiver here does not check:
  packets go to the host one by one.
- The counters of the statistics frame and the RSSI values, which nothing in the
  service reads back; the v2 selectors and the window, which are parsed only.
- Composition of all parts into one module: parser, worker and session each
  have the others as an environment that may do more than they do (any command at
  any time, terminals at any time), so that their invariants carry over.
- The vendored driver, HAL and FPIOA code, except for what its calls do to the
  chip; `host/sim_device.py`, a test double.
- The conversion of the sensor code to degrees, logging.
- `setOutputPower`'s result, which the worker does not look at: the call is taken
  to succeed on a live chip (in `init`, where it is looked at, it may fail). A failing `/dev/gpio` likewise.
- A guardian that publishes a level above 2.
- The head of a ring after 2^32 bytes: `Fifo` and `OnlyLosesOldest` hold up to
  there. The jump of the offset at the wrap garbles the bytes then in the ring;
  `Heals` and `Drains` cover it all the same.

## 6. Plan

1. An abstract specification of the line, in which commands are done one by one or
   lost whole, and the proof that `SerialLink` implements it; `RadioWorker` and
   `Session` take their commands from it.
2. What holds after a cutoff: `ConfigIsOnChip` from the first CONFIG that retunes.

## 7. Running

In this directory:

    tlc -workers 2 -config tx_thermal.cfg MCRadioWorker
    tlapm TxPathProofs.tla

`PROJECT.json` lists which module goes with which configuration, the source
lines of every definition, and for every property a mutated definition under
which it fails.
