---------------------------- MODULE RadioWorker ----------------------------
(***************************************************************************)
(* The radio worker of the K230 service (service/src/radio_worker.cpp),    *)
(* as the superloop of main.cpp drives it: the serial server hands it      *)
(* whole commands, then pollOnce runs its thermal, scan, receive and       *)
(* transmit parts in that order, on one thread.  What runs concurrently    *)
(* with that thread is modelled as it is: packets arrive in the LR2021's   *)
(* RX FIFO at any moment (AirPacket), and every chip call, temperature     *)
(* reading and guardian verdict is a choice of the environment.            *)
(*                                                                         *)
(* Time is abstracted to what it enables: "the dwell has elapsed" and      *)
(* "the 4 s thermal period is over" are choices.  radio_ok_ is left out:   *)
(* main.cpp exits when the first init fails and nothing clears it later,   *)
(* so it is TRUE whenever the superloop runs.  How bytes become commands   *)
(* is the subject of SerialParser, fan and CPU clock of ThermalGovernor.   *)
(***************************************************************************)
EXTENDS Integers, Sequences, FiniteSets, ThermalLevels

CONSTANTS
  CfgFreqs,       \* frequencies (MHz; 0 = "leave alone") the host's CONFIG asks for
  Powers,         \* TX powers (dBm) the host's CONFIG asks for
  Roles,          \* roles the host's CONFIG asks for: 0 BOTH, 1 TX_ONLY, 2 RX_ONLY
  ScanPlans,      \* sweeps [start, step, count] the host asks for
  Temps,          \* die temperatures (C) the local sensor may read
  GuardianLevels, \* levels the OS thermal guardian may publish
  AirKinds,       \* packets on the air: TRUE consensus, FALSE other; {} = silence
  FreqMayFail,    \* whether setFrequency may fail on a live chip
  InitMayFail,    \* whether init may fail at thermal recovery
  ResetPower,     \* TX power (dBm) of a chip that was reset and told none
  QueueCap,       \* tx_q_ limit (16 in the code)
  BurstSizes,     \* packets per frame (1..50 in the code)
  MaxFrames,      \* bound: frames accepted in a behaviour
  MaxCmds         \* bound: host commands in a behaviour

kDefaultFreq == 915
kMaxSafeBenchTxPowerDbm == 10
kThrottledTxPowerDbm == 4
kAttempts == 3
TX_ONLY == 1
RX_ONLY == 2

ASSUME ConstantsAssumption ==
  /\ CfgFreqs \subseteq Nat /\ Powers \subseteq Int /\ Roles \subseteq Nat
  /\ ScanPlans \subseteq [start : Nat, step : Nat, count : Nat \ {0}]
  /\ Temps \subseteq Int /\ GuardianLevels \subseteq 0..2
  /\ AirKinds \subseteq BOOLEAN
  /\ FreqMayFail \in BOOLEAN /\ InitMayFail \in BOOLEAN
  /\ ResetPower \in Int /\ ResetPower <= kMaxSafeBenchTxPowerDbm
  /\ QueueCap \in Nat \ {0} /\ BurstSizes \subseteq Nat \ {0}
  /\ MaxFrames \in Nat /\ MaxCmds \in Nat

VARIABLES
  pc,       \* where the superloop stands
  cfg,      \* cfg_: [freq, power, role]
  scan,     \* scan_*: [active, start, step, count, idx, consensus, home, heard]
  level,    \* thermal_level_
  down,     \* thermal_powered_down_
  chip,     \* the LR2021: [rail, up, freq, power, mode, fifo]
  txQ,      \* tx_q_: the frames waiting, as [id, total]
  pending,  \* st_.pending_tx_valid
  cur,      \* the frame transmitBurst is sending, with its loop variables
  ack,      \* the answer to the CONFIG just handled
  terms,    \* history: the terminals sent, with what had been radiated
  accepted, \* history: frames accepted
  asked,    \* history: the last frequency a CONFIG asked for
  cmds      \* history: host commands handled

vars == <<pc, cfg, scan, level, down, chip, txQ, pending, cur, ack, terms,
          accepted, asked, cmds>>

NoFrame == [id |-> 0, total |-> 0, idx |-> 0, attempt |-> 0, aired |-> {}]
NoAck == [ok |-> FALSE, freq |-> 0]

----------------------------------------------------------------------------
(* Chip calls.  A chip that is not up answers no SPI command.              *)

Standby(c) == IF c.up THEN [c EXCEPT !.mode = "standby"] ELSE c

SetFrequency(c, f, ok) == IF c.up /\ ok THEN [c EXCEPT !.freq = f] ELSE c

SetOutputPower(c, p) == IF c.up THEN [c EXCEPT !.power = p] ELSE c

(* Mutant: startReceive leaves the RX FIFO as it is.                       *)
ArmReceiveKeepsFifo(c, role) ==
  IF c.up /\ role # TX_ONLY THEN [c EXCEPT !.mode = "rx"] ELSE c

(* startReceive clears the IRQ bits and the RX FIFO and enters continuous  *)
(* RX; armReceive skips it for TX_ONLY.                                    *)
ArmReceive(c, role) ==
  IF c.up /\ role # TX_ONLY THEN [c EXCEPT !.mode = "rx", !.fifo = <<>>] ELSE c

PowerOff(c) == [c EXCEPT !.rail = FALSE, !.up = FALSE, !.mode = "off", !.fifo = <<>>]

(* A chip that findChip has reset and found: on, and in standby.           *)
Found(f, p) ==
  [rail |-> TRUE, up |-> TRUE, freq |-> f, power |-> p, mode |-> "standby", fifo |-> <<>>]

(* init: power the rail, beginFLRC(915 MHz, +10 dBm), then armReceive.     *)
Begin(c, role) == ArmReceive(Found(kDefaultFreq, kMaxSafeBenchTxPowerDbm), role)

(* What a failed beginFLRC may leave: no chip that answers; or a live chip *)
(* in standby, not tuned yet (a call before setFrequency failed), tuned    *)
(* (calibrate, setPaConfig, setPa, setRxPath or setOutputPower failed), or *)
(* with its power set as well (setOutputPower failed after the chip took   *)
(* it).                                                                    *)
BeginFails(c) ==
  {[PowerOff(c) EXCEPT !.rail = TRUE], Found(0, ResetPower), Found(kDefaultFreq, ResetPower),
   Found(kDefaultFreq, kMaxSafeBenchTxPowerDbm)}

FreqResults(c) == IF ~c.up THEN {FALSE} ELSE IF FreqMayFail THEN BOOLEAN ELSE {TRUE}

----------------------------------------------------------------------------
MaxPower(l) == IF l >= 1 THEN kThrottledTxPowerDbm ELSE kMaxSafeBenchTxPowerDbm

(* Mutant: the clamp ignores the throttle.                                 *)
ClampToBench(p, l) == IF p > MaxPower(0) THEN MaxPower(0) ELSE p

Clamp(p, l) == IF p > MaxPower(l) THEN MaxPower(l) ELSE p

(* applyConfig at level l on chip c; ok is what setFrequency returns.      *)
Unchanged(req, l) == ~scan.active /\ [req EXCEPT !.power = Clamp(@, l)] = cfg

Rejected(req, l, ok) == ~Unchanged(req, l) /\ req.freq > 0 /\ ~ok

(* Mutant: a failed setFrequency returns without re-arming RX.             *)
ConfiguredNoRearm(c, req, l, ok) ==
  LET new   == [req EXCEPT !.power = Clamp(@, l)]
      tuned == IF new.freq > 0 THEN SetFrequency(Standby(c), new.freq, ok) ELSE Standby(c)
  IN  IF Rejected(req, l, ok) THEN tuned
      ELSE ArmReceive(SetOutputPower(tuned, new.power), new.role)

Configured(c, req, l, ok) ==
  LET new   == [req EXCEPT !.power = Clamp(@, l)]
      tuned == IF new.freq > 0 THEN SetFrequency(Standby(c), new.freq, ok) ELSE Standby(c)
      done  == IF Rejected(req, l, ok) \/ new.power = cfg.power
               THEN tuned ELSE SetOutputPower(tuned, new.power)
  IN  ArmReceive(done, new.role)

applyConfig(c, req, l, ok) ==
  IF Unchanged(req, l)
  THEN chip' = c /\ UNCHANGED <<cfg, scan>>
  ELSE /\ cfg' = [req EXCEPT !.power = Clamp(@, l)]
       /\ scan' = [scan EXCEPT !.active = FALSE]
       /\ chip' = Configured(c, req, l, ok)

----------------------------------------------------------------------------
(* Commands, handled while the superloop is in the serial server.          *)

Command == pc = "server" /\ cmds < MaxCmds /\ cmds' = cmds + 1

handleConfig ==
  /\ Command
  /\ \E f \in CfgFreqs, p \in Powers, r \in Roles, ok \in FreqResults(chip) :
       LET req == [freq |-> f, power |-> p, role |-> r]
       IN  /\ applyConfig(chip, req, level, ok)
           /\ ack' = [ok |-> ~Rejected(req, level, ok), freq |-> f]
           /\ asked' = IF f > 0 THEN f ELSE asked
  /\ UNCHANGED <<pc, level, down, txQ, pending, cur, terms, accepted>>

(* Mutant: a restarted sweep takes the channel it is on for its home.      *)
startScanForgetsHome ==
  /\ Command
  /\ \E p \in ScanPlans, ok \in FreqResults(chip) :
       /\ scan' = [active |-> TRUE, start |-> p.start, step |-> p.step,
                   count |-> p.count, idx |-> 0, consensus |-> FALSE,
                   home |-> cfg.freq, heard |-> {}]
       /\ IF p.start > 0
          THEN /\ chip' = ArmReceive(SetFrequency(Standby(chip), p.start, ok), cfg.role)
               /\ cfg' = [cfg EXCEPT !.freq = p.start]
          ELSE UNCHANGED <<chip, cfg>>
  /\ pending' = FALSE
  /\ ack' = NoAck
  /\ UNCHANGED <<pc, level, down, txQ, cur, terms, accepted, asked>>

startScan ==
  /\ Command
  /\ \E p \in ScanPlans, ok \in FreqResults(chip) :
       /\ scan' = [active |-> TRUE, start |-> p.start, step |-> p.step,
                   count |-> p.count, idx |-> 0, consensus |-> FALSE,
                   home |-> IF ~scan.active /\ cfg.freq > 0 THEN cfg.freq ELSE scan.home,
                   heard |-> {}]
       /\ IF p.start > 0
          THEN /\ chip' = ArmReceive(SetFrequency(Standby(chip), p.start, ok), cfg.role)
               /\ cfg' = [cfg EXCEPT !.freq = p.start]
          ELSE UNCHANGED <<chip, cfg>>
  /\ pending' = FALSE
  /\ ack' = NoAck
  /\ UNCHANGED <<pc, level, down, txQ, cur, terms, accepted, asked>>

(* Mutants: frames are taken during cutoff; the limit is off by one.       *)
RefusedWhenFull == Len(txQ) >= QueueCap
RefusedAboveCap == level >= 2 \/ Len(txQ) > QueueCap

Refused == level >= 2 \/ Len(txQ) >= QueueCap

(* handleTx: E 0x04, the frame is not taken.                               *)
txBusy ==
  /\ Command
  /\ Refused
  /\ ack' = NoAck
  /\ UNCHANGED <<pc, cfg, scan, level, down, chip, txQ, pending, cur, terms, accepted, asked>>

enqueueTx ==
  /\ Command
  /\ ~Refused
  /\ accepted < MaxFrames
  /\ accepted' = accepted + 1
  /\ \E n \in BurstSizes : txQ' = Append(txQ, [id |-> accepted + 1, total |-> n])
  /\ pending' = TRUE
  /\ ack' = NoAck
  /\ UNCHANGED <<pc, cfg, scan, level, down, chip, cur, terms, asked>>

(* The server finds no further byte: pollOnce of the worker begins.        *)
serverIdle ==
  /\ pc = "server"
  /\ pc' = "thermal"
  /\ ack' = NoAck
  /\ UNCHANGED <<cfg, scan, level, down, chip, txQ, pending, cur, terms, accepted, asked, cmds>>

----------------------------------------------------------------------------
(* thermalTick.                                                            *)

NextLevels == GuardianLevels \cup {LocalLevel(t, level) : t \in Temps}

(* Mutant: the new level is added to the old one.                          *)
TickAddsUp(l) == pc = "thermal" /\ l \in NextLevels /\ l # level /\ level' = level + l

Tick(l) == pc = "thermal" /\ l \in NextLevels /\ l # level /\ level' = l

AfterThermal(l) == IF l >= 2 THEN "server" ELSE "scan"

(* Not due yet, no reading, or no change of level.                         *)
thermalHold ==
  /\ pc = "thermal"
  /\ pc' = AfterThermal(level)
  /\ UNCHANGED <<cfg, scan, level, down, chip, txQ, pending, cur, ack, terms, accepted, asked, cmds>>

Terminal(r, f, aired) == [res |-> r, id |-> f.id, total |-> f.total, aired |-> aired]

(* Mutants: the cutoff drops the queue silently; it answers the queued     *)
(* frames and forgets to empty the queue.                                  *)
thermalCutoffSilent ==
  /\ Tick(2)
  /\ chip' = PowerOff(chip)
  /\ down' = TRUE
  /\ txQ' = <<>>
  /\ pending' = FALSE
  /\ pc' = "server"
  /\ UNCHANGED <<cfg, scan, cur, ack, terms, accepted, asked, cmds>>

thermalCutoffKeepsQueue ==
  /\ Tick(2)
  /\ chip' = PowerOff(chip)
  /\ down' = TRUE
  /\ terms' = terms \o [i \in 1..Len(txQ) |-> Terminal("dropped", txQ[i], {})]
  /\ pc' = "server"
  /\ UNCHANGED <<cfg, scan, txQ, pending, cur, ack, accepted, asked, cmds>>

(* Cutoff: the rail goes off and every queued frame is answered.           *)
thermalCutoff ==
  /\ Tick(2)
  /\ chip' = PowerOff(chip)
  /\ down' = TRUE
  /\ terms' = terms \o [i \in 1..Len(txQ) |-> Terminal("dropped", txQ[i], {})]
  /\ txQ' = <<>>
  /\ pending' = FALSE
  /\ pc' = "server"
  /\ UNCHANGED <<cfg, scan, cur, ack, accepted, asked, cmds>>

thermalThrottle ==
  /\ Tick(1)
  /\ chip' = IF down THEN chip
             ELSE ArmReceive(SetOutputPower(Standby(chip), kThrottledTxPowerDbm), cfg.role)
  /\ pc' = "scan"
  /\ UNCHANGED <<cfg, scan, down, txQ, pending, cur, ack, terms, accepted, asked, cmds>>

(* Recovery of a powered-down radio: init, then applyConfig(saved_cfg).    *)
thermalRecover ==
  /\ Tick(0)
  /\ down
  /\ \E ok \in (IF FreqMayFail THEN BOOLEAN ELSE {TRUE}) :
       applyConfig(Begin(chip, cfg.role), cfg, 0, ok)
  /\ down' = FALSE
  /\ pc' = "scan"
  /\ UNCHANGED <<txQ, pending, cur, ack, terms, accepted, asked, cmds>>

(* init failed: thermal_powered_down_ stays set, the superloop goes on.    *)
thermalRecoverFails ==
  /\ Tick(0)
  /\ down /\ InitMayFail
  /\ chip' \in BeginFails(chip)
  /\ pc' = "scan"
  /\ UNCHANGED <<cfg, scan, down, txQ, pending, cur, ack, terms, accepted, asked, cmds>>

(* Mutant: the end of the throttle restores the bench limit, not cfg_.     *)
thermalRestoreBench ==
  /\ Tick(0)
  /\ ~down
  /\ chip' = ArmReceive(SetOutputPower(Standby(chip), MaxPower(0)), cfg.role)
  /\ pc' = "scan"
  /\ UNCHANGED <<cfg, scan, down, txQ, pending, cur, ack, terms, accepted, asked, cmds>>

thermalRestorePower ==
  /\ Tick(0)
  /\ ~down
  /\ chip' = ArmReceive(SetOutputPower(Standby(chip), cfg.power), cfg.role)
  /\ pc' = "scan"
  /\ UNCHANGED <<cfg, scan, down, txQ, pending, cur, ack, terms, accepted, asked, cmds>>

----------------------------------------------------------------------------
(* scanTick.                                                               *)

Channel(s) == s.start + s.idx * s.step

AfterScan == IF cfg.role = TX_ONLY THEN "service" ELSE "rx"

scanIdle ==
  /\ pc = "scan"
  /\ ~scan.active \/ ~scan.consensus   \* no sweep, or its dwell is not over
  /\ pc' = AfterScan
  /\ UNCHANGED <<cfg, scan, level, down, chip, txQ, pending, cur, ack, terms, accepted, asked, cmds>>

LastChannel == scan.idx + 1 >= scan.count

(* Mutant: the channel index is not advanced.                              *)
scanAdvanceStuck ==
  /\ pc = "scan" /\ scan.active /\ ~LastChannel
  /\ scan' = [scan EXCEPT !.consensus = FALSE, !.heard = {}]
  /\ chip' = ArmReceive(chip, cfg.role)
  /\ pc' = AfterScan
  /\ UNCHANGED <<cfg, level, down, txQ, pending, cur, ack, terms, accepted, asked, cmds>>

(* The dwell is over, or a consensus frame was heard: report and move on.  *)
scanAdvance ==
  /\ pc = "scan" /\ scan.active /\ ~LastChannel
  /\ \E ok \in FreqResults(chip) :
       LET next == [scan EXCEPT !.idx = @ + 1, !.consensus = FALSE, !.heard = {}]
       IN  /\ scan' = next
           /\ cfg' = [cfg EXCEPT !.freq = Channel(next)]
           /\ chip' = ArmReceive(SetFrequency(Standby(chip), Channel(next), ok), cfg.role)
  /\ pc' = AfterScan
  /\ UNCHANGED <<level, down, txQ, pending, cur, ack, terms, accepted, asked, cmds>>

(* The sweep is complete: back to the frequency saved at its start.        *)
scanFinish ==
  /\ pc = "scan" /\ scan.active /\ LastChannel
  /\ scan' = [scan EXCEPT !.idx = @ + 1, !.active = FALSE]
  /\ \E ok \in FreqResults(chip) :
       IF scan.home > 0
       THEN /\ chip' = ArmReceive(SetFrequency(Standby(chip), scan.home, ok), cfg.role)
            /\ cfg' = [cfg EXCEPT !.freq = scan.home]
       ELSE /\ chip' = ArmReceive(chip, cfg.role)
            /\ UNCHANGED cfg
  /\ pc' = AfterScan
  /\ UNCHANGED <<level, down, txQ, pending, cur, ack, terms, accepted, asked, cmds>>

----------------------------------------------------------------------------
(* Reception, at the grain scans depend on: one packet at a time, its      *)
(* channel remembered.                                                     *)

Packets == [freq : Nat, consensus : BOOLEAN]

(* Environment: the air, whenever the chip listens and the FIFO has room.  *)
AirPacket ==
  /\ chip.up /\ chip.mode = "rx" /\ chip.fifo = <<>>
  /\ \E c \in AirKinds : chip' = [chip EXCEPT !.fifo = <<[freq |-> chip.freq, consensus |-> c]>>]
  /\ UNCHANGED <<pc, cfg, scan, level, down, txQ, pending, cur, ack, terms, accepted, asked, cmds>>

(* readData succeeds: the packet is tallied when a sweep is on.            *)
rxPacket ==
  /\ pc = "rx" /\ chip.fifo # <<>>
  /\ chip' = [chip EXCEPT !.fifo = <<>>]
  /\ scan' = IF scan.active
             THEN [scan EXCEPT !.consensus = @ \/ Head(chip.fifo).consensus,
                               !.heard = @ \cup {Head(chip.fifo).freq}]
             ELSE scan
  /\ UNCHANGED <<pc, cfg, level, down, txQ, pending, cur, ack, terms, accepted, asked, cmds>>

(* The loop ends with nothing more to read, or after an error or an        *)
(* expired burst deadline cleared the FIFO.                                *)
rxDone ==
  /\ pc = "rx"
  /\ chip' \in {chip, ArmReceive(chip, cfg.role)}
  /\ pc' = "service"
  /\ UNCHANGED <<cfg, scan, level, down, txQ, pending, cur, ack, terms, accepted, asked, cmds>>

----------------------------------------------------------------------------
(* serviceTxQueue and transmitBurst.                                       *)

serviceNothing ==
  /\ pc = "service"
  /\ cfg.role = RX_ONLY \/ scan.active \/ txQ = <<>>
  /\ pc' = "server"
  /\ UNCHANGED <<cfg, scan, level, down, chip, txQ, pending, cur, ack, terms, accepted, asked, cmds>>

serviceTxQueue ==
  /\ pc = "service"
  /\ cfg.role # RX_ONLY /\ ~scan.active /\ txQ # <<>>
  /\ cur' = [NoFrame EXCEPT !.id = Head(txQ).id, !.total = Head(txQ).total]
  /\ txQ' = Tail(txQ)
  /\ pending' = (Len(txQ) > 1)
  /\ chip' = Standby(chip)
  /\ pc' = "tx"
  /\ UNCHANGED <<cfg, scan, level, down, ack, terms, accepted, asked, cmds>>

(* transmitBurst returns and serviceTxQueue sends the terminal.            *)
Settle(r, aired) ==
  /\ terms' = Append(terms, Terminal(r, cur, aired))
  /\ cur' = NoFrame
  /\ chip' = ArmReceive(chip, cfg.role)
  /\ pc' = "server"

(* Mutant: a packet given up after its attempts does not end the burst.    *)
AttemptFailsGoesOn(aired) ==
  IF cur.attempt + 1 < kAttempts
  THEN /\ cur' = [cur EXCEPT !.attempt = @ + 1, !.aired = aired]
       /\ UNCHANGED <<pc, chip, terms>>
  ELSE IF cur.idx + 1 < cur.total
  THEN /\ cur' = [cur EXCEPT !.idx = @ + 1, !.attempt = 0, !.aired = aired]
       /\ UNCHANGED <<pc, chip, terms>>
  ELSE Settle("ok", aired)

(* An attempt without TX_DONE; aired is what is on the air by now.         *)
AttemptFails(aired) ==
  IF cur.attempt + 1 < kAttempts
  THEN /\ cur' = [cur EXCEPT !.attempt = @ + 1, !.aired = aired]
       /\ UNCHANGED <<pc, chip, terms>>
  ELSE Settle("dropped", aired)

(* startTransmit returns an error: nothing is radiated.                    *)
txStartFails ==
  /\ pc = "tx"
  /\ AttemptFails(cur.aired)
  /\ UNCHANGED <<cfg, scan, level, down, txQ, pending, ack, accepted, asked, cmds>>

(* No TX_DONE within 25 ms, or a TIMEOUT interrupt: the packet may or may  *)
(* not have left.                                                          *)
txTimeout ==
  /\ pc = "tx" /\ chip.up
  /\ \E aired \in {cur.aired, cur.aired \cup {cur.idx}} : AttemptFails(aired)
  /\ UNCHANGED <<cfg, scan, level, down, txQ, pending, ack, accepted, asked, cmds>>

txPacketDone ==
  /\ pc = "tx" /\ chip.up
  /\ LET aired == cur.aired \cup {cur.idx}
     IN  IF cur.idx + 1 < cur.total
         THEN /\ cur' = [cur EXCEPT !.idx = @ + 1, !.attempt = 0, !.aired = aired]
              /\ UNCHANGED <<pc, chip, terms>>
         ELSE Settle("ok", aired)
  /\ UNCHANGED <<cfg, scan, level, down, txQ, pending, ack, accepted, asked, cmds>>

----------------------------------------------------------------------------
NoScan == [active |-> FALSE, start |-> 902, step |-> 1, count |-> 27, idx |-> 0,
           consensus |-> FALSE, home |-> kDefaultFreq, heard |-> {}]

(* main.cpp enters the superloop after a successful init with the default  *)
(* Config.                                                                 *)
Init ==
  /\ pc = "server"
  /\ cfg = [freq |-> kDefaultFreq, power |-> kMaxSafeBenchTxPowerDbm, role |-> 0]
  /\ scan = NoScan
  /\ level = 0 /\ down = FALSE
  /\ chip = [rail |-> TRUE, up |-> TRUE, freq |-> kDefaultFreq,
             power |-> kMaxSafeBenchTxPowerDbm, mode |-> "rx", fifo |-> <<>>]
  /\ txQ = <<>> /\ pending = FALSE /\ cur = NoFrame
  /\ ack = NoAck /\ terms = <<>> /\ accepted = 0 /\ asked = kDefaultFreq /\ cmds = 0

Server == handleConfig \/ startScan \/ txBusy \/ enqueueTx \/ serverIdle

Thermal == \/ thermalHold \/ thermalCutoff \/ thermalThrottle
           \/ thermalRecover \/ thermalRecoverFails \/ thermalRestorePower

Scan == scanIdle \/ scanAdvance \/ scanFinish

Receive == rxPacket \/ rxDone

Transmit == \/ serviceNothing \/ serviceTxQueue
            \/ txStartFails \/ txTimeout \/ txPacketDone

Next == Server \/ Thermal \/ Scan \/ Receive \/ Transmit \/ AirPacket

Spec == Init /\ [][Next]_vars

(* Fairness.  The superloop never blocks, so each of its stages goes on;   *)
(* a dwell that is polled again and again elapses; the air falls silent    *)
(* again and again, so that the receive loop ends.                         *)
Fairness ==
  /\ WF_vars(serverIdle) /\ WF_vars(Thermal) /\ WF_vars(Scan) /\ WF_vars(Transmit)
  /\ SF_vars(scanAdvance \/ scanFinish)
  /\ SF_vars(rxDone)

FairSpec == Spec /\ Fairness

----------------------------------------------------------------------------
(* Properties.                                                             *)

Stages == {"server", "thermal", "scan", "rx", "service", "tx"}
Frames == [id : Nat, total : Nat]
Configs == [freq : Nat, power : Int, role : Nat]
Sweeps == [active : BOOLEAN, start : Nat, step : Nat, count : Nat, idx : Nat,
           consensus : BOOLEAN, home : Nat, heard : SUBSET Nat]
Chips == [rail : BOOLEAN, up : BOOLEAN, freq : Nat, power : Int,
          mode : {"off", "standby", "rx"}, fifo : Seq(Packets)]
Bursts == [id : Nat, total : Nat, idx : Nat, attempt : Nat, aired : SUBSET Nat]
Terminals == [res : {"ok", "dropped"}, id : Nat, total : Nat, aired : SUBSET Nat]

(* Every variable of the worker keeps the type its declaration gives it.   *)
TypeOK ==
  /\ pc \in Stages /\ cfg \in Configs /\ scan \in Sweeps
  /\ level \in 0..2 /\ down \in BOOLEAN /\ chip \in Chips
  /\ txQ \in Seq(Frames) /\ pending \in BOOLEAN /\ cur \in Bursts
  /\ ack \in [ok : BOOLEAN, freq : Nat] /\ terms \in Seq(Terminals)
  /\ accepted \in Nat /\ asked \in Nat /\ cmds \in Nat

InFlight == IF pc = "tx" THEN 1 ELSE 0

(* Exactly one terminal per accepted frame, in order of acceptance         *)
(* (enqueueTx, serviceTxQueue, the drain of thermalTick): at every moment  *)
(* the answered frames, the frame on the air and the queue are, in this    *)
(* order, the accepted frames 1, 2, 3...                                   *)
OneTerminalEach ==
  /\ \A i \in 1..Len(terms) : terms[i].id = i
  /\ pc = "tx" => cur.id = Len(terms) + 1
  /\ \A i \in 1..Len(txQ) : txQ[i].id = Len(terms) + InFlight + i
  /\ accepted = Len(terms) + InFlight + Len(txQ)

(* Thermal cutoff (thermalTick, enqueueTx, serviceTxQueue): as long as it  *)
(* lasts the radio's rail is off, no frame waits and none is being sent,   *)
(* whatever the host asks meanwhile.                                       *)
CutoffSafe == level = 2 => ~chip.rail /\ ~chip.up /\ txQ = <<>> /\ pc # "tx"

(* A live chip never transmits above the limit of the thermal level        *)
(* (applyConfig's clamp, thermalTick's throttle, init's default); one that *)
(* a failed recovery left alive, thermal_powered_down_ still set, is kept  *)
(* under the bench limit only: see ThrottleReduces.                        *)
PowerCap == chip.up => chip.power <= MaxPower(IF down THEN 0 ELSE level)

(* tx_q_ never holds more than the limit enqueueTx tests it against, and   *)
(* pending_tx_valid is never set while it is empty.  That the limit is the *)
(* two slots the documents promise is TwoSlots.                            *)
QueueBounded == Len(txQ) <= QueueCap /\ (pending => txQ # <<>>)

(* A 'G' terminal is sent only when every packet of the burst was seen to  *)
(* leave (transmitBurst).                                                  *)
OkMeansAired ==
  \A i \in 1..Len(terms) : terms[i].res = "ok" => terms[i].aired = 0..(terms[i].total - 1)

(* Outside a burst a chip whose last init succeeded and that is not        *)
(* TX_ONLY is receiving, after every command, retune, failed retune,       *)
(* throttle, recovery and terminal (armReceive and its callers).           *)
Listening == ~down /\ cfg.role # TX_ONLY /\ pc # "tx" => chip.mode = "rx"

(* The inductive strengthening of CutoffSafe and PowerCap: a chip is live  *)
(* unless thermal_powered_down_ is set, the worker leaves pollOnce at once *)
(* under cutoff, and cfg_ never holds more than the bench limit.           *)
ThermalInv ==
  /\ CutoffSafe
  /\ PowerCap
  /\ level = 2 => pc \in {"server", "thermal"}
  /\ ~down => chip.up
  /\ cfg.power <= kMaxSafeBenchTxPowerDbm

(* The inductive strengthening of the properties of the TX path: frames    *)
(* have packets, and the packets before the current one have all left.     *)
BurstProgress ==
  pc = "tx" => /\ cur.idx < cur.total
               /\ 0..(cur.idx - 1) \subseteq cur.aired
               /\ cur.aired \subseteq 0..cur.idx

TxInv ==
  /\ OneTerminalEach
  /\ QueueBounded
  /\ OkMeansAired
  /\ \A i \in 1..Len(txQ) : txQ[i].total > 0
  /\ BurstProgress

(* What a sweep tallies for a channel was received on that channel: no     *)
(* packet left in the FIFO by the previous one is counted (scanTick,       *)
(* startScan, armReceive).  A sweep under way when a recovery fails is not *)
(* covered: init has moved its chip.  docs/protocol.md wants the first     *)
(* channel otherwise: see FirstDwellAtHome.                                *)
TallyOnChannel ==
  scan.active /\ scan.start > 0 /\ ~down => scan.heard \subseteq {Channel(scan)}

SweepDone == scan.active /\ ~scan'.active /\ scan'.idx = scan.idx + 1

(* A sweep that completes leaves radio and cfg_ on the frequency the host  *)
(* last configured, also when it was restarted on the way (startScan,      *)
(* scanTick).  docs/protocol.md wants the opposite: see NoReturnToHome.    *)
ScanReturnsHome == [][SweepDone => cfg'.freq = asked /\ chip'.freq = asked]_vars

(* cfg_, which applyConfig compares a CONFIG with to skip the retuning,    *)
(* agrees with what the chip was told; power is compared at level 0 only,  *)
(* where no throttle overrides it.                                         *)
ChipMatchesConfig ==
  chip.up => /\ cfg.freq > 0 => chip.freq = cfg.freq
             /\ level = 0 => chip.power = cfg.power

(* The same at thermal recovery, where thermalTick logs "resuming normal   *)
(* radio operation": the chip init has set up anew is where cfg_ says.     *)
RecoveryRestoresConfig ==
  [][down /\ ~down' => chip'.freq = cfg'.freq /\ chip'.power = cfg'.power]_vars

(* Every accepted frame is answered in the end (docs/protocol.md).         *)
FramesSettled == \A n \in 1..MaxFrames : accepted >= n ~> Len(terms) >= n

(* A sweep ends, unless a thermal cutoff stops the worker (scanTick).      *)
ScanEnds == scan.active ~> (~scan.active \/ level = 2)

(* The worker implements the TX contract, with as many slots as enqueueTx  *)
(* grants (TwoSlots is about their number): the refinement mapping forgets *)
(* everything but the results of the terminals.                            *)
Contract == INSTANCE TxContract WITH
  Slots <- QueueCap, settled <- [i \in 1..Len(terms) |-> terms[i].res]

ImplementsContract == Contract!Spec
----------------------------------------------------------------------------
(* Statements of the repository that the code does not keep.  TLC refutes  *)
(* each when it is added to tx_thermal.cfg or scan.cfg (see README.md).    *)

(* thermalTick logs "reducing TX power to +4 dBm" at every throttle: at    *)
(* level 1 no live chip is set above it.  Violated: the throttle skips a   *)
(* radio whose thermal_powered_down_ is set, and a recovery that failed    *)
(* after findChip leaves such a radio alive.                               *)
ThrottleReduces == level = 1 /\ chip.up => chip.power <= kThrottledTxPowerDbm

(* "The worker's only job is keeping the radio in RX" (radio_worker.hpp),  *)
(* so of every live chip.  Violated: a recovery that failed after findChip *)
(* leaves the chip in standby, and the superloop does not arm it.          *)
LiveMeansListening == chip.up /\ cfg.role # TX_ONLY /\ pc # "tx" => chip.mode = "rx"

(* applyConfig "returns false + reason if the radio rejects it"            *)
(* (radio_worker.hpp): a CONFIG answered with G finds the radio on its     *)
(* channel.  Violated: a rejected CONFIG has already replaced cfg_, so the *)
(* host's next copy of it takes the early return and is answered with G.   *)
AckedMeansTuned == ack.ok /\ ack.freq > 0 => chip.up /\ chip.freq = ack.freq

(* "Returns kBusy when both queue slots are occupied" (radio_worker.hpp,   *)
(* docs/protocol.md): at most two frames wait.  Violated with the 16 of    *)
(* the code.                                                               *)
TwoSlots == Len(txQ) <= 2

(* "First dwell listens on the pre-scan frequency while reporting start Hz *)
(* as channel 0" (docs/protocol.md).  Violated: startScan tunes to start.  *)
FirstDwellAtHome == scan.active /\ scan.idx = 0 => chip.freq = scan.home

(* "No return-to-home (the host retunes afterwards)" (docs/protocol.md):   *)
(* the end of a sweep leaves the radio on its last channel.  Violated:     *)
(* scanTick tunes back to pre_scan_freq_hz_.                               *)
NoReturnToHome == [][SweepDone => chip'.freq = chip.freq]_vars
=============================================================================
