--------------------------- MODULE ReceiverProofs ---------------------------
(***************************************************************************)
(* The receiver of RadioWorker: it listens whenever it should, and what a  *)
(* sweep tallies for a channel was heard on that channel, as long as init  *)
(* succeeds.  Without a cutoff the chip also is where cfg_ says, and a     *)
(* sweep ends on the frequency the host configured.                        *)
(***************************************************************************)
EXTENDS RadioWorkerProofs

(* The receive loop runs only with a role that receives.                   *)
Polls == pc = "rx" => cfg.role # TX_ONLY

(* What waits in the FIFO of a receiving chip came in on its frequency.    *)
Fresh ==
  /\ ~chip.up => chip.fifo = <<>>
  /\ cfg.role # TX_ONLY /\ chip.fifo # <<>> => Head(chip.fifo).freq = chip.freq

(* A radio that is not powered down answers.                               *)
Alive == ~down => chip.up

(* During a sweep such a radio is on the channel of the sweep.             *)
OnChannel == scan.active /\ scan.start > 0 /\ ~down => chip.freq = Channel(scan)

ReceiverInv ==
  Alive /\ Listening /\ Polls /\ Fresh /\ (~FreqMayFail => OnChannel /\ TallyOnChannel)

(* What the chip calls do to frequency, mode and FIFO.                     *)
LEMMA ChipCallsAir ==
  ASSUME NEW c \in Chips
  PROVE  /\ Standby(c).freq = c.freq /\ Standby(c).fifo = c.fifo
         /\ \A f \in Nat, ok \in BOOLEAN :
              /\ SetFrequency(c, f, ok).freq = (IF c.up /\ ok THEN f ELSE c.freq)
              /\ SetFrequency(c, f, ok).fifo = c.fifo
         /\ \A p \in Int :
              SetOutputPower(c, p).freq = c.freq /\ SetOutputPower(c, p).fifo = c.fifo
         /\ \A r \in Nat :
              /\ ArmReceive(c, r).freq = c.freq
              /\ c.up /\ r # TX_ONLY => ArmReceive(c, r).mode = "rx" /\ ArmReceive(c, r).fifo = <<>>
              /\ ~(c.up /\ r # TX_ONLY) => ArmReceive(c, r).fifo = c.fifo
<1>1. Standby(c).freq = c.freq /\ Standby(c).fifo = c.fifo
  BY DEF Chips, Standby
<1>2. \A f \in Nat, ok \in BOOLEAN :
        /\ SetFrequency(c, f, ok).freq = (IF c.up /\ ok THEN f ELSE c.freq)
        /\ SetFrequency(c, f, ok).fifo = c.fifo
  BY DEF Chips, SetFrequency
<1>3. \A p \in Int : SetOutputPower(c, p).freq = c.freq /\ SetOutputPower(c, p).fifo = c.fifo
  BY DEF Chips, SetOutputPower
<1>4. \A r \in Nat :
        /\ ArmReceive(c, r).freq = c.freq
        /\ c.up /\ r # TX_ONLY => ArmReceive(c, r).mode = "rx" /\ ArmReceive(c, r).fifo = <<>>
        /\ ~(c.up /\ r # TX_ONLY) => ArmReceive(c, r).fifo = c.fifo
  BY DEF Chips, ArmReceive
<1> QED  BY <1>1, <1>2, <1>3, <1>4

(* Chip d is chip c after a standby, perhaps a retuning or a change of     *)
(* power, and armReceive for role r.                                       *)
Rearmed(d, c, r) ==
  /\ d.up = c.up
  /\ c.up /\ r # TX_ONLY => d.mode = "rx" /\ d.fifo = <<>>
  /\ ~(c.up /\ r # TX_ONLY) => d.fifo = c.fifo

LEMMA RetuneAir ==
  ASSUME NEW c \in Chips, NEW f \in Nat, NEW ok \in BOOLEAN, NEW r \in Nat
  PROVE  LET d == ArmReceive(SetFrequency(Standby(c), f, ok), r)
         IN  Rearmed(d, c, r) /\ d.freq = (IF c.up /\ ok THEN f ELSE c.freq)
<1> DEFINE s == Standby(c)
           t == SetFrequency(s, f, ok)
<1>1. s \in Chips /\ s.up = c.up /\ s.freq = c.freq /\ s.fifo = c.fifo
  BY ChipCalls, ChipCallsKeep, ChipCallsAir
<1> HIDE DEF s
<1>2. t \in Chips /\ t.up = c.up /\ t.freq = (IF c.up /\ ok THEN f ELSE c.freq) /\ t.fifo = c.fifo
  <2>1. t \in Chips
    BY <1>1, ChipCalls
  <2>2. t.up = c.up
    BY <1>1, ChipCallsKeep
  <2>3. t.freq = (IF s.up /\ ok THEN f ELSE s.freq) /\ t.fifo = s.fifo
    BY <1>1, ChipCallsAir
  <2> QED  BY <1>1, <2>1, <2>2, <2>3, Zenon
<1> HIDE DEF t
<1>3. Rearmed(ArmReceive(t, r), c, r) /\ ArmReceive(t, r).freq = (IF c.up /\ ok THEN f ELSE c.freq)
  BY <1>2, ChipCallsKeep, ChipCallsAir DEF Rearmed
<1> QED  BY <1>3 DEF s, t

LEMMA RepowerAir ==
  ASSUME NEW c \in Chips, NEW p \in Int, NEW r \in Nat
  PROVE  LET d == ArmReceive(SetOutputPower(Standby(c), p), r)
         IN  Rearmed(d, c, r) /\ d.freq = c.freq
<1> DEFINE s == Standby(c)
           t == SetOutputPower(s, p)
<1>1. s \in Chips /\ s.up = c.up /\ s.freq = c.freq /\ s.fifo = c.fifo
  BY ChipCalls, ChipCallsKeep, ChipCallsAir
<1> HIDE DEF s
<1>2. t \in Chips /\ t.up = c.up /\ t.freq = c.freq /\ t.fifo = c.fifo
  BY <1>1, ChipCalls, ChipCallsKeep, ChipCallsAir
<1> HIDE DEF t
<1>3. Rearmed(ArmReceive(t, r), c, r) /\ ArmReceive(t, r).freq = c.freq
  BY <1>2, ChipCallsKeep, ChipCallsAir DEF Rearmed
<1> QED  BY <1>3 DEF s, t

(* applyConfig: nothing at all, or the sweep ends and RX is armed anew.    *)
LEMMA ApplyConfigAir ==
  ASSUME NEW c \in Chips, NEW req \in Configs, NEW l \in 0..2, NEW ok \in BOOLEAN,
         cfg \in Configs, scan \in Sweeps, applyConfig(c, req, l, ok)
  PROVE  \/ chip' = c /\ cfg' = cfg /\ scan' = scan /\ ~scan.active /\ cfg.role = req.role
         \/ Rearmed(chip', c, req.role) /\ cfg'.role = req.role /\ ~scan'.active
<1> DEFINE new == [req EXCEPT !.power = Clamp(@, l)]
           s == Standby(c)
           tuned == IF new.freq > 0 THEN SetFrequency(s, new.freq, ok) ELSE s
           done == IF Rejected(req, l, ok) \/ new.power = cfg.power
                   THEN tuned ELSE SetOutputPower(tuned, new.power)
<1>1. new \in Configs /\ new.role = req.role
  BY ClampBound DEF Configs
<1>2. CASE Unchanged(req, l)
  <2>1. chip' = c /\ cfg' = cfg /\ scan' = scan /\ ~scan.active /\ new = cfg
    BY <1>2 DEF applyConfig, Unchanged
  <2> QED  BY <1>1, <2>1
<1>3. CASE ~Unchanged(req, l)
  <2>1. chip' = ArmReceive(done, new.role) /\ cfg' = new /\ scan' = [scan EXCEPT !.active = FALSE]
    BY <1>3 DEF applyConfig, Configured
  <2>2. ~scan'.active
    BY <2>1 DEF Sweeps
  <2> HIDE DEF new
  <2>3. s \in Chips /\ s.up = c.up /\ s.fifo = c.fifo
    BY ChipCalls, ChipCallsKeep, ChipCallsAir
  <2> HIDE DEF s
  <2>4. new.freq \in Nat /\ new.power \in Int /\ new.role \in Nat
    BY <1>1 DEF Configs
  <2>5. tuned \in Chips /\ tuned.up = c.up /\ tuned.fifo = c.fifo
    BY <2>3, <2>4, ChipCalls, ChipCallsKeep, ChipCallsAir
  <2> HIDE DEF tuned
  <2>6. done \in Chips /\ done.up = c.up /\ done.fifo = c.fifo
    BY <2>4, <2>5, ChipCalls, ChipCallsKeep, ChipCallsAir
  <2> HIDE DEF done
  <2>7. Rearmed(ArmReceive(done, new.role), c, new.role)
    BY <2>4, <2>6, ChipCallsKeep, ChipCallsAir DEF Rearmed
  <2> QED  BY <1>1, <2>1, <2>2, <2>7
<1> QED  BY <1>2, <1>3

----------------------------------------------------------------------------
LEMMA ReceiverInit == Init => ReceiverInv
BY DEF Init, ReceiverInv, Alive, Listening, Polls, Fresh, OnChannel, TallyOnChannel, NoScan

(* Steps that leave radio, configuration and sweep alone.                  *)
LEMMA ReceiverFrame ==
  ASSUME ReceiverInv, UNCHANGED <<chip, cfg, scan, down>>, pc = "tx" => pc' = "tx",
         pc' = "rx" => cfg.role # TX_ONLY
  PROVE  ReceiverInv'
BY DEF ReceiverInv, Alive, Listening, Polls, Fresh, OnChannel, TallyOnChannel, Channel

(* Steps that arm RX anew and do not touch the sweep.                      *)
LEMMA ReceiverRearm ==
  ASSUME ReceiverInv, Rearmed(chip', chip, cfg.role), UNCHANGED <<cfg, scan, down>>,
         chip'.freq = chip.freq, pc' = "rx" => cfg.role # TX_ONLY
  PROVE  ReceiverInv'
<1>1. Alive' /\ Listening' /\ Polls' /\ Fresh'
  BY DEF ReceiverInv, Alive, Listening, Polls, Fresh, Rearmed
<1>2. ~FreqMayFail => OnChannel' /\ TallyOnChannel'
  BY DEF ReceiverInv, OnChannel, TallyOnChannel, Channel, Rearmed
<1> QED  BY <1>1, <1>2 DEF ReceiverInv

(* Steps that retune the chip, tally nothing and leave it on the channel.  *)
LEMMA ReceiverRetune ==
  ASSUME ReceiverInv, NEW r, cfg'.role = r, Rearmed(chip', chip, r), r # TX_ONLY \/ pc' # "rx",
         down' = down,
         r = TX_ONLY \/ cfg.role # TX_ONLY \/ ~chip.up \/ chip'.fifo = <<>>,
         ~FreqMayFail /\ scan'.active /\ scan'.start > 0 =>
           scan'.heard = {} /\ (chip.up => chip'.freq = Channel(scan'))
  PROVE  ReceiverInv'
<1>1. Alive' /\ Listening' /\ Polls'
  BY DEF ReceiverInv, Alive, Listening, Polls, Rearmed
<1>2. Fresh'
  BY DEF ReceiverInv, Fresh, Rearmed
<1>3. ~FreqMayFail => OnChannel' /\ TallyOnChannel'
  BY DEF ReceiverInv, Alive, OnChannel, TallyOnChannel, Channel
<1> QED  BY <1>1, <1>2, <1>3 DEF ReceiverInv

LEMMA FreqResult ==
  ASSUME NEW ok \in FreqResults(chip)
  PROVE  ok \in BOOLEAN /\ (~FreqMayFail /\ chip.up => ok)
BY DEF FreqResults

LEMMA ReceiverConfig ==
  ASSUME TypeOK, ReceiverInv, handleConfig
  PROVE  ReceiverInv'
<1>1. PICK f \in CfgFreqs, p \in Powers, r \in Roles, ok \in FreqResults(chip) :
        applyConfig(chip, [freq |-> f, power |-> p, role |-> r], level, ok)
  BY DEF handleConfig
<1> DEFINE req == [freq |-> f, power |-> p, role |-> r]
<1>2. req \in Configs /\ req.role = r /\ ok \in BOOLEAN
  BY ConstantsAssumption, FreqResult DEF Configs
<1> HIDE DEF req
<1>3. /\ pc' = "server" /\ pc = "server" /\ down' = down
      /\ chip \in Chips /\ level \in 0..2 /\ cfg \in Configs /\ scan \in Sweeps
  BY DEF handleConfig, Command, TypeOK
<1>4. applyConfig(chip, req, level, ok)
  BY <1>1 DEF req
<1>5. \/ chip' = chip /\ cfg' = cfg /\ scan' = scan
      \/ Rearmed(chip', chip, r) /\ cfg'.role = r /\ ~scan'.active
  BY <1>2, <1>3, <1>4, ApplyConfigAir
<1>6. CASE chip' = chip /\ cfg' = cfg /\ scan' = scan
  BY <1>3, <1>6, ReceiverFrame
<1>7. CASE Rearmed(chip', chip, r) /\ cfg'.role = r /\ ~scan'.active
  <2>1. r = TX_ONLY \/ ~chip.up \/ chip'.fifo = <<>>
    BY <1>7 DEF Rearmed
  <2> QED  BY <1>3, <1>7, <2>1, ReceiverRetune
<1> QED  BY <1>5, <1>6, <1>7

LEMMA ReceiverStartScan ==
  ASSUME TypeOK, ReceiverInv, startScan
  PROVE  ReceiverInv'
<1>1. PICK p \in ScanPlans, ok \in FreqResults(chip) :
        /\ scan' = [active |-> TRUE, start |-> p.start, step |-> p.step,
                    count |-> p.count, idx |-> 0, consensus |-> FALSE,
                    home |-> IF ~scan.active /\ cfg.freq > 0 THEN cfg.freq ELSE scan.home,
                    heard |-> {}]
        /\ IF p.start > 0
           THEN /\ chip' = ArmReceive(SetFrequency(Standby(chip), p.start, ok), cfg.role)
                /\ cfg' = [cfg EXCEPT !.freq = p.start]
           ELSE UNCHANGED <<chip, cfg>>
  BY DEF startScan
<1>2. p.start \in Nat /\ p.step \in Nat /\ ok \in BOOLEAN /\ (~FreqMayFail /\ chip.up => ok)
  BY ConstantsAssumption, FreqResult
<1>3. pc' = pc /\ pc = "server" /\ down' = down /\ chip \in Chips /\ cfg \in Configs /\ cfg.role \in Nat
  BY DEF startScan, Command, TypeOK, Configs
<1>4. scan'.start = p.start /\ scan'.heard = {} /\ Channel(scan') = p.start
  <2>1. scan'.start = p.start /\ scan'.heard = {} /\ scan'.idx = 0 /\ scan'.step = p.step
    BY <1>1
  <2> QED  BY <1>2, <2>1 DEF Channel
<1>5. CASE p.start > 0
  <2>1. Rearmed(chip', chip, cfg.role) /\ chip'.freq = (IF chip.up /\ ok THEN p.start ELSE chip.freq)
    BY <1>1, <1>2, <1>3, <1>5, RetuneAir
  <2>2. cfg'.role = cfg.role
    BY <1>1, <1>3, <1>5 DEF Configs
  <2>3. ~FreqMayFail => (chip.up => chip'.freq = Channel(scan'))
    BY <1>2, <1>4, <2>1
  <2> QED  BY <1>3, <1>4, <2>1, <2>2, <2>3, ReceiverRetune
<1>6. CASE ~(p.start > 0)
  <2>1. UNCHANGED <<chip, cfg, pc, down>> /\ ~(scan'.start > 0)
    BY <1>1, <1>3, <1>4, <1>6
  <2> QED  BY <2>1 DEF ReceiverInv, Alive, Listening, Polls, Fresh, OnChannel, TallyOnChannel
<1> QED  BY <1>5, <1>6

LEMMA ReceiverThermal ==
  ASSUME TypeOK, ReceiverInv, Thermal
  PROVE  ReceiverInv'
<1>0. chip \in Chips /\ cfg \in Configs /\ cfg.role \in Nat /\ cfg.power \in Int /\ scan \in Sweeps
  BY DEF TypeOK, Configs
<1>1. CASE thermalHold
  BY <1>1, ReceiverFrame DEF thermalHold, AfterThermal
<1>2. CASE thermalCutoff
  <2>1. chip' = PowerOff(chip) /\ UNCHANGED <<cfg, scan>> /\ pc' = "server" /\ down'
    BY <1>2 DEF thermalCutoff
  <2>2. chip'.fifo = <<>>
    BY <1>0, <2>1 DEF Chips, PowerOff
  <2> QED  BY <2>1, <2>2 DEF ReceiverInv, Alive, Listening, Polls, Fresh, OnChannel, TallyOnChannel, Channel
<1>3. CASE thermalThrottle
  <2>1. UNCHANGED <<cfg, scan, down>> /\ pc' = "scan" /\ pc = "thermal"
    BY <1>3 DEF thermalThrottle, Tick
  <2>2. CASE down
    <3>1. chip' = chip
      BY <1>3, <2>2 DEF thermalThrottle
    <3> QED  BY <2>1, <3>1, ReceiverFrame
  <2>3. CASE ~down
    <3>1. chip' = ArmReceive(SetOutputPower(Standby(chip), kThrottledTxPowerDbm), cfg.role)
      BY <1>3, <2>3 DEF thermalThrottle
    <3>2. Rearmed(chip', chip, cfg.role) /\ chip'.freq = chip.freq
      BY <1>0, <3>1, RepowerAir DEF kThrottledTxPowerDbm
    <3> QED  BY <2>1, <3>2, ReceiverRearm
  <2> QED  BY <2>2, <2>3
<1>4. CASE thermalRecover
  <2>1. PICK ok \in BOOLEAN : applyConfig(Begin(chip, cfg.role), cfg, 0, ok)
    BY <1>4 DEF thermalRecover
  <2> DEFINE c == Begin(chip, cfg.role)
             b == Found(kDefaultFreq, kMaxSafeBenchTxPowerDbm)
  <2>2. b \in Chips /\ b.up /\ b.fifo = <<>>
    BY FoundChip
  <2>3. c = ArmReceive(b, cfg.role)
    BY DEF Begin
  <2> HIDE DEF b
  <2>4. c \in Chips /\ c.up = b.up /\ c.fifo = <<>> /\ (cfg.role # TX_ONLY => c.mode = "rx")
    <3>0. c \in Chips
      BY <1>0, ChipCalls
    <3>1. c.up = b.up
      <4>1. ArmReceive(b, cfg.role).up = b.up
        BY <1>0, <2>2, ChipCallsKeep, Zenon
      <4> QED  BY <2>3, <4>1, Zenon
    <3>2. c.fifo = <<>> /\ (cfg.role # TX_ONLY => c.mode = "rx")
      BY <1>0, <2>2, <2>3, ChipCallsAir
    <3> QED  BY <3>0, <3>1, <3>2
  <2> HIDE DEF c
  <2>5. \/ chip' = c /\ cfg' = cfg /\ ~scan'.active
        \/ Rearmed(chip', c, cfg.role) /\ cfg'.role = cfg.role /\ ~scan'.active
    <3>1. applyConfig(c, cfg, 0, ok) /\ 0 \in 0..2
      BY <2>1 DEF c
    <3> QED  BY <1>0, <2>4, <3>1, ApplyConfigAir
  <2>6. pc' = "scan"
    BY <1>4 DEF thermalRecover
  <2>7. chip'.fifo = <<>> /\ cfg'.role = cfg.role /\ ~scan'.active /\ (cfg.role # TX_ONLY => chip'.mode = "rx")
    BY <2>2, <2>4, <2>5 DEF Rearmed
  <2>8. chip'.up
    BY <2>2, <2>4, <2>5 DEF Rearmed
  <2> QED  BY <2>6, <2>7, <2>8 DEF ReceiverInv, Alive, Listening, Polls, Fresh, OnChannel, TallyOnChannel
<1>5. CASE thermalRecoverFails
  <2>1. chip' \in BeginFails(chip) /\ UNCHANGED <<cfg, scan>> /\ pc' = "scan" /\ down'
    BY <1>5 DEF thermalRecoverFails
  <2>2. chip'.fifo = <<>>
    <3> DEFINE dead == [PowerOff(chip) EXCEPT !.rail = TRUE]
    <3>1. dead.fifo = <<>>
      BY <1>0 DEF Chips, PowerOff
    <3>2. chip' \in {dead, Found(0, ResetPower), Found(kDefaultFreq, ResetPower),
                     Found(kDefaultFreq, kMaxSafeBenchTxPowerDbm)}
      BY <2>1 DEF BeginFails
    <3> HIDE DEF dead
    <3> QED  BY <3>1, <3>2, FoundChip
  <2> QED  BY <2>1, <2>2 DEF ReceiverInv, Alive, Listening, Polls, Fresh, OnChannel, TallyOnChannel, Channel
<1>6. CASE thermalRestorePower
  <2>1. /\ UNCHANGED <<cfg, scan, down>> /\ pc' = "scan"
        /\ chip' = ArmReceive(SetOutputPower(Standby(chip), cfg.power), cfg.role)
    BY <1>6 DEF thermalRestorePower
  <2>2. Rearmed(chip', chip, cfg.role) /\ chip'.freq = chip.freq
    BY <1>0, <2>1, RepowerAir
  <2> QED  BY <2>1, <2>2, ReceiverRearm
<1> QED  BY <1>1, <1>2, <1>3, <1>4, <1>5, <1>6 DEF Thermal

LEMMA ReceiverScan ==
  ASSUME TypeOK, ReceiverInv, Scan
  PROVE  ReceiverInv'
<1>0. chip \in Chips /\ cfg \in Configs /\ cfg.role \in Nat /\ scan \in Sweeps
  BY DEF TypeOK, Configs
<1>1. CASE scanIdle
  BY <1>1, ReceiverFrame DEF scanIdle, AfterScan
<1>2. CASE scanAdvance
  <2> DEFINE next == [scan EXCEPT !.idx = @ + 1, !.consensus = FALSE, !.heard = {}]
  <2>1. PICK ok \in FreqResults(chip) :
          /\ scan' = next /\ cfg' = [cfg EXCEPT !.freq = Channel(next)]
          /\ chip' = ArmReceive(SetFrequency(Standby(chip), Channel(next), ok), cfg.role)
    BY <1>2 DEF scanAdvance
  <2>2. Channel(next) \in Nat /\ next.heard = {}
    <3>1. /\ next.start = scan.start /\ next.step = scan.step /\ next.idx = scan.idx + 1 /\ next.heard = {}
          /\ scan.start \in Nat /\ scan.step \in Nat /\ scan.idx \in Nat
      BY <1>0 DEF Sweeps
    <3> HIDE DEF next
    <3>2. \A a, b, k \in Nat : a + (k + 1) * b \in Nat
      OBVIOUS
    <3> QED  BY <3>1, <3>2 DEF Channel
  <2> HIDE DEF next
  <2>3. ok \in BOOLEAN /\ (~FreqMayFail /\ chip.up => ok)
    BY FreqResult
  <2>4. Rearmed(chip', chip, cfg.role) /\ chip'.freq = (IF chip.up /\ ok THEN Channel(next) ELSE chip.freq)
    BY <1>0, <2>1, <2>2, <2>3, RetuneAir
  <2>5. cfg'.role = cfg.role
    BY <1>0, <2>1 DEF Configs
  <2>6. (cfg.role # TX_ONLY \/ pc' # "rx") /\ down' = down
    BY <1>2 DEF scanAdvance, AfterScan
  <2>7. scan'.heard = {} /\ (~FreqMayFail => (chip.up => chip'.freq = Channel(scan')))
    BY <2>1, <2>2, <2>3, <2>4
  <2> QED  BY <2>4, <2>5, <2>6, <2>7, ReceiverRetune
<1>3. CASE scanFinish
  <2>1. PICK ok \in FreqResults(chip) :
          IF scan.home > 0
          THEN /\ chip' = ArmReceive(SetFrequency(Standby(chip), scan.home, ok), cfg.role)
               /\ cfg' = [cfg EXCEPT !.freq = scan.home]
          ELSE /\ chip' = ArmReceive(chip, cfg.role)
               /\ UNCHANGED cfg
    BY <1>3 DEF scanFinish
  <2>2. scan.home \in Nat /\ ~scan'.active /\ ok \in BOOLEAN
    BY <1>0, <1>3, FreqResult DEF scanFinish, Sweeps
  <2>3. (cfg.role # TX_ONLY \/ pc' # "rx") /\ down' = down
    BY <1>3 DEF scanFinish, AfterScan
  <2>4. Rearmed(chip', chip, cfg.role) /\ cfg'.role = cfg.role
    <3>1. CASE scan.home > 0
      BY <1>0, <2>1, <2>2, <3>1, RetuneAir DEF Configs
    <3>2. CASE ~(scan.home > 0)
      BY <1>0, <2>1, <3>2, ChipCallsKeep, ChipCallsAir DEF Rearmed
    <3> QED  BY <3>1, <3>2
  <2> QED  BY <2>2, <2>3, <2>4, ReceiverRetune
<1> QED  BY <1>1, <1>2, <1>3 DEF Scan

LEMMA ReceiverReceive ==
  ASSUME TypeOK, ReceiverInv, Receive \/ AirPacket
  PROVE  ReceiverInv'
<1>0. chip \in Chips /\ cfg \in Configs /\ cfg.role \in Nat /\ scan \in Sweeps
  BY DEF TypeOK, Configs
<1>1. CASE rxPacket
  <2>1. pc = "rx" /\ UNCHANGED <<pc, cfg, down>> /\ chip.fifo # <<>> /\ chip' = [chip EXCEPT !.fifo = <<>>]
    BY <1>1 DEF rxPacket
  <2>2. cfg.role # TX_ONLY /\ chip.up /\ Head(chip.fifo).freq = chip.freq
    BY <2>1 DEF ReceiverInv, Polls, Fresh
  <2>3. chip'.up = chip.up /\ chip'.fifo = <<>> /\ chip'.mode = chip.mode /\ chip'.freq = chip.freq
    BY <1>0, <2>1 DEF Chips
  <2>4. /\ scan'.active = scan.active /\ Channel(scan') = Channel(scan) /\ scan'.start = scan.start
        /\ scan.active => scan'.heard = scan.heard \cup {chip.freq}
    <3>1. CASE scan.active
      <4>1. scan' = [scan EXCEPT !.consensus = @ \/ Head(chip.fifo).consensus,
                                 !.heard = @ \cup {Head(chip.fifo).freq}]
        BY <1>1, <3>1 DEF rxPacket
      <4>2. /\ scan'.active = scan.active /\ scan'.start = scan.start /\ scan'.step = scan.step
            /\ scan'.idx = scan.idx /\ scan'.heard = scan.heard \cup {Head(chip.fifo).freq}
        BY <1>0, <4>1 DEF Sweeps
      <4> QED  BY <2>2, <4>2, Zenon DEF Channel
    <3>2. CASE ~scan.active
      BY <1>1, <3>2 DEF rxPacket, Channel
    <3> QED  BY <3>1, <3>2
  <2>5. Alive' /\ Listening' /\ Polls' /\ Fresh'
    BY <2>1, <2>2, <2>3 DEF ReceiverInv, Alive, Listening, Polls, Fresh
  <2>6. ~FreqMayFail => OnChannel' /\ TallyOnChannel'
    <3> SUFFICES ASSUME ~FreqMayFail, scan'.active, scan'.start > 0, ~down
                 PROVE  chip'.freq = Channel(scan') /\ scan'.heard \subseteq {Channel(scan')}
      BY <2>1 DEF OnChannel, TallyOnChannel, Channel
    <3>1. chip.freq = Channel(scan) /\ scan.heard \subseteq {Channel(scan)} /\ scan.active
      BY <2>2, <2>4 DEF ReceiverInv, OnChannel, TallyOnChannel
    <3>2. chip'.freq = Channel(scan')
      BY <2>3, <2>4, <3>1
    <3>3. scan'.heard = scan.heard \cup {Channel(scan)}
      BY <2>4, <3>1
    <3> QED  BY <2>4, <3>1, <3>2, <3>3
  <2> QED  BY <2>5, <2>6 DEF ReceiverInv
<1>2. CASE rxDone
  <2>1. pc' = "service" /\ pc = "rx" /\ UNCHANGED <<cfg, scan, down>> /\ chip' \in {chip, ArmReceive(chip, cfg.role)}
    BY <1>2 DEF rxDone
  <2>2. CASE chip' = chip
    BY <2>1, <2>2, ReceiverFrame
  <2>3. CASE chip' = ArmReceive(chip, cfg.role)
    <3>1. Rearmed(chip', chip, cfg.role) /\ chip'.freq = chip.freq
      BY <1>0, <2>3, ChipCallsKeep, ChipCallsAir DEF Rearmed
    <3> QED  BY <2>1, <3>1, ReceiverRearm
  <2> QED  BY <2>1, <2>2, <2>3
<1>3. CASE AirPacket
  <2>1. PICK k \in AirKinds : chip' = [chip EXCEPT !.fifo = <<[freq |-> chip.freq, consensus |-> k]>>]
    BY <1>3 DEF AirPacket
  <2>2. chip.up /\ UNCHANGED <<pc, cfg, scan, down>>
    BY <1>3 DEF AirPacket
  <2>3. /\ chip'.up = chip.up /\ chip'.mode = chip.mode /\ chip'.freq = chip.freq
        /\ chip'.fifo = <<[freq |-> chip.freq, consensus |-> k]>>
    BY <1>0, <2>1 DEF Chips
  <2>4. Head(chip'.fifo).freq = chip'.freq
    BY <2>3
  <2>5. Alive' /\ Listening' /\ Polls' /\ Fresh'
    BY <2>2, <2>3, <2>4 DEF ReceiverInv, Alive, Listening, Polls, Fresh
  <2>6. ~FreqMayFail => OnChannel' /\ TallyOnChannel'
    BY <2>2, <2>3 DEF ReceiverInv, OnChannel, TallyOnChannel, Channel
  <2> QED  BY <2>5, <2>6 DEF ReceiverInv
<1> QED  BY <1>1, <1>2, <1>3 DEF Receive

LEMMA ReceiverTransmit ==
  ASSUME TypeOK, ReceiverInv, Transmit
  PROVE  ReceiverInv'
<1>0. chip \in Chips /\ cfg.role \in Nat
  BY DEF TypeOK, Configs
<1>1. CASE serviceNothing
  BY <1>1, ReceiverFrame DEF serviceNothing
<1>2. CASE serviceTxQueue
  <2>1. UNCHANGED <<cfg, scan, down>> /\ chip' = Standby(chip) /\ pc' = "tx"
    BY <1>2 DEF serviceTxQueue
  <2>2. chip'.up = chip.up /\ chip'.freq = chip.freq /\ chip'.fifo = chip.fifo
    BY <1>0, <2>1, ChipCallsKeep, ChipCallsAir
  <2> QED  BY <2>1, <2>2 DEF ReceiverInv, Alive, Listening, Polls, Fresh, OnChannel, TallyOnChannel, Channel
<1>3. CASE txStartFails \/ txTimeout \/ txPacketDone
  <2>1. /\ UNCHANGED <<cfg, scan, down>> /\ pc = "tx"
        /\ \/ UNCHANGED <<pc, chip>>
           \/ pc' = "server" /\ chip' = ArmReceive(chip, cfg.role)
    BY <1>3 DEF txStartFails, txTimeout, txPacketDone, AttemptFails, Settle
  <2>2. CASE UNCHANGED <<pc, chip>>
    BY <2>1, <2>2, ReceiverFrame
  <2>3. CASE pc' = "server" /\ chip' = ArmReceive(chip, cfg.role)
    <3>1. Rearmed(chip', chip, cfg.role) /\ chip'.freq = chip.freq
      BY <1>0, <2>3, ChipCallsKeep, ChipCallsAir DEF Rearmed
    <3> QED  BY <2>1, <2>3, <3>1, ReceiverRearm
  <2> QED  BY <2>1, <2>2, <2>3
<1> QED  BY <1>1, <1>2, <1>3 DEF Transmit

LEMMA ReceiverStep == TypeOK /\ ReceiverInv /\ [Next]_vars => ReceiverInv'
<1> SUFFICES ASSUME TypeOK, ReceiverInv, [Next]_vars PROVE ReceiverInv'
  OBVIOUS
<1>1. CASE Server
  <2>1. CASE txBusy \/ enqueueTx \/ serverIdle
    BY <2>1, ReceiverFrame DEF txBusy, enqueueTx, serverIdle, Command
  <2> QED  BY <1>1, <2>1, ReceiverConfig, ReceiverStartScan DEF Server
<1>2. CASE UNCHANGED vars
  BY <1>2, ReceiverFrame DEF vars, ReceiverInv, Polls
<1> QED  BY <1>1, <1>2, ReceiverThermal, ReceiverScan, ReceiverReceive, ReceiverTransmit DEF Next

(* Outside a burst the receiver of a chip whose last init succeeded is on  *)
(* (armReceive), after whatever retunings succeeded or failed, for every   *)
(* value of the constants.                                                 *)
THEOREM AlwaysListening == Spec => []Listening
<1>1. ReceiverInv => Listening
  BY DEF ReceiverInv
<1> QED  BY TypeInit, TypeStep, ReceiverInit, ReceiverStep, <1>1, PTL DEF Spec

(* On a chip that takes every frequency it is given, what a sweep tallies  *)
(* for a channel was received on that channel (startScan, scanTick), a     *)
(* sweep that a failed recovery has moved away excepted.                   *)
THEOREM TalliesAreTrue == ~FreqMayFail => (Spec => []TallyOnChannel)
<1> SUFFICES ASSUME ~FreqMayFail PROVE Spec => []TallyOnChannel
  OBVIOUS
<1>1. ReceiverInv => TallyOnChannel
  BY DEF ReceiverInv
<1> QED  BY TypeInit, TypeStep, ReceiverInit, ReceiverStep, <1>1, PTL DEF Spec

----------------------------------------------------------------------------
(* Chip and configuration, as long as no cutoff takes the chip down (init  *)
(* at recovery would bring it up with its defaults, run v_recovery) and    *)
(* every frequency is taken.                                               *)

NoCutoff == level # 2

(* The inductive invariant: the chip is alive and agrees with cfg_.        *)
Tuned == ~down /\ chip.up /\ ChipMatchesConfig

(* The frequency the host asked for last is where a sweep will return, or  *)
(* where cfg_ is.                                                          *)
Home == asked > 0 /\ (scan.active => scan.home = asked) /\ (~scan.active => cfg.freq = asked)

(* A change of power leaves a chip where it is.                            *)
LEMMA RepowerLive ==
  ASSUME NEW c \in Chips, NEW p \in Int, NEW r \in Nat
  PROVE  /\ ArmReceive(SetOutputPower(Standby(c), p), r).up = c.up
         /\ ArmReceive(SetOutputPower(Standby(c), p), r).freq = c.freq
<1> DEFINE d == ArmReceive(SetOutputPower(Standby(c), p), r)
<1>1. d.up = c.up /\ d.power = (IF c.up THEN p ELSE c.power)
  BY RepowerSets, Zenon
<1>2. d.freq = c.freq
  BY RepowerAir, Zenon
<1> QED  BY <1>1, <1>2, Zenon

(* applyConfig on a live chip that takes the frequency.                    *)
LEMMA ApplyConfigTunes ==
  ASSUME NEW req \in Configs, NEW l \in 0..2, NEW ok \in BOOLEAN, ok, chip \in Chips, chip.up,
         cfg \in Configs, scan \in Sweeps, applyConfig(chip, req, l, ok)
  PROVE  /\ chip'.up /\ cfg'.freq = req.freq /\ ~scan'.active /\ scan'.idx = scan.idx
         /\ (cfg.freq > 0 => chip.freq = cfg.freq) => (cfg'.freq > 0 => chip'.freq = cfg'.freq)
         /\ chip.power = cfg.power => chip'.power = cfg'.power
<1> DEFINE new == [req EXCEPT !.power = Clamp(@, l)]
           s == Standby(chip)
           tuned == IF new.freq > 0 THEN SetFrequency(s, new.freq, ok) ELSE s
           done == IF Rejected(req, l, ok) \/ new.power = cfg.power
                   THEN tuned ELSE SetOutputPower(tuned, new.power)
<1>1. new \in Configs /\ new.freq = req.freq /\ new.freq \in Nat /\ new.power \in Int /\ new.role \in Nat
  BY ClampBound DEF Configs
<1>2. CASE Unchanged(req, l)
  <2>1. chip' = chip /\ cfg' = cfg /\ scan' = scan /\ ~scan.active /\ new = cfg
    BY <1>2 DEF applyConfig, Unchanged
  <2> HIDE DEF new
  <2> QED  BY <1>1, <2>1
<1>3. CASE ~Unchanged(req, l)
  <2>1. chip' = ArmReceive(done, new.role) /\ cfg' = new /\ scan' = [scan EXCEPT !.active = FALSE]
    BY <1>3 DEF applyConfig, Configured
  <2>2. ~scan'.active /\ scan'.idx = scan.idx
    BY <2>1 DEF Sweeps
  <2>3. ~Rejected(req, l, ok)
    BY DEF Rejected
  <2> HIDE DEF new
  <2>4. s \in Chips /\ s.up = chip.up /\ s.freq = chip.freq /\ s.power = chip.power
    BY ChipCalls, ChipCallsKeep, ChipCallsAir
  <2> HIDE DEF s
  <2>5. /\ tuned \in Chips /\ tuned.up = chip.up /\ tuned.power = chip.power
        /\ new.freq > 0 => tuned.freq = new.freq
    <3>1. CASE new.freq > 0
      <4> DEFINE t == SetFrequency(s, new.freq, ok)
      <4>1. tuned = t
        BY <3>1
      <4>2. t \in Chips
        BY <1>1, <2>4, ChipCalls
      <4>3. t.up = s.up /\ t.power = s.power
        BY <1>1, <2>4, ChipCallsKeep, Zenon
      <4>4. t.freq = (IF s.up /\ ok THEN new.freq ELSE s.freq)
        BY <1>1, <2>4, ChipCallsAir, Zenon
      <4> HIDE DEF t, tuned
      <4>5. t.freq = new.freq
        BY <2>4, <4>4, Zenon
      <4> QED  BY <2>4, <4>1, <4>2, <4>3, <4>5, Zenon
    <3>2. CASE ~(new.freq > 0)
      BY <2>4, <3>2
    <3> QED  BY <3>1, <3>2
  <2> HIDE DEF tuned
  <2>6. /\ done \in Chips /\ done.up = chip.up /\ done.freq = tuned.freq
        /\ done.power = IF new.power = cfg.power THEN chip.power ELSE new.power
    <3>1. CASE new.power = cfg.power
      <4>1. done = tuned
        BY <3>1
      <4> QED  BY <2>5, <3>1, <4>1, Zenon
    <3>2. CASE new.power # cfg.power
      <4> DEFINE t == SetOutputPower(tuned, new.power)
      <4>1. done = t
        BY <2>3, <3>2
      <4>2. t \in Chips
        BY <1>1, <2>5, ChipCalls
      <4>3. t.up = tuned.up /\ t.power = (IF tuned.up THEN new.power ELSE tuned.power)
        BY <1>1, <2>5, ChipCallsKeep, Zenon
      <4>4. t.freq = tuned.freq
        BY <1>1, <2>5, ChipCallsAir, Zenon
      <4> HIDE DEF t, done
      <4> QED  BY <2>5, <4>1, <3>2, <4>2, <4>3, <4>4, Zenon
    <3> QED  BY <3>1, <3>2
  <2> HIDE DEF done
  <2>7. chip'.up = chip.up /\ chip'.freq = done.freq /\ chip'.power = done.power
    BY <1>1, <2>1, <2>6, ChipCallsKeep, ChipCallsAir
  <2> QED  BY <1>1, <2>1, <2>2, <2>5, <2>6, <2>7
<1> QED  BY <1>2, <1>3

(* Steps that leave configuration, frequency and power alone.              *)
LEMMA TunedFrame ==
  ASSUME Tuned, UNCHANGED <<down, level, cfg>>,
         chip'.up = chip.up, chip'.freq = chip.freq, chip'.power = chip.power
  PROVE  Tuned'
<1>1. ChipMatchesConfig'
  BY DEF Tuned, ChipMatchesConfig
<1> QED  BY <1>1 DEF Tuned

(* Steps that retune the chip and say so in cfg_.                          *)
LEMMA TunedRetune ==
  ASSUME Tuned, UNCHANGED <<down, level>>, chip'.up = chip.up, chip'.power = chip.power,
         cfg'.power = cfg.power, chip'.freq = cfg'.freq
  PROVE  Tuned'
<1>1. ChipMatchesConfig'
  BY DEF Tuned, ChipMatchesConfig
<1> QED  BY <1>1 DEF Tuned

(* The same from the actions that retune or arm the chip.                  *)
LEMMA TunedRetuned ==
  ASSUME Tuned, ~FreqMayFail, UNCHANGED <<down, level>>, chip \in Chips, cfg \in Configs,
         cfg.role \in Nat, NEW f \in Nat, NEW ok \in FreqResults(chip), cfg' = [cfg EXCEPT !.freq = f],
         chip' = ArmReceive(SetFrequency(Standby(chip), f, ok), cfg.role)
  PROVE  Tuned'
<1> DEFINE d == ArmReceive(SetFrequency(Standby(chip), f, ok), cfg.role)
<1>0. ok \in BOOLEAN
  BY FreqResult
<1>1. chip.up /\ (chip.up => ok)
  BY FreqResult DEF Tuned
<1>2. d.up = chip.up /\ d.power = chip.power
  BY <1>0, RetuneKeeps, Zenon
<1>3. d.freq = (IF chip.up /\ ok THEN f ELSE chip.freq)
  BY <1>0, RetuneAir
<1>4. chip'.up = chip.up /\ chip'.power = chip.power /\ chip'.freq = f
  BY <1>1, <1>2, <1>3, Zenon
<1>5. cfg'.freq = f /\ cfg'.power = cfg.power
  BY DEF Configs
<1> QED  BY <1>4, <1>5, TunedRetune

LEMMA TunedRearmed ==
  ASSUME Tuned, UNCHANGED <<down, level, cfg>>, chip \in Chips, cfg.role \in Nat,
         chip' = ArmReceive(chip, cfg.role)
  PROVE  Tuned'
<1>1. chip'.up = chip.up /\ chip'.freq = chip.freq /\ chip'.power = chip.power
  BY ChipCallsKeep, ChipCallsAir
<1> QED  BY <1>1, TunedFrame

LEMMA TunedServer ==
  ASSUME TypeOK, Tuned, ~FreqMayFail, level # 2, Server
  PROVE  Tuned'
<1>0. chip \in Chips /\ cfg \in Configs /\ scan \in Sweeps /\ level \in 0..2 /\ cfg.role \in Nat
  BY DEF TypeOK, Configs
<1>1. CASE handleConfig
  <2>1. PICK f \in CfgFreqs, p \in Powers, r \in Roles, ok \in FreqResults(chip) :
          LET req == [freq |-> f, power |-> p, role |-> r]
          IN  applyConfig(chip, req, level, ok)
    BY <1>1 DEF handleConfig
  <2> DEFINE req == [freq |-> f, power |-> p, role |-> r]
  <2>2. req \in Configs /\ req.freq = f
    BY ConstantsAssumption DEF Configs
  <2>3. applyConfig(chip, req, level, ok)
    BY <2>1
  <2> HIDE DEF req
  <2>4. ok \in BOOLEAN /\ ok
    BY FreqResult DEF Tuned
  <2>5. /\ chip'.up /\ cfg'.freq = f
        /\ (cfg.freq > 0 => chip.freq = cfg.freq) => (cfg'.freq > 0 => chip'.freq = cfg'.freq)
        /\ chip.power = cfg.power => chip'.power = cfg'.power
    BY <1>0, <2>2, <2>3, <2>4, ApplyConfigTunes DEF Tuned
  <2>6. UNCHANGED <<level, down>>
    BY <1>1 DEF handleConfig
  <2>7. ChipMatchesConfig'
    BY <2>5, <2>6 DEF Tuned, ChipMatchesConfig
  <2> QED  BY <2>5, <2>6, <2>7 DEF Tuned
<1>2. CASE startScan
  <2>1. PICK p \in ScanPlans, ok \in FreqResults(chip) :
          IF p.start > 0
          THEN /\ chip' = ArmReceive(SetFrequency(Standby(chip), p.start, ok), cfg.role)
               /\ cfg' = [cfg EXCEPT !.freq = p.start]
          ELSE UNCHANGED <<chip, cfg>>
    BY <1>2 DEF startScan
  <2>2. UNCHANGED <<level, down>>
    BY <1>2 DEF startScan
  <2>3. CASE p.start > 0
    <3>1. p.start \in Nat
      BY ConstantsAssumption
    <3>2. /\ chip' = ArmReceive(SetFrequency(Standby(chip), p.start, ok), cfg.role)
          /\ cfg' = [cfg EXCEPT !.freq = p.start]
      BY <2>1, <2>3
    <3> QED  BY <1>0, <2>2, <3>1, <3>2, TunedRetuned
  <2>4. CASE ~(p.start > 0)
    BY <2>1, <2>2, <2>4, TunedFrame
  <2> QED  BY <2>3, <2>4
<1>3. CASE txBusy \/ enqueueTx \/ serverIdle
  <2>1. UNCHANGED <<chip, down, level, cfg>>
    BY <1>3 DEF txBusy, enqueueTx, serverIdle
  <2> QED  BY <2>1, TunedFrame
<1> QED  BY <1>1, <1>2, <1>3 DEF Server

LEMMA TunedThermal ==
  ASSUME TypeOK, Tuned, level' # 2, Thermal
  PROVE  Tuned'
<1>0. chip \in Chips /\ cfg.role \in Nat /\ cfg.power \in Int /\ level \in 0..2
  BY DEF TypeOK, Configs
<1>2. CASE thermalHold
  BY <1>2, TunedFrame DEF thermalHold
<1>3. CASE thermalCutoff
  BY <1>3 DEF thermalCutoff, Tick
<1>4. CASE thermalRecover \/ thermalRecoverFails
  BY <1>4 DEF Tuned, thermalRecover, thermalRecoverFails
<1>5. CASE thermalThrottle
  <2>1. /\ chip' = ArmReceive(SetOutputPower(Standby(chip), kThrottledTxPowerDbm), cfg.role)
        /\ UNCHANGED <<cfg, down>> /\ level' = 1
    BY <1>5 DEF thermalThrottle, Tick, Tuned
  <2>2. kThrottledTxPowerDbm \in Int /\ chip.up
    BY DEF kThrottledTxPowerDbm, Tuned
  <2>3. chip'.up = chip.up /\ chip'.freq = chip.freq
    <3> DEFINE d == ArmReceive(SetOutputPower(Standby(chip), kThrottledTxPowerDbm), cfg.role)
    <3>1. d.up = chip.up /\ d.freq = chip.freq
      BY <1>0, <2>2, RepowerLive, Zenon
    <3> QED  BY <2>1, <3>1, Zenon
  <2>4. ChipMatchesConfig'
    BY <2>1, <2>2, <2>3 DEF Tuned, ChipMatchesConfig
  <2> QED  BY <2>1, <2>2, <2>3, <2>4 DEF Tuned
<1>6. CASE thermalRestorePower
  <2>1. /\ chip' = ArmReceive(SetOutputPower(Standby(chip), cfg.power), cfg.role)
        /\ UNCHANGED <<cfg, down>>
    BY <1>6 DEF thermalRestorePower
  <2>2. chip.up
    BY DEF Tuned
  <2>3. chip'.up = chip.up /\ chip'.power = cfg.power /\ chip'.freq = chip.freq
    <3> DEFINE d == ArmReceive(SetOutputPower(Standby(chip), cfg.power), cfg.role)
    <3>1. d.up = chip.up /\ (chip.up => d.power = cfg.power) /\ d.freq = chip.freq
      <4>1. d.up = chip.up /\ d.freq = chip.freq
        BY <1>0, RepowerLive, Zenon
      <4>2. d.power = (IF chip.up THEN cfg.power ELSE chip.power)
        BY <1>0, RepowerSets
      <4> QED  BY <4>1, <4>2, Zenon
    <3> QED  BY <2>1, <2>2, <3>1, Zenon
  <2>4. ChipMatchesConfig'
    BY <2>1, <2>2, <2>3 DEF Tuned, ChipMatchesConfig
  <2> QED  BY <2>1, <2>2, <2>3, <2>4 DEF Tuned
<1> QED  BY <1>2, <1>3, <1>4, <1>5, <1>6 DEF Thermal

LEMMA TunedScan ==
  ASSUME TypeOK, Tuned, ~FreqMayFail, Scan
  PROVE  Tuned'
<1>0. chip \in Chips /\ cfg \in Configs /\ scan \in Sweeps /\ cfg.role \in Nat
  BY DEF TypeOK, Configs
<1>1. UNCHANGED <<down, level>>
  BY DEF Scan, scanIdle, scanAdvance, scanFinish
<1>2. CASE scanIdle
  BY <1>1, <1>2, TunedFrame DEF scanIdle
<1>3. CASE scanAdvance
  <2> DEFINE next == [scan EXCEPT !.idx = @ + 1, !.consensus = FALSE, !.heard = {}]
  <2>1. PICK ok \in FreqResults(chip) :
          /\ cfg' = [cfg EXCEPT !.freq = Channel(next)]
          /\ chip' = ArmReceive(SetFrequency(Standby(chip), Channel(next), ok), cfg.role)
    BY <1>3 DEF scanAdvance
  <2>2. Channel(next) \in Nat
    <3>1. /\ next.start = scan.start /\ next.step = scan.step /\ next.idx = scan.idx + 1
          /\ scan.start \in Nat /\ scan.step \in Nat /\ scan.idx \in Nat
      BY <1>0 DEF Sweeps
    <3> HIDE DEF next
    <3>2. \A a, b, k \in Nat : a + (k + 1) * b \in Nat
      OBVIOUS
    <3> QED  BY <3>1, <3>2 DEF Channel
  <2> DEFINE ch == Channel(next)
  <2>3. ch \in Nat /\ cfg' = [cfg EXCEPT !.freq = ch]
        /\ chip' = ArmReceive(SetFrequency(Standby(chip), ch, ok), cfg.role)
    BY <2>1, <2>2
  <2> HIDE DEF ch, next
  <2> QED  BY <1>0, <1>1, <2>3, TunedRetuned
<1>4. CASE scanFinish
  <2>1. PICK ok \in FreqResults(chip) :
          IF scan.home > 0
          THEN /\ chip' = ArmReceive(SetFrequency(Standby(chip), scan.home, ok), cfg.role)
               /\ cfg' = [cfg EXCEPT !.freq = scan.home]
          ELSE /\ chip' = ArmReceive(chip, cfg.role)
               /\ UNCHANGED cfg
    BY <1>4 DEF scanFinish
  <2>2. scan.home \in Nat
    BY <1>0 DEF Sweeps
  <2>3. CASE scan.home > 0
    BY <1>0, <1>1, <2>1, <2>2, <2>3, TunedRetuned
  <2>4. CASE ~(scan.home > 0)
    <3>1. chip' = ArmReceive(chip, cfg.role) /\ UNCHANGED cfg
      BY <2>1, <2>4
    <3> QED  BY <1>0, <1>1, <3>1, TunedRearmed
  <2> QED  BY <2>3, <2>4
<1> QED  BY <1>2, <1>3, <1>4 DEF Scan

LEMMA TunedReceive ==
  ASSUME TypeOK, Tuned, Receive \/ AirPacket
  PROVE  Tuned'
<1>0. chip \in Chips /\ cfg.role \in Nat
  BY DEF TypeOK, Configs
<1>1. CASE rxPacket
  <2>1. UNCHANGED <<down, level, cfg>> /\ chip' = [chip EXCEPT !.fifo = <<>>]
    BY <1>1 DEF rxPacket
  <2>2. chip'.up = chip.up /\ chip'.freq = chip.freq /\ chip'.power = chip.power
    BY <1>0, <2>1 DEF Chips
  <2> QED  BY <2>1, <2>2, TunedFrame
<1>2. CASE rxDone
  <2>1. /\ UNCHANGED <<down, level, cfg>>
        /\ chip' \in {chip, ArmReceive(chip, cfg.role)}
    BY <1>2 DEF rxDone
  <2>3. CASE chip' = chip
    BY <2>1, <2>3, TunedFrame
  <2>4. CASE chip' = ArmReceive(chip, cfg.role)
    BY <1>0, <2>1, <2>4, TunedRearmed
  <2> QED  BY <2>1, <2>3, <2>4
<1>3. CASE AirPacket
  <2>1. PICK k \in AirKinds : chip' = [chip EXCEPT !.fifo = <<[freq |-> chip.freq, consensus |-> k]>>]
    BY <1>3 DEF AirPacket
  <2>2. UNCHANGED <<down, level, cfg>>
    BY <1>3 DEF AirPacket
  <2>3. chip'.up = chip.up /\ chip'.freq = chip.freq /\ chip'.power = chip.power
    BY <1>0, <2>1 DEF Chips
  <2> QED  BY <2>2, <2>3, TunedFrame
<1> QED  BY <1>1, <1>2, <1>3 DEF Receive

LEMMA TunedTransmit ==
  ASSUME TypeOK, Tuned, Transmit
  PROVE  Tuned'
<1>0. chip \in Chips /\ cfg.role \in Nat
  BY DEF TypeOK, Configs
<1>1. UNCHANGED <<down, level, cfg>>
  BY DEF Transmit, serviceNothing, serviceTxQueue, txStartFails, txTimeout, txPacketDone
<1>2. CASE serviceNothing
  BY <1>1, <1>2, TunedFrame DEF serviceNothing
<1>3. CASE serviceTxQueue
  <2>1. chip' = Standby(chip)
    BY <1>3 DEF serviceTxQueue
  <2>2. chip'.up = chip.up /\ chip'.freq = chip.freq /\ chip'.power = chip.power
    BY <1>0, <2>1, ChipCallsKeep, ChipCallsAir
  <2> QED  BY <1>1, <2>2, TunedFrame
<1>4. CASE txStartFails \/ txTimeout \/ txPacketDone
  <2>1. chip' = chip \/ chip' = ArmReceive(chip, cfg.role)
    BY <1>4 DEF txStartFails, txTimeout, txPacketDone, AttemptFails, Settle
  <2>2. CASE chip' = chip
    BY <1>1, <2>2, TunedFrame
  <2>3. CASE chip' = ArmReceive(chip, cfg.role)
    BY <1>0, <1>1, <2>3, TunedRearmed
  <2> QED  BY <2>1, <2>2, <2>3
<1> QED  BY <1>2, <1>3, <1>4 DEF Transmit

LEMMA TunedInit == Init => Tuned
BY DEF Init, Tuned, ChipMatchesConfig

LEMMA TunedStep ==
  ASSUME ~FreqMayFail
  PROVE  TypeOK /\ NoCutoff /\ NoCutoff' /\ Tuned /\ [Next]_vars => Tuned'
<1> SUFFICES ASSUME TypeOK, level # 2, level' # 2, Tuned, [Next]_vars PROVE Tuned'
  BY DEF NoCutoff
<1>1. CASE UNCHANGED vars
  BY <1>1 DEF vars, Tuned, ChipMatchesConfig
<1> QED  BY <1>1, TunedServer, TunedThermal, TunedScan, TunedReceive, TunedTransmit DEF Next

(* Without a cutoff, and on a chip that takes every frequency, cfg_ agrees *)
(* with what the chip was told (applyConfig, startScan, scanTick, the      *)
(* throttle of thermalTick): the early return of applyConfig is justified. *)
THEOREM ConfigIsOnChip == ~FreqMayFail => (Spec /\ []NoCutoff => []ChipMatchesConfig)
<1> SUFFICES ASSUME ~FreqMayFail PROVE Spec /\ []NoCutoff => []ChipMatchesConfig
  OBVIOUS
<1>1. Tuned => ChipMatchesConfig
  BY DEF Tuned
<1>2. TypeOK /\ NoCutoff /\ NoCutoff' /\ Tuned /\ [Next]_vars => Tuned'
  BY TunedStep
<1> QED  BY TypeInit, TypeStep, TunedInit, <1>1, <1>2, PTL DEF Spec

----------------------------------------------------------------------------
(* A sweep of a host that names a frequency in every CONFIG comes back to  *)
(* it.                                                                     *)

Returns == SweepDone => cfg'.freq = asked /\ chip'.freq = asked

(* Steps that leave the sweep, the frequency of cfg_ and the request alone.*)
LEMMA HomeFrame ==
  ASSUME Home, cfg'.freq = cfg.freq, scan'.active = scan.active, scan'.home = scan.home, asked' = asked
  PROVE  Home' /\ Returns
BY DEF Home, Returns, SweepDone

LEMMA HomeServer ==
  ASSUME TypeOK, Tuned, ~FreqMayFail, 0 \notin CfgFreqs, Home, Server
  PROVE  Home' /\ Returns
<1>0. chip \in Chips /\ cfg \in Configs /\ scan \in Sweeps /\ level \in 0..2 /\ scan.idx \in Nat
  BY DEF TypeOK, Sweeps
<1>1. CASE handleConfig
  <2>1. PICK f \in CfgFreqs, p \in Powers, r \in Roles, ok \in FreqResults(chip) :
          LET req == [freq |-> f, power |-> p, role |-> r]
          IN  applyConfig(chip, req, level, ok) /\ asked' = IF f > 0 THEN f ELSE asked
    BY <1>1 DEF handleConfig
  <2> DEFINE req == [freq |-> f, power |-> p, role |-> r]
  <2>2. req \in Configs /\ req.freq = f /\ f > 0
    BY ConstantsAssumption DEF Configs
  <2>3. applyConfig(chip, req, level, ok) /\ asked' = f
    BY <2>1, <2>2
  <2> HIDE DEF req
  <2>4. ok \in BOOLEAN /\ ok
    BY FreqResult DEF Tuned
  <2>5. cfg'.freq = f /\ ~scan'.active /\ scan'.idx = scan.idx
    BY <1>0, <2>2, <2>3, <2>4, ApplyConfigTunes DEF Tuned
  <2>6. scan'.idx # scan.idx + 1
    BY <1>0, <2>5
  <2> QED  BY <2>2, <2>3, <2>5, <2>6 DEF Home, Returns, SweepDone
<1>2. CASE startScan
  <2>1. /\ scan'.active
        /\ scan'.home = IF ~scan.active /\ cfg.freq > 0 THEN cfg.freq ELSE scan.home
        /\ asked' = asked
    BY <1>2 DEF startScan
  <2>2. scan'.home = asked
    BY <2>1 DEF Home
  <2> QED  BY <2>1, <2>2 DEF Home, Returns, SweepDone
<1>3. CASE txBusy \/ enqueueTx \/ serverIdle
  BY <1>3, HomeFrame DEF txBusy, enqueueTx, serverIdle
<1> QED  BY <1>1, <1>2, <1>3 DEF Server

LEMMA HomeThermal ==
  ASSUME Tuned, Home, Thermal
  PROVE  Home' /\ Returns
<1>1. UNCHANGED <<cfg, scan, asked>>
  BY DEF Tuned, Thermal, thermalHold, thermalCutoff, thermalThrottle, thermalRecover, thermalRecoverFails,
     thermalRestorePower
<1> QED  BY <1>1, HomeFrame

LEMMA HomeScan ==
  ASSUME TypeOK, Tuned', Home, Scan
  PROVE  Home' /\ Returns
<1>0. cfg \in Configs /\ scan \in Sweeps
  BY DEF TypeOK
<1>1. CASE scanIdle
  BY <1>1, HomeFrame DEF scanIdle
<1>2. CASE scanAdvance
  <2>1. scan' = [scan EXCEPT !.idx = @ + 1, !.consensus = FALSE, !.heard = {}] /\ scan.active /\ asked' = asked
    BY <1>2 DEF scanAdvance
  <2>2. scan'.active = scan.active /\ scan'.home = scan.home
    BY <1>0, <2>1 DEF Sweeps
  <2> QED  BY <2>1, <2>2 DEF Home, Returns, SweepDone
<1>3. CASE scanFinish
  <2>1. scan' = [scan EXCEPT !.idx = @ + 1, !.active = FALSE] /\ scan.active /\ asked' = asked
    BY <1>3 DEF scanFinish
  <2>2. scan.home = asked /\ asked > 0
    BY <2>1 DEF Home
  <2>3. cfg' = [cfg EXCEPT !.freq = scan.home]
    BY <1>3, <2>2 DEF scanFinish
  <2>4. cfg'.freq = asked /\ ~scan'.active
    BY <1>0, <2>1, <2>2, <2>3 DEF Configs, Sweeps
  <2>5. chip'.freq = cfg'.freq
    BY <2>2, <2>4 DEF Tuned, ChipMatchesConfig
  <2> QED  BY <2>1, <2>2, <2>4, <2>5 DEF Home, Returns, SweepDone
<1> QED  BY <1>1, <1>2, <1>3 DEF Scan

LEMMA HomeRest ==
  ASSUME TypeOK, Home, Receive \/ AirPacket \/ Transmit \/ UNCHANGED vars
  PROVE  Home' /\ Returns
<1>1. cfg' = cfg /\ asked' = asked
  BY DEF Receive, rxPacket, rxDone, AirPacket, Transmit, serviceNothing, serviceTxQueue, txStartFails,
     txTimeout, txPacketDone, vars
<1>2. scan'.active = scan.active /\ scan'.home = scan.home
  <2>0. scan \in Sweeps
    BY DEF TypeOK
  <2>1. CASE rxPacket
    <3>1. CASE scan.active
      <4>1. scan' = [scan EXCEPT !.consensus = @ \/ Head(chip.fifo).consensus,
                                 !.heard = @ \cup {Head(chip.fifo).freq}]
        BY <2>1, <3>1 DEF rxPacket
      <4> QED  BY <2>0, <4>1 DEF Sweeps
    <3>2. CASE ~scan.active
      BY <2>1, <3>2 DEF rxPacket
    <3> QED  BY <3>1, <3>2
  <2>2. CASE rxDone \/ AirPacket \/ Transmit \/ UNCHANGED vars
    BY <2>2 DEF rxDone, AirPacket, Transmit, serviceNothing, serviceTxQueue, txStartFails, txTimeout,
       txPacketDone, vars
  <2> QED  BY <2>1, <2>2 DEF Receive
<1> QED  BY <1>1, <1>2, HomeFrame

LEMMA HomeInit == Init => Home
BY DEF Init, Home, NoScan, kDefaultFreq

(* Without a cutoff, on a chip that takes every frequency, and for a host  *)
(* whose every CONFIG names one, a sweep that completes leaves radio and   *)
(* cfg_ on the frequency the host configured last, restarts included.      *)
THEOREM SweepsComeHome ==
  ~FreqMayFail /\ 0 \notin CfgFreqs => (Spec /\ []NoCutoff => ScanReturnsHome)
<1> SUFFICES ASSUME ~FreqMayFail, 0 \notin CfgFreqs PROVE Spec /\ []NoCutoff => ScanReturnsHome
  OBVIOUS
<1>1. TypeOK /\ NoCutoff /\ NoCutoff' /\ Tuned /\ [Next]_vars => Tuned'
  BY TunedStep
<1>2. TypeOK /\ Tuned /\ Tuned' /\ Home /\ [Next]_vars => Home' /\ [Returns]_vars
  <2> SUFFICES ASSUME TypeOK, Tuned, Tuned', Home, [Next]_vars PROVE Home' /\ Returns
    OBVIOUS
  <2> QED  BY HomeServer, HomeThermal, HomeScan, HomeRest DEF Next
<1> QED  BY TypeInit, TypeStep, TunedInit, HomeInit, <1>1, <1>2, PTL DEF Spec, ScanReturnsHome, Returns
=============================================================================
