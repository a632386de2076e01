------------------------- MODULE RadioWorkerProofs -------------------------
(***************************************************************************)
(* Proofs about RadioWorker, for every value of its constants.             *)
(***************************************************************************)
EXTENDS RadioWorker, TLAPS

(* A chip findChip has found is on, whatever it was told since.            *)
LEMMA FoundChip ==
  /\ Found(kDefaultFreq, kMaxSafeBenchTxPowerDbm) \in Chips
  /\ Found(kDefaultFreq, ResetPower) \in Chips
  /\ Found(0, ResetPower) \in Chips
  /\ \A f, p : /\ Found(f, p).up /\ Found(f, p).freq = f /\ Found(f, p).power = p
              /\ Found(f, p).fifo = <<>>
PROOF
  <1>1. <<>> \in Seq(Packets)
    OBVIOUS
  <1>2. \A f \in Nat, p \in Int : Found(f, p) \in Chips
    BY <1>1 DEF Found, Chips
  <1>3. kDefaultFreq \in Nat /\ kMaxSafeBenchTxPowerDbm \in Int /\ ResetPower \in Int
    BY ConstantsAssumption DEF kDefaultFreq, kMaxSafeBenchTxPowerDbm
  <1>4. \A f, p : /\ Found(f, p).up /\ Found(f, p).freq = f /\ Found(f, p).power = p
                  /\ Found(f, p).fifo = <<>>
    BY DEF Found
  <1> QED
    BY <1>2, <1>3, <1>4

(* The chip calls of the driver map chips to chips.                        *)
LEMMA ChipCalls ==
  ASSUME NEW c \in Chips
  PROVE  /\ Standby(c) \in Chips
         /\ \A f \in Nat, ok \in BOOLEAN : SetFrequency(c, f, ok) \in Chips
         /\ \A p \in Int : SetOutputPower(c, p) \in Chips
         /\ \A r \in Nat : ArmReceive(c, r) \in Chips
         /\ PowerOff(c) \in Chips
         /\ \A r \in Nat : Begin(c, r) \in Chips
         /\ BeginFails(c) \subseteq Chips
PROOF
  <1>0. <<>> \in Seq(Packets)
    OBVIOUS
  <1>1. Standby(c) \in Chips
    BY DEF Chips, Standby
  <1>2. \A f \in Nat, ok \in BOOLEAN : SetFrequency(c, f, ok) \in Chips
    BY DEF Chips, SetFrequency
  <1>3. \A p \in Int : SetOutputPower(c, p) \in Chips
    BY DEF Chips, SetOutputPower
  <1>4. \A d \in Chips, r \in Nat : ArmReceive(d, r) \in Chips
    BY <1>0 DEF Chips, ArmReceive
  <1>5. PowerOff(c) \in Chips
    BY <1>0 DEF Chips, PowerOff
  <1>6. \A r \in Nat : Begin(c, r) \in Chips
    BY <1>4, FoundChip DEF Begin
  <1>7. BeginFails(c) \subseteq Chips
    <2>1. [PowerOff(c) EXCEPT !.rail = TRUE] \in Chips
      BY <1>5 DEF Chips
    <2> QED
      BY <2>1, FoundChip DEF BeginFails
  <1> QED
    BY <1>1, <1>2, <1>3, <1>4, <1>5, <1>6, <1>7

(* Clamping keeps a power an integer and within the limit of the level.    *)
LEMMA ClampBound ==
  ASSUME NEW p \in Int, NEW l \in 0..2
  PROVE  /\ Clamp(p, l) \in Int
         /\ Clamp(p, l) <= MaxPower(l)
         /\ Clamp(p, l) <= kMaxSafeBenchTxPowerDbm
  BY DEF Clamp, MaxPower, kThrottledTxPowerDbm, kMaxSafeBenchTxPowerDbm

(* applyConfig on any chip keeps cfg_, the sweep and the chip in their     *)
(* types.                                                                  *)
LEMMA ApplyConfigType ==
  ASSUME NEW c \in Chips, NEW req \in Configs, NEW l \in 0..2, NEW ok \in BOOLEAN,
         cfg \in Configs, scan \in Sweeps, applyConfig(c, req, l, ok)
  PROVE  cfg' \in Configs /\ scan' \in Sweeps /\ chip' \in Chips
PROOF
  <1> DEFINE new == [req EXCEPT !.power = Clamp(@, l)]
             tuned == IF new.freq > 0 THEN SetFrequency(Standby(c), new.freq, ok) ELSE Standby(c)
             done == IF Rejected(req, l, ok) \/ new.power = cfg.power
                     THEN tuned ELSE SetOutputPower(tuned, new.power)
  <1>1. new \in Configs
    BY ClampBound DEF Configs
  <1>2. tuned \in Chips
    BY <1>1, ChipCalls DEF Configs
  <1>3. done \in Chips
    BY <1>1, <1>2, ChipCalls DEF Configs
  <1>4. Configured(c, req, l, ok) \in Chips
    BY <1>1, <1>3, ChipCalls DEF Configured, Configs
  <1>5. CASE Unchanged(req, l)
    BY <1>5 DEF applyConfig
  <1>6. CASE ~Unchanged(req, l)
    BY <1>1, <1>4, <1>6 DEF applyConfig, Sweeps
  <1> QED
    BY <1>5, <1>6

(* The level a tick moves to is a level.                                   *)
LEMMA TickLevel ==
  ASSUME NEW l, level \in 0..2, Tick(l)
  PROVE  l \in 0..2 /\ level' = l /\ pc = "thermal" /\ l # level
  BY ConstantsAssumption DEF Tick, NextLevels, LocalLevel

(* Sending the terminal of the current frame keeps the types.              *)
LEMMA SettleType ==
  ASSUME TypeOK, NEW r \in {"ok", "dropped"}, NEW aired \in SUBSET Nat, Settle(r, aired)
  PROVE  /\ terms' \in Seq(Terminals) /\ cur' \in Bursts
         /\ chip' \in Chips /\ pc' \in Stages
PROOF
  <1>1. Terminal(r, cur, aired) \in Terminals
    BY DEF Terminal, Terminals, TypeOK, Bursts
  <1>2. NoFrame \in Bursts
    BY DEF NoFrame, Bursts
  <1>3. ArmReceive(chip, cfg.role) \in Chips
    BY ChipCalls DEF TypeOK, Configs
  <1> QED
    BY <1>1, <1>2, <1>3 DEF Settle, TypeOK, Stages

(* A failed attempt keeps the types.                                       *)
LEMMA AttemptFailsType ==
  ASSUME TypeOK, NEW aired \in SUBSET Nat, AttemptFails(aired)
  PROVE  /\ terms' \in Seq(Terminals) /\ cur' \in Bursts
         /\ chip' \in Chips /\ pc' \in Stages
PROOF
  <1>1. CASE cur.attempt + 1 < kAttempts
    <2>1. [cur EXCEPT !.attempt = @ + 1, !.aired = aired] \in Bursts
      <3>1. cur \in Bursts /\ cur.attempt + 1 \in Nat
        BY DEF TypeOK, Bursts
      <3> QED
        BY <3>1 DEF Bursts
    <2> QED
      BY <1>1, <2>1 DEF AttemptFails, TypeOK
  <1>2. CASE ~(cur.attempt + 1 < kAttempts)
    <2>1. Settle("dropped", aired)
      BY <1>2 DEF AttemptFails
    <2> QED
      BY <2>1, SettleType
  <1> QED
    BY <1>1, <1>2

(* Spec => []TypeOK rests on: the first state is well typed...             *)
LEMMA TypeInit == Init => TypeOK
PROOF
  <1> SUFFICES ASSUME Init PROVE TypeOK
    OBVIOUS
  <1>1. <<>> \in Seq(Packets) /\ <<>> \in Seq(Frames) /\ <<>> \in Seq(Terminals)
    OBVIOUS
  <1>2. cfg \in Configs /\ scan \in Sweeps /\ chip \in Chips
    BY <1>1 DEF Init, NoScan, Configs, Sweeps, Chips, kDefaultFreq, kMaxSafeBenchTxPowerDbm
  <1>3. cur \in Bursts /\ ack \in [ok : BOOLEAN, freq : Nat]
    BY DEF Init, NoFrame, NoAck, Bursts
  <1>4. down \in BOOLEAN /\ pending \in BOOLEAN
    BY DEF Init
  <1>5. pc \in Stages /\ level \in 0..2 /\ accepted \in Nat /\ asked \in Nat /\ cmds \in Nat
    BY DEF Init, Stages, kDefaultFreq
  <1>6. txQ \in Seq(Frames) /\ terms \in Seq(Terminals)
    BY <1>1 DEF Init
  <1> QED
    BY <1>2, <1>3, <1>4, <1>5, <1>6 DEF TypeOK

(* ... and every step of the superloop keeps it so.                        *)
LEMMA TypeStep == TypeOK /\ [Next]_vars => TypeOK'
PROOF
  <1> SUFFICES ASSUME TypeOK, [Next]_vars PROVE TypeOK'
    OBVIOUS
  <1>n. NoAck \in [ok : BOOLEAN, freq : Nat]
    BY DEF NoAck
  <1>f. \A c \in Chips : FreqResults(c) \subseteq BOOLEAN
    BY DEF FreqResults
  <1>1. CASE handleConfig
    <2>1. PICK f \in CfgFreqs, p \in Powers, r \in Roles, ok \in FreqResults(chip) :
             /\ applyConfig(chip, [freq |-> f, power |-> p, role |-> r], level, ok)
             /\ ack' = [ok |-> ~Rejected([freq |-> f, power |-> p, role |-> r], level, ok),
                        freq |-> f]
             /\ asked' = IF f > 0 THEN f ELSE asked
      BY <1>1 DEF handleConfig
    <2>2. ok \in BOOLEAN /\ f \in Nat /\ p \in Int /\ r \in Nat
      BY <1>f, ConstantsAssumption DEF TypeOK
    <2>3. cfg' \in Configs /\ scan' \in Sweeps /\ chip' \in Chips
      <3>1. [freq |-> f, power |-> p, role |-> r] \in Configs
        BY <2>2 DEF Configs
      <3> QED
        BY <2>1, <2>2, <3>1, ApplyConfigType DEF TypeOK
    <2>4. ack' \in [ok : BOOLEAN, freq : Nat]
      <3>1. Rejected([freq |-> f, power |-> p, role |-> r], level, ok) \in BOOLEAN
        BY <2>2 DEF Rejected
      <3> QED
        BY <2>1, <2>2, <3>1
    <2> QED
      BY <1>1, <2>1, <2>2, <2>3, <2>4 DEF handleConfig, Command, TypeOK
  <1>2. CASE startScan
    <2>1. PICK p \in ScanPlans, ok \in FreqResults(chip) :
             /\ scan' = [active |-> TRUE, start |-> p.start, step |-> p.step,
                         count |-> p.count, idx |-> 0, consensus |-> FALSE,
                         home |-> IF ~scan.active /\ cfg.freq > 0 THEN cfg.freq ELSE scan.home,
                         heard |-> {}]
             /\ IF p.start > 0
                THEN /\ chip' = ArmReceive(SetFrequency(Standby(chip), p.start, ok), cfg.role)
                     /\ cfg' = [cfg EXCEPT !.freq = p.start]
                ELSE UNCHANGED <<chip, cfg>>
      BY <1>2 DEF startScan
    <2>2. ok \in BOOLEAN /\ p \in [start : Nat, step : Nat, count : Nat \ {0}]
      BY <1>f, ConstantsAssumption DEF TypeOK
    <2>3. scan' \in Sweeps
      BY <2>1, <2>2 DEF TypeOK, Sweeps, Configs
    <2>4. chip' \in Chips /\ cfg' \in Configs
      <3>1. ArmReceive(SetFrequency(Standby(chip), p.start, ok), cfg.role) \in Chips
        BY <2>2, ChipCalls DEF TypeOK, Configs
      <3> QED
        BY <2>1, <2>2, <3>1 DEF TypeOK, Configs
    <2>5. pending' \in BOOLEAN
      BY <1>2 DEF startScan
    <2> QED
      BY <1>2, <1>n, <2>3, <2>4, <2>5 DEF startScan, Command, TypeOK
  <1>3. CASE txBusy
    BY <1>3, <1>n DEF txBusy, Command, TypeOK
  <1>4. CASE enqueueTx
    <2>1. PICK n \in BurstSizes : txQ' = Append(txQ, [id |-> accepted + 1, total |-> n])
      BY <1>4 DEF enqueueTx
    <2>2. [id |-> accepted + 1, total |-> n] \in Frames
      BY ConstantsAssumption DEF TypeOK, Frames
    <2>3. txQ' \in Seq(Frames)
      BY <2>1, <2>2 DEF TypeOK
    <2> QED
      BY <1>4, <1>n, <2>3 DEF enqueueTx, Command, TypeOK
  <1>5. CASE serverIdle
    BY <1>5, <1>n DEF serverIdle, TypeOK, Stages
  <1>6. CASE thermalHold
    BY <1>6 DEF thermalHold, AfterThermal, TypeOK, Stages
  <1>7. CASE thermalCutoff
    <2>1. \A i \in 1..Len(txQ) : Terminal("dropped", txQ[i], {}) \in Terminals
      <3>1. \A i \in 1..Len(txQ) : txQ[i] \in Frames
        BY DEF TypeOK
      <3> QED
        BY <3>1 DEF Terminal, Terminals, Frames
    <2>2. [i \in 1..Len(txQ) |-> Terminal("dropped", txQ[i], {})] \in Seq(Terminals)
      <3>1. Len(txQ) \in Nat
        BY DEF TypeOK
      <3> QED
        BY <2>1, <3>1
    <2>3. terms' \in Seq(Terminals)
      BY <1>7, <2>2 DEF thermalCutoff, TypeOK
    <2>4. chip' \in Chips
      BY <1>7, ChipCalls DEF thermalCutoff, TypeOK
    <2>5. level' \in 0..2
      BY <1>7, TickLevel DEF thermalCutoff, TypeOK
    <2>6. txQ' \in Seq(Frames)
      BY <1>7 DEF thermalCutoff
    <2>7. pending' \in BOOLEAN /\ down' \in BOOLEAN
      BY <1>7 DEF thermalCutoff
    <2> QED
      BY <1>7, <2>3, <2>4, <2>5, <2>6, <2>7 DEF thermalCutoff, TypeOK, Stages
  <1>8. CASE thermalThrottle
    <2>1. level' \in 0..2
      BY <1>8, TickLevel DEF thermalThrottle, TypeOK
    <2>2. ArmReceive(SetOutputPower(Standby(chip), kThrottledTxPowerDbm), cfg.role) \in Chips
      <3>1. Standby(chip) \in Chips /\ cfg.role \in Nat /\ kThrottledTxPowerDbm \in Int
        BY ChipCalls DEF TypeOK, Configs, kThrottledTxPowerDbm
      <3>2. SetOutputPower(Standby(chip), kThrottledTxPowerDbm) \in Chips
        BY <3>1, ChipCalls
      <3> QED
        BY <3>1, <3>2, ChipCalls
    <2> QED
      BY <1>8, <2>1, <2>2 DEF thermalThrottle, TypeOK, Stages
  <1>9. CASE thermalRecover
    <2>1. PICK ok \in BOOLEAN : applyConfig(Begin(chip, cfg.role), cfg, 0, ok)
      BY <1>9 DEF thermalRecover
    <2>2. Begin(chip, cfg.role) \in Chips
      BY ChipCalls DEF TypeOK, Configs
    <2>3. cfg' \in Configs /\ scan' \in Sweeps /\ chip' \in Chips
      BY <2>1, <2>2, ApplyConfigType DEF TypeOK
    <2>4. level' \in 0..2
      BY <1>9, TickLevel DEF thermalRecover, TypeOK
    <2> QED
      BY <1>9, <2>3, <2>4 DEF thermalRecover, TypeOK, Stages
  <1>10. CASE thermalRecoverFails
    <2>1. level' \in 0..2
      BY <1>10, TickLevel DEF thermalRecoverFails, TypeOK
    <2>2. chip' \in Chips
      BY <1>10, ChipCalls DEF thermalRecoverFails, TypeOK
    <2> QED
      BY <1>10, <2>1, <2>2 DEF thermalRecoverFails, TypeOK, Stages
  <1>11. CASE thermalRestorePower
    <2>1. level' \in 0..2
      BY <1>11, TickLevel DEF thermalRestorePower, TypeOK
    <2>2. chip' \in Chips
      BY <1>11, ChipCalls DEF thermalRestorePower, TypeOK, Configs
    <2> QED
      BY <1>11, <2>1, <2>2 DEF thermalRestorePower, TypeOK, Stages
  <1>12. CASE scanIdle
    BY <1>12 DEF scanIdle, AfterScan, TypeOK, Stages
  <1>13. CASE scanAdvance
    <2> DEFINE next == [scan EXCEPT !.idx = @ + 1, !.consensus = FALSE, !.heard = {}]
    <2>1. PICK ok \in FreqResults(chip) :
             /\ scan' = next
             /\ cfg' = [cfg EXCEPT !.freq = Channel(next)]
             /\ chip' = ArmReceive(SetFrequency(Standby(chip), Channel(next), ok), cfg.role)
      BY <1>13 DEF scanAdvance
    <2>2. ok \in BOOLEAN
      BY <1>f DEF TypeOK
    <2>3. next \in Sweeps
      <3>1. scan \in Sweeps /\ scan.idx + 1 \in Nat /\ {} \in SUBSET Nat
        BY DEF TypeOK, Sweeps
      <3> QED
        BY <3>1 DEF Sweeps
    <2>4. Channel(next) \in Nat
      <3>1. next.start \in Nat /\ next.idx \in Nat /\ next.step \in Nat
        BY <2>3 DEF Sweeps
      <3>2. \A a, b \in Nat : a * b \in Nat
        OBVIOUS
      <3> QED
        BY <3>1, <3>2 DEF Channel
    <2>5. cfg' \in Configs
      BY <2>1, <2>4 DEF TypeOK, Configs
    <2>6. chip' \in Chips
      BY <2>1, <2>2, <2>4, ChipCalls DEF TypeOK, Configs
    <2> QED
      BY <1>13, <2>1, <2>3, <2>5, <2>6 DEF scanAdvance, AfterScan, TypeOK, Stages
  <1>14. CASE scanFinish
    <2>1. PICK ok \in FreqResults(chip) :
             IF scan.home > 0
             THEN /\ chip' = ArmReceive(SetFrequency(Standby(chip), scan.home, ok), cfg.role)
                  /\ cfg' = [cfg EXCEPT !.freq = scan.home]
             ELSE /\ chip' = ArmReceive(chip, cfg.role)
                  /\ UNCHANGED cfg
      BY <1>14 DEF scanFinish
    <2>2. ok \in BOOLEAN /\ scan.home \in Nat
      BY <1>f DEF TypeOK, Sweeps
    <2>3. chip' \in Chips
      <3>1. Standby(chip) \in Chips /\ cfg.role \in Nat
        BY ChipCalls DEF TypeOK, Configs
      <3>2. SetFrequency(Standby(chip), scan.home, ok) \in Chips
        BY <2>2, <3>1, ChipCalls
      <3>3. /\ ArmReceive(SetFrequency(Standby(chip), scan.home, ok), cfg.role) \in Chips
            /\ ArmReceive(chip, cfg.role) \in Chips
        BY <3>1, <3>2, ChipCalls DEF TypeOK
      <3> QED
        BY <2>1, <3>3
    <2>4. cfg' \in Configs
      BY <2>1, <2>2 DEF TypeOK, Configs
    <2>5. scan' \in Sweeps
      <3>1. scan \in Sweeps /\ scan.idx + 1 \in Nat
        BY DEF TypeOK, Sweeps
      <3>2. [scan EXCEPT !.idx = @ + 1, !.active = FALSE] \in Sweeps
        BY <3>1 DEF Sweeps
      <3> QED
        BY <1>14, <3>2 DEF scanFinish
    <2> QED
      BY <1>14, <2>3, <2>4, <2>5 DEF scanFinish, AfterScan, TypeOK, Stages
  <1>15. CASE rxPacket
    <2>1. Head(chip.fifo) \in Packets /\ <<>> \in Seq(Packets)
      BY <1>15 DEF rxPacket, TypeOK, Chips
    <2>2. chip' \in Chips
      BY <1>15, <2>1 DEF rxPacket, TypeOK, Chips
    <2>3. scan' \in Sweeps
      <3>1. Head(chip.fifo).consensus \in BOOLEAN /\ Head(chip.fifo).freq \in Nat
        BY <2>1 DEF Packets
      <3>2. scan.heard \cup {Head(chip.fifo).freq} \in SUBSET Nat
        BY <3>1 DEF TypeOK, Sweeps
      <3>3. (scan.consensus \/ Head(chip.fifo).consensus) \in BOOLEAN
        BY <3>1 DEF TypeOK, Sweeps
      <3> QED
        BY <1>15, <3>2, <3>3 DEF rxPacket, TypeOK, Sweeps
    <2> QED
      BY <1>15, <2>2, <2>3 DEF rxPacket, TypeOK
  <1>16. CASE rxDone
    <2>1. chip' \in Chips
      <3>1. ArmReceive(chip, cfg.role) \in Chips
        BY ChipCalls DEF TypeOK, Configs
      <3> QED
        BY <1>16, <3>1 DEF rxDone, TypeOK
    <2> QED
      BY <1>16, <2>1 DEF rxDone, TypeOK, Stages
  <1>17. CASE serviceNothing
    BY <1>17 DEF serviceNothing, TypeOK, Stages
  <1>18. CASE serviceTxQueue
    <2>1. Head(txQ) \in Frames /\ Tail(txQ) \in Seq(Frames) /\ Len(txQ) \in Nat
      BY <1>18 DEF serviceTxQueue, TypeOK
    <2>2. cur' \in Bursts
      BY <1>18, <2>1 DEF serviceTxQueue, NoFrame, Bursts, Frames
    <2>3. chip' \in Chips
      BY <1>18, ChipCalls DEF serviceTxQueue, TypeOK
    <2>4. pending' \in BOOLEAN
      BY <1>18, <2>1 DEF serviceTxQueue
    <2> QED
      BY <1>18, <2>1, <2>2, <2>3, <2>4 DEF serviceTxQueue, TypeOK, Stages
  <1>19. CASE txStartFails
    <2>1. cur.aired \in SUBSET Nat
      BY DEF TypeOK, Bursts
    <2>2. /\ terms' \in Seq(Terminals) /\ cur' \in Bursts
          /\ chip' \in Chips /\ pc' \in Stages
      BY <1>19, <2>1, AttemptFailsType DEF txStartFails
    <2> QED
      BY <1>19, <2>2 DEF txStartFails, TypeOK
  <1>20. CASE txTimeout
    <2>1. PICK aired \in {cur.aired, cur.aired \cup {cur.idx}} : AttemptFails(aired)
      BY <1>20 DEF txTimeout
    <2>2. aired \in SUBSET Nat
      BY DEF TypeOK, Bursts
    <2>3. /\ terms' \in Seq(Terminals) /\ cur' \in Bursts
          /\ chip' \in Chips /\ pc' \in Stages
      BY <2>1, <2>2, AttemptFailsType
    <2> QED
      BY <1>20, <2>3 DEF txTimeout, TypeOK
  <1>21. CASE txPacketDone
    <2> DEFINE aired == cur.aired \cup {cur.idx}
    <2>1. aired \in SUBSET Nat
      BY DEF TypeOK, Bursts
    <2>2. /\ terms' \in Seq(Terminals) /\ cur' \in Bursts
          /\ chip' \in Chips /\ pc' \in Stages
      <3>1. CASE cur.idx + 1 < cur.total
        <4>1. [cur EXCEPT !.idx = @ + 1, !.attempt = 0, !.aired = aired] \in Bursts
          <5>1. cur \in Bursts /\ cur.idx + 1 \in Nat
            BY DEF TypeOK, Bursts
          <5> QED
            BY <2>1, <5>1 DEF Bursts
        <4> QED
          BY <1>21, <3>1, <4>1 DEF txPacketDone, TypeOK
      <3>2. CASE ~(cur.idx + 1 < cur.total)
        BY <1>21, <2>1, <3>2, SettleType DEF txPacketDone
      <3> QED
        BY <3>1, <3>2
    <2> QED
      BY <1>21, <2>2 DEF txPacketDone, TypeOK
  <1>22. CASE AirPacket
    <2>1. PICK c \in AirKinds :
             chip' = [chip EXCEPT !.fifo = <<[freq |-> chip.freq, consensus |-> c]>>]
      BY <1>22 DEF AirPacket
    <2>2. <<[freq |-> chip.freq, consensus |-> c]>> \in Seq(Packets)
      BY ConstantsAssumption DEF TypeOK, Chips, Packets
    <2>3. chip' \in Chips
      BY <2>1, <2>2 DEF TypeOK, Chips
    <2> QED
      BY <1>22, <2>3 DEF AirPacket, TypeOK
  <1>23. CASE UNCHANGED vars
    BY <1>23 DEF vars, TypeOK
  <1> QED
    BY <1>1, <1>2, <1>3, <1>4, <1>5, <1>6, <1>7, <1>8, <1>9, <1>10, <1>11, <1>12, <1>13,
       <1>14, <1>15, <1>16, <1>17, <1>18, <1>19, <1>20, <1>21, <1>22, <1>23
    DEF Next, Server, Thermal, Scan, Receive, Transmit

(* Every variable of the worker keeps its type, however many commands,     *)
(* ticks, packets and frames the superloop handles.                        *)
THEOREM TypeCorrect == Spec => []TypeOK
PROOF
  <1>1. Init => TypeOK
    BY TypeInit
  <1>2. TypeOK /\ [Next]_vars => TypeOK'
    BY TypeStep
  <1> QED
    BY <1>1, <1>2, PTL DEF Spec

----------------------------------------------------------------------------
(* Thermal safety.                                                         *)

(* What the chip calls leave alone: only SetOutputPower changes the power, *)
(* and none of them brings a chip up or down or touches the rail.          *)
LEMMA ChipCallsKeep ==
  ASSUME NEW c \in Chips
  PROVE  /\ Standby(c).up = c.up /\ Standby(c).rail = c.rail /\ Standby(c).power = c.power
         /\ \A f \in Nat, ok \in BOOLEAN :
              /\ SetFrequency(c, f, ok).up = c.up /\ SetFrequency(c, f, ok).rail = c.rail
              /\ SetFrequency(c, f, ok).power = c.power
         /\ \A p \in Int :
              /\ SetOutputPower(c, p).up = c.up /\ SetOutputPower(c, p).rail = c.rail
              /\ SetOutputPower(c, p).power = (IF c.up THEN p ELSE c.power)
         /\ \A r \in Nat :
              /\ ArmReceive(c, r).up = c.up /\ ArmReceive(c, r).rail = c.rail
              /\ ArmReceive(c, r).power = c.power
PROOF
  <1>1. Standby(c).up = c.up /\ Standby(c).rail = c.rail /\ Standby(c).power = c.power
    BY DEF Chips, Standby
  <1>2. \A f \in Nat, ok \in BOOLEAN :
          /\ SetFrequency(c, f, ok).up = c.up /\ SetFrequency(c, f, ok).rail = c.rail
          /\ SetFrequency(c, f, ok).power = c.power
    BY DEF Chips, SetFrequency
  <1>3. \A p \in Int :
          /\ SetOutputPower(c, p).up = c.up /\ SetOutputPower(c, p).rail = c.rail
          /\ SetOutputPower(c, p).power = (IF c.up THEN p ELSE c.power)
    BY DEF Chips, SetOutputPower
  <1>4. \A r \in Nat :
          /\ ArmReceive(c, r).up = c.up /\ ArmReceive(c, r).rail = c.rail
          /\ ArmReceive(c, r).power = c.power
    BY DEF Chips, ArmReceive
  <1> QED
    BY <1>1, <1>2, <1>3, <1>4

(* Standing by, retuning and re-arming, as commands and sweeps do, changes *)
(* neither the power nor the life of the chip.                             *)
LEMMA RetuneKeeps ==
  ASSUME NEW c \in Chips, NEW f \in Nat, NEW ok \in BOOLEAN, NEW r \in Nat
  PROVE  LET d == ArmReceive(SetFrequency(Standby(c), f, ok), r)
         IN  d.up = c.up /\ d.rail = c.rail /\ d.power = c.power
PROOF
  <1>1. Standby(c) \in Chips /\ SetFrequency(Standby(c), f, ok) \in Chips
    BY ChipCalls
  <1>2. /\ Standby(c).up = c.up /\ Standby(c).rail = c.rail /\ Standby(c).power = c.power
    BY ChipCallsKeep
  <1>3. /\ SetFrequency(Standby(c), f, ok).up = c.up
        /\ SetFrequency(Standby(c), f, ok).rail = c.rail
        /\ SetFrequency(Standby(c), f, ok).power = c.power
    BY <1>1, <1>2, ChipCallsKeep
  <1> QED
    BY <1>1, <1>3, ChipCallsKeep

(* Standing by, setting a power and re-arming, as thermalTick does.        *)
LEMMA RepowerSets ==
  ASSUME NEW c \in Chips, NEW p \in Int, NEW r \in Nat
  PROVE  LET d == ArmReceive(SetOutputPower(Standby(c), p), r)
         IN  /\ d \in Chips /\ d.up = c.up /\ d.rail = c.rail
             /\ d.power = (IF c.up THEN p ELSE c.power)
PROOF
  <1>1. Standby(c) \in Chips /\ SetOutputPower(Standby(c), p) \in Chips
    BY ChipCalls
  <1>2. /\ Standby(c).up = c.up /\ Standby(c).rail = c.rail /\ Standby(c).power = c.power
    BY ChipCallsKeep
  <1>3. /\ SetOutputPower(Standby(c), p).up = c.up
        /\ SetOutputPower(Standby(c), p).rail = c.rail
        /\ SetOutputPower(Standby(c), p).power = (IF c.up THEN p ELSE c.power)
    BY <1>1, <1>2, ChipCallsKeep
  <1> QED
    BY <1>1, <1>3, ChipCalls, ChipCallsKeep

(* applyConfig leaves the power alone or sets it to the clamped request.   *)
LEMMA ApplyConfigPower ==
  ASSUME NEW c \in Chips, NEW req \in Configs, NEW l \in 0..2, NEW ok \in BOOLEAN,
         cfg \in Configs, applyConfig(c, req, l, ok)
  PROVE  /\ chip'.up = c.up /\ chip'.rail = c.rail
         /\ chip'.power \in {c.power, Clamp(req.power, l)}
         /\ cfg'.power \in {cfg.power, Clamp(req.power, l)}
PROOF
  <1> DEFINE new == [req EXCEPT !.power = Clamp(@, l)]
             tuned == IF new.freq > 0 THEN SetFrequency(Standby(c), new.freq, ok) ELSE Standby(c)
             done == IF Rejected(req, l, ok) \/ new.power = cfg.power
                     THEN tuned ELSE SetOutputPower(tuned, new.power)
  <1>1. new \in Configs /\ new.power = Clamp(req.power, l)
    BY ClampBound DEF Configs
  <1>2. tuned \in Chips
    BY <1>1, ChipCalls DEF Configs
  <1>3. tuned.up = c.up /\ tuned.rail = c.rail /\ tuned.power = c.power
    <2>1. Standby(c) \in Chips
      BY ChipCalls
    <2>2. Standby(c).up = c.up /\ Standby(c).rail = c.rail /\ Standby(c).power = c.power
      BY ChipCallsKeep
    <2> QED
      BY <1>1, <2>1, <2>2, ChipCallsKeep DEF Configs
  <1>4. done \in Chips
    BY <1>1, <1>2, ChipCalls DEF Configs
  <1>5. done.up = c.up /\ done.rail = c.rail /\ done.power \in {c.power, Clamp(req.power, l)}
    <2>1. new.power \in Int
      BY <1>1 DEF Configs
    <2> QED
      BY <1>1, <1>2, <1>3, <2>1, ChipCallsKeep
  <1>6. /\ ArmReceive(done, new.role).up = c.up /\ ArmReceive(done, new.role).rail = c.rail
        /\ ArmReceive(done, new.role).power \in {c.power, Clamp(req.power, l)}
    BY <1>1, <1>4, <1>5, ChipCallsKeep DEF Configs
  <1>7. CASE Unchanged(req, l)
    BY <1>7 DEF applyConfig
  <1>8. CASE ~Unchanged(req, l)
    <2>1. chip' = ArmReceive(done, new.role) /\ cfg' = new
      BY <1>8 DEF applyConfig, Configured
    <2> QED
      BY <1>1, <1>6, <2>1
  <1> QED
    BY <1>7, <1>8

(* The initial state is cool, with the bench power.                       *)
LEMMA ThermalInit == Init => ThermalInv
  BY DEF Init, ThermalInv, CutoffSafe, PowerCap, MaxPower, kMaxSafeBenchTxPowerDbm

(* Steps that touch neither thermal state, configuration, queue nor the    *)
(* life and power of the chip keep ThermalInv.                             *)
LEMMA ThermalFrame ==
  ASSUME TypeOK, ThermalInv,
         level' = level, down' = down, cfg'.power = cfg.power,
         chip'.up = chip.up, chip'.rail = chip.rail, chip'.power = chip.power,
         level = 2 => txQ' = txQ /\ pc' \in {"server", "thermal"}
  PROVE  ThermalInv'
  BY DEF ThermalInv, CutoffSafe, PowerCap, MaxPower

(* Every step keeps the thermal invariant.                                *)
LEMMA ThermalStep == TypeOK /\ ThermalInv /\ [Next]_vars => ThermalInv'
PROOF
  <1> SUFFICES ASSUME TypeOK, ThermalInv, [Next]_vars PROVE ThermalInv'
    OBVIOUS
  <1>t. /\ chip \in Chips /\ cfg \in Configs /\ cfg.role \in Nat /\ cfg.freq \in Nat
        /\ cfg.power \in Int /\ level \in 0..2 /\ scan \in Sweeps
    BY DEF TypeOK, Configs
  <1>f. FreqResults(chip) \subseteq BOOLEAN
    BY DEF FreqResults
  <1>1. CASE handleConfig
    <2>1. PICK f \in CfgFreqs, p \in Powers, r \in Roles, ok \in FreqResults(chip) :
             applyConfig(chip, [freq |-> f, power |-> p, role |-> r], level, ok)
      BY <1>1 DEF handleConfig
    <2>2. [freq |-> f, power |-> p, role |-> r] \in Configs /\ p \in Int /\ ok \in BOOLEAN
      BY <1>f, ConstantsAssumption DEF Configs
    <2>3. /\ chip'.up = chip.up /\ chip'.rail = chip.rail
          /\ chip'.power \in {chip.power, Clamp(p, level)}
          /\ cfg'.power \in {cfg.power, Clamp(p, level)}
      BY <1>t, <2>1, <2>2, ApplyConfigPower
    <2>4. Clamp(p, level) <= MaxPower(level) /\ Clamp(p, level) <= kMaxSafeBenchTxPowerDbm
      BY <1>t, <2>2, ClampBound
    <2>5. UNCHANGED <<pc, level, down, txQ>>
      BY <1>1 DEF handleConfig
    <2> QED
      BY <2>3, <2>4, <2>5 DEF ThermalInv, CutoffSafe, PowerCap, MaxPower
  <1>2. CASE startScan
    <2>1. PICK p \in ScanPlans, ok \in FreqResults(chip) :
             IF p.start > 0
             THEN /\ chip' = ArmReceive(SetFrequency(Standby(chip), p.start, ok), cfg.role)
                  /\ cfg' = [cfg EXCEPT !.freq = p.start]
             ELSE UNCHANGED <<chip, cfg>>
      BY <1>2 DEF startScan
    <2>2. p.start \in Nat /\ ok \in BOOLEAN
      BY <1>f, ConstantsAssumption
    <2>3. chip'.up = chip.up /\ chip'.rail = chip.rail /\ chip'.power = chip.power
      BY <1>t, <2>1, <2>2, RetuneKeeps
    <2>4. cfg'.power = cfg.power
      BY <1>t, <2>1, <2>2 DEF Configs
    <2>5. UNCHANGED <<pc, level, down, txQ>>
      BY <1>2 DEF startScan
    <2>6. level = 2 => txQ' = txQ /\ pc' \in {"server", "thermal"}
      BY <2>5 DEF ThermalInv
    <2> QED
      BY <2>3, <2>4, <2>5, <2>6, ThermalFrame
  <1>3. CASE txBusy
    BY <1>3, ThermalFrame DEF txBusy, ThermalInv
  <1>4. CASE enqueueTx
    <2>1. level # 2
      BY <1>4 DEF enqueueTx, Refused
    <2> QED
      BY <1>4, <2>1, ThermalFrame DEF enqueueTx
  <1>5. CASE serverIdle
    BY <1>5, ThermalFrame DEF serverIdle
  <1>6. CASE thermalHold
    BY <1>6, ThermalFrame DEF thermalHold, AfterThermal
  <1>7. CASE thermalCutoff
    <2>1. level' = 2
      BY <1>7 DEF thermalCutoff, Tick
    <2>2. ~chip'.up /\ ~chip'.rail
      BY <1>7, <1>t DEF thermalCutoff, PowerOff, Chips
    <2> QED
      BY <1>7, <2>1, <2>2 DEF thermalCutoff, ThermalInv, CutoffSafe, PowerCap
  <1>8. CASE thermalThrottle
    <2>1. level' = 1
      BY <1>8 DEF thermalThrottle, Tick
    <2>2. CASE down
      <3>1. chip' = chip /\ down' /\ cfg' = cfg
        BY <1>8, <2>2 DEF thermalThrottle
      <3> QED
        BY <2>1, <2>2, <3>1 DEF ThermalInv, CutoffSafe, PowerCap
    <2>3. CASE ~down
      <3>1. chip'.up = chip.up /\ chip'.power = (IF chip.up THEN kThrottledTxPowerDbm ELSE chip.power)
        <4>1. kThrottledTxPowerDbm \in Int
          BY DEF kThrottledTxPowerDbm
        <4>2. chip' = ArmReceive(SetOutputPower(Standby(chip), kThrottledTxPowerDbm), cfg.role)
          BY <1>8, <2>3 DEF thermalThrottle
        <4> QED
          BY <1>t, <4>1, <4>2, RepowerSets
      <3> QED
        BY <1>8, <2>1, <2>3, <3>1
        DEF thermalThrottle, ThermalInv, CutoffSafe, PowerCap, MaxPower, kThrottledTxPowerDbm
    <2> QED
      BY <2>2, <2>3
  <1>9. CASE thermalRecover
    <2>1. PICK ok \in BOOLEAN : applyConfig(Begin(chip, cfg.role), cfg, 0, ok)
      BY <1>9 DEF thermalRecover
    <2>2. /\ Begin(chip, cfg.role) \in Chips
          /\ Begin(chip, cfg.role).up
          /\ Begin(chip, cfg.role).power = kMaxSafeBenchTxPowerDbm
      <3> DEFINE fresh == Found(kDefaultFreq, kMaxSafeBenchTxPowerDbm)
      <3>1. fresh \in Chips
        BY FoundChip
      <3>2. fresh.up /\ fresh.power = kMaxSafeBenchTxPowerDbm
        BY FoundChip
      <3>3. Begin(chip, cfg.role) = ArmReceive(fresh, cfg.role)
        BY DEF Begin
      <3> HIDE DEF fresh
      <3>4. ArmReceive(fresh, cfg.role) \in Chips
        BY <1>t, <3>1, ChipCalls
      <3>5. /\ ArmReceive(fresh, cfg.role).up = fresh.up
            /\ ArmReceive(fresh, cfg.role).power = fresh.power
        BY <1>t, <3>1, ChipCallsKeep
      <3> QED
        BY <3>2, <3>3, <3>4, <3>5
    <2>3. /\ chip'.up
          /\ chip'.power \in {kMaxSafeBenchTxPowerDbm, Clamp(cfg.power, 0)}
          /\ cfg'.power \in {cfg.power, Clamp(cfg.power, 0)}
      BY <1>t, <2>1, <2>2, ApplyConfigPower
    <2>4. Clamp(cfg.power, 0) <= kMaxSafeBenchTxPowerDbm
      BY <1>t, ClampBound
    <2>5. level' = 0 /\ down' = FALSE
      BY <1>9 DEF thermalRecover, Tick
    <2> QED
      BY <2>3, <2>4, <2>5
      DEF ThermalInv, CutoffSafe, PowerCap, MaxPower, kMaxSafeBenchTxPowerDbm
  <1>10. CASE thermalRecoverFails
    <2>1. level' = 0 /\ down' /\ cfg' = cfg
      BY <1>10 DEF thermalRecoverFails, Tick
    <2>2. chip'.up => chip'.power <= kMaxSafeBenchTxPowerDbm
      <3> DEFINE dead == [PowerOff(chip) EXCEPT !.rail = TRUE]
      <3>1. ~dead.up
        BY <1>t, ChipCalls DEF PowerOff, Chips
      <3>2. chip' \in {dead, Found(0, ResetPower), Found(kDefaultFreq, ResetPower),
                       Found(kDefaultFreq, kMaxSafeBenchTxPowerDbm)}
        BY <1>10 DEF thermalRecoverFails, BeginFails
      <3> HIDE DEF dead
      <3> QED
        BY <3>1, <3>2, FoundChip, ConstantsAssumption DEF kMaxSafeBenchTxPowerDbm
    <2> QED
      BY <2>1, <2>2 DEF ThermalInv, CutoffSafe, PowerCap, MaxPower
  <1>11. CASE thermalRestorePower
    <2>1. level' = 0 /\ down' = down /\ cfg' = cfg /\ ~down
      BY <1>11 DEF thermalRestorePower, Tick
    <2>2. chip'.up = chip.up /\ chip'.power = (IF chip.up THEN cfg.power ELSE chip.power)
      BY <1>11, <1>t, RepowerSets DEF thermalRestorePower
    <2> QED
      BY <2>1, <2>2 DEF ThermalInv, CutoffSafe, PowerCap, MaxPower
  <1>12. CASE scanIdle
    BY <1>12, ThermalFrame DEF scanIdle, ThermalInv
  <1>13. CASE scanAdvance
    <2> DEFINE next == [scan EXCEPT !.idx = @ + 1, !.consensus = FALSE, !.heard = {}]
    <2>1. PICK ok \in FreqResults(chip) :
             /\ cfg' = [cfg EXCEPT !.freq = Channel(next)]
             /\ chip' = ArmReceive(SetFrequency(Standby(chip), Channel(next), ok), cfg.role)
      BY <1>13 DEF scanAdvance
    <2>2. Channel(next) \in Nat /\ ok \in BOOLEAN
      <3>1. next.start \in Nat /\ next.idx \in Nat /\ next.step \in Nat
        BY <1>t DEF Sweeps
      <3>2. \A a, b \in Nat : a * b \in Nat
        OBVIOUS
      <3> QED
        BY <1>f, <3>1, <3>2 DEF Channel
    <2>3. chip'.up = chip.up /\ chip'.rail = chip.rail /\ chip'.power = chip.power
      BY <1>t, <2>1, <2>2, RetuneKeeps
    <2>4. cfg'.power = cfg.power
      BY <1>t, <2>1 DEF Configs
    <2>5. UNCHANGED <<level, down, txQ>> /\ level # 2
      BY <1>13 DEF scanAdvance, ThermalInv
    <2> QED
      BY <2>3, <2>4, <2>5, ThermalFrame
  <1>14. CASE scanFinish
    <2>1. PICK ok \in FreqResults(chip) :
             IF scan.home > 0
             THEN /\ chip' = ArmReceive(SetFrequency(Standby(chip), scan.home, ok), cfg.role)
                  /\ cfg' = [cfg EXCEPT !.freq = scan.home]
             ELSE /\ chip' = ArmReceive(chip, cfg.role)
                  /\ UNCHANGED cfg
      BY <1>14 DEF scanFinish
    <2>2. ok \in BOOLEAN /\ scan.home \in Nat
      BY <1>f, <1>t DEF Sweeps
    <2>3. chip'.up = chip.up /\ chip'.rail = chip.rail /\ chip'.power = chip.power
      BY <1>t, <2>1, <2>2, RetuneKeeps, ChipCallsKeep
    <2>4. cfg'.power = cfg.power
      BY <1>t, <2>1 DEF Configs
    <2>5. UNCHANGED <<level, down, txQ>> /\ level # 2
      BY <1>14 DEF scanFinish, ThermalInv
    <2> QED
      BY <2>3, <2>4, <2>5, ThermalFrame
  <1>15. CASE rxPacket
    <2>1. chip'.up = chip.up /\ chip'.rail = chip.rail /\ chip'.power = chip.power
      BY <1>15, <1>t DEF rxPacket, Chips
    <2> QED
      BY <1>15, <2>1, ThermalFrame DEF rxPacket, ThermalInv
  <1>16. CASE rxDone
    <2>1. chip'.up = chip.up /\ chip'.rail = chip.rail /\ chip'.power = chip.power
      BY <1>16, <1>t, ChipCallsKeep DEF rxDone
    <2> QED
      BY <1>16, <2>1, ThermalFrame DEF rxDone, ThermalInv
  <1>17. CASE serviceNothing
    BY <1>17, ThermalFrame DEF serviceNothing
  <1>18. CASE serviceTxQueue
    <2>1. chip'.up = chip.up /\ chip'.rail = chip.rail /\ chip'.power = chip.power
      BY <1>18, <1>t, ChipCallsKeep DEF serviceTxQueue
    <2> QED
      BY <1>18, <2>1, ThermalFrame DEF serviceTxQueue, ThermalInv
  <1>19. CASE txStartFails \/ txTimeout \/ txPacketDone
    <2>1. UNCHANGED <<level, down, cfg, txQ>> /\ pc = "tx"
      BY <1>19 DEF txStartFails, txTimeout, txPacketDone
    <2>2. chip' \in {chip, ArmReceive(chip, cfg.role)}
      BY <1>19 DEF txStartFails, txTimeout, txPacketDone, AttemptFails, Settle
    <2>3. chip'.up = chip.up /\ chip'.rail = chip.rail /\ chip'.power = chip.power
      BY <1>t, <2>2, ChipCallsKeep
    <2> QED
      BY <2>1, <2>3, ThermalFrame DEF ThermalInv
  <1>20. CASE AirPacket
    <2>1. chip'.up = chip.up /\ chip'.rail = chip.rail /\ chip'.power = chip.power
      BY <1>20, <1>t DEF AirPacket, Chips
    <2> QED
      BY <1>20, <2>1, ThermalFrame DEF AirPacket, ThermalInv
  <1>21. CASE UNCHANGED vars
    BY <1>21, ThermalFrame DEF vars, ThermalInv
  <1> QED
    BY <1>1, <1>2, <1>3, <1>4, <1>5, <1>6, <1>7, <1>8, <1>9, <1>10, <1>11, <1>12, <1>13,
       <1>14, <1>15, <1>16, <1>17, <1>18, <1>19, <1>20, <1>21
    DEF Next, Server, Thermal, Scan, Receive, Transmit

(* Under thermal cutoff the rail is off, the queue empty and nothing is on *)
(* the air, whatever commands arrive (thermalTick, enqueueTx, pollOnce).   *)
THEOREM CutoffIsSafe == Spec => []CutoffSafe
PROOF
  <1>1. Init => TypeOK /\ ThermalInv
    BY TypeInit, ThermalInit
  <1>2. (TypeOK /\ ThermalInv) /\ [Next]_vars => (TypeOK /\ ThermalInv)'
    BY TypeStep, ThermalStep
  <1>3. TypeOK /\ ThermalInv => CutoffSafe
    BY DEF ThermalInv
  <1> QED
    BY <1>1, <1>2, <1>3, PTL DEF Spec

(* A live chip is never set above the power limit of the thermal level, or *)
(* above the bench limit when a failed recovery left it alive behind       *)
(* thermal_powered_down_ (applyConfig, thermalTick, init, beginFLRC).      *)
THEOREM PowerIsCapped == Spec => []PowerCap
PROOF
  <1>1. Init => TypeOK /\ ThermalInv
    BY TypeInit, ThermalInit
  <1>2. (TypeOK /\ ThermalInv) /\ [Next]_vars => (TypeOK /\ ThermalInv)'
    BY TypeStep, ThermalStep
  <1>3. TypeOK /\ ThermalInv => PowerCap
    BY DEF ThermalInv
  <1> QED
    BY <1>1, <1>2, <1>3, PTL DEF Spec
=============================================================================
