---------------------------- MODULE TxPathProofs ----------------------------
(***************************************************************************)
(* Proofs about the TX path of RadioWorker: every accepted frame is        *)
(* answered exactly once and in order, 'G' only for a burst that left      *)
(* completely, and the worker implements TxContract.                       *)
(***************************************************************************)
EXTENDS RadioWorkerProofs, SequenceTheorems

(* The initial state has answered, queued and sent nothing.               *)
LEMMA TxInit == Init => TxInv
PROOF
  <1> SUFFICES ASSUME Init PROVE TxInv
    OBVIOUS
  <1>1. txQ = <<>> /\ terms = <<>> /\ accepted = 0 /\ pc = "server" /\ pending = FALSE
    BY DEF Init
  <1>2. Len(txQ) = 0 /\ Len(terms) = 0
    BY <1>1
  <1> QED
    BY <1>1, <1>2, ConstantsAssumption
    DEF TxInv, OneTerminalEach, QueueBounded, OkMeansAired, BurstProgress, InFlight

(* Steps outside serviceTxQueue that leave queue and terminals alone.      *)
LEMMA TxFrame ==
  ASSUME TxInv, UNCHANGED <<txQ, terms, accepted>>, pc # "tx", pc' # "tx", pending' => pending
  PROVE  TxInv'
  BY DEF TxInv, OneTerminalEach, QueueBounded, OkMeansAired, BurstProgress, InFlight

(* Steps outside the TX path altogether.                                   *)
LEMMA TxFrameAll ==
  ASSUME TxInv, UNCHANGED <<pc, txQ, terms, accepted, cur, pending>>
  PROVE  TxInv'
  BY DEF TxInv, OneTerminalEach, QueueBounded, OkMeansAired, BurstProgress, InFlight

(* A frame taken by enqueueTx goes to the end of the queue.                *)
LEMMA TxEnqueue ==
  ASSUME TypeOK, TxInv, enqueueTx
  PROVE  TxInv'
PROOF
  <1>1. PICK n \in BurstSizes : txQ' = Append(txQ, [id |-> accepted + 1, total |-> n])
    BY DEF enqueueTx
  <1> DEFINE f == [id |-> accepted + 1, total |-> n]
  <1>2. n \in Nat /\ n > 0 /\ txQ \in Seq(Frames) /\ f \in Frames /\ Len(txQ) \in Nat
        /\ Len(terms) \in Nat
    BY ConstantsAssumption DEF TypeOK, Frames
  <1>3. /\ Len(txQ') = Len(txQ) + 1
        /\ \A i \in 1..Len(txQ) : txQ'[i] = txQ[i]
        /\ txQ'[Len(txQ) + 1] = f
    BY <1>1, <1>2
  <1>4. /\ pc = "server" /\ pc' = "server" /\ Len(txQ) < QueueCap
        /\ accepted' = accepted + 1 /\ terms' = terms
    BY <1>2, ConstantsAssumption DEF enqueueTx, Command, Refused
  <1>5. accepted = Len(terms) + Len(txQ)
    BY <1>4 DEF TxInv, OneTerminalEach, InFlight
  <1>6. \A i \in 1..Len(txQ') : txQ'[i].id = Len(terms) + i /\ txQ'[i].total > 0
    <2>1. \A i \in 1..Len(txQ) : txQ[i].id = Len(terms) + i /\ txQ[i].total > 0
      BY <1>2, <1>4 DEF TxInv, OneTerminalEach, InFlight
    <2>2. f.id = Len(terms) + (Len(txQ) + 1) /\ f.total > 0
      BY <1>2, <1>5
    <2>3. \A i \in 1..Len(txQ') : i \in 1..Len(txQ) \/ i = Len(txQ) + 1
      BY <1>2, <1>3
    <2> HIDE DEF f
    <2> QED
      BY <1>3, <2>1, <2>2, <2>3
  <1>7. OneTerminalEach'
    BY <1>2, <1>3, <1>4, <1>5, <1>6 DEF TxInv, OneTerminalEach, InFlight
  <1>8. QueueBounded'
    BY <1>2, <1>3, <1>4, ConstantsAssumption DEF QueueBounded
  <1> QED
    BY <1>4, <1>6, <1>7, <1>8 DEF TxInv, OkMeansAired, BurstProgress

(* The drain at thermal cutoff answers the queued frames in order.         *)
LEMMA TxDrain ==
  ASSUME TypeOK, TxInv, thermalCutoff
  PROVE  TxInv'
PROOF
  <1> DEFINE D == [i \in 1..Len(txQ) |-> Terminal("dropped", txQ[i], {})]
             m == Len(terms)
             n == Len(txQ)
  <1>1. terms \in Seq(Terminals) /\ txQ \in Seq(Frames) /\ m \in Nat /\ n \in Nat
    BY DEF TypeOK
  <1>2. /\ terms' = terms \o D /\ txQ' = <<>> /\ ~pending' /\ pc = "thermal"
        /\ pc' = "server" /\ accepted' = accepted
    BY DEF thermalCutoff, Tick
  <1>3. D \in Seq(Terminals) /\ Len(D) = n
    <2>1. \A i \in 1..n : txQ[i] \in Frames
      BY <1>1
    <2>2. \A i \in 1..n : Terminal("dropped", txQ[i], {}) \in Terminals
      BY <2>1 DEF Terminal, Terminals, Frames
    <2> QED
      BY <1>1, <2>2
  <1>4. \A i \in 1..n : D[i].id = m + i /\ D[i].res = "dropped"
    <2>1. \A i \in 1..n : txQ[i].id = m + i
      BY <1>1, <1>2 DEF TxInv, OneTerminalEach, InFlight
    <2> QED
      BY <2>1 DEF Terminal
  <1> HIDE DEF D
  <1>5. Len(terms') = m + n
    <2>1. Len(terms \o D) = Len(terms) + Len(D)
      BY <1>1, <1>3
    <2> QED
      BY <1>2, <1>3, <2>1
  <1>6. \A i \in 1..(m + n) : terms'[i] = IF i <= m THEN terms[i] ELSE D[i - m]
    BY <1>1, <1>2, <1>3
  <1>7. \A i \in 1..(m + n) : \/ i \in 1..m /\ terms'[i] = terms[i]
                              \/ i - m \in 1..n /\ terms'[i] = D[i - m]
    BY <1>1, <1>6
  <1>8. \A i \in 1..(m + n) : terms'[i].id = i
    BY <1>1, <1>4, <1>7 DEF TxInv, OneTerminalEach
  <1>9. \A i \in 1..(m + n) : terms'[i].res = "ok" => terms'[i].aired = 0..(terms'[i].total - 1)
    BY <1>4, <1>7 DEF TxInv, OkMeansAired
  <1>10. accepted = m + n
    BY <1>1, <1>2 DEF TxInv, OneTerminalEach, InFlight
  <1>11. Len(txQ') = 0
    BY <1>2
  <1>12. OneTerminalEach'
    BY <1>1, <1>2, <1>5, <1>8, <1>10, <1>11 DEF OneTerminalEach, InFlight
  <1>13. OkMeansAired'
    BY <1>5, <1>9 DEF OkMeansAired
  <1>14. QueueBounded' /\ BurstProgress'
    BY <1>2, <1>11, ConstantsAssumption DEF QueueBounded, BurstProgress
  <1> QED
    BY <1>11, <1>12, <1>13, <1>14 DEF TxInv

(* serviceTxQueue takes the oldest frame and starts its burst.             *)
LEMMA TxPop ==
  ASSUME TypeOK, TxInv, serviceTxQueue
  PROVE  TxInv'
PROOF
  <1>1. /\ txQ \in Seq(Frames) /\ txQ # <<>> /\ Len(txQ) \in Nat /\ Len(txQ) >= 1
        /\ Len(terms) \in Nat /\ Head(txQ) = txQ[1] /\ txQ[1] \in Frames
    BY DEF TypeOK, serviceTxQueue
  <1>2. /\ txQ' = Tail(txQ) /\ pending' = (Len(txQ) > 1) /\ pc = "service" /\ pc' = "tx"
        /\ accepted' = accepted /\ terms' = terms
    BY DEF serviceTxQueue
  <1>3. /\ cur'.id = txQ[1].id /\ cur'.total = txQ[1].total
        /\ cur'.idx = 0 /\ cur'.aired = {}
    BY <1>1 DEF serviceTxQueue, NoFrame
  <1>4. Len(txQ') = Len(txQ) - 1 /\ \A i \in 1..Len(txQ') : txQ'[i] = txQ[i + 1]
    BY <1>1, <1>2
  <1>5. \A i \in 1..Len(txQ) : txQ[i].id = Len(terms) + i /\ txQ[i].total > 0
    BY <1>1, <1>2 DEF TxInv, OneTerminalEach, InFlight
  <1>6. \A i \in 1..Len(txQ') : txQ'[i].id = Len(terms) + 1 + i /\ txQ'[i].total > 0
    BY <1>1, <1>4, <1>5
  <1>7. accepted = Len(terms) + Len(txQ)
    BY <1>2 DEF TxInv, OneTerminalEach, InFlight
  <1>8. OneTerminalEach'
    <2>1. InFlight' = 1
      BY <1>2 DEF InFlight
    <2>2. cur'.id = Len(terms) + 1
      BY <1>1, <1>3, <1>5
    <2>3. accepted' = Len(terms') + 1 + Len(txQ')
      BY <1>1, <1>2, <1>4, <1>7
    <2>4. \A i \in 1..Len(terms') : terms'[i].id = i
      BY <1>2 DEF TxInv, OneTerminalEach
    <2> QED
      BY <1>1, <1>2, <1>6, <2>1, <2>2, <2>3, <2>4 DEF OneTerminalEach
  <1>9. QueueBounded'
    <2>1. Len(txQ') <= QueueCap
      BY <1>1, <1>4, ConstantsAssumption DEF TxInv, QueueBounded
    <2>2. pending' => txQ' # <<>>
      <3> SUFFICES ASSUME pending' PROVE Len(txQ') > 0
        BY <1>1, <1>2
      <3>1. Len(txQ) > 1
        BY <1>2
      <3> QED
        BY <1>1, <1>4, <3>1
    <2> QED
      BY <2>1, <2>2 DEF QueueBounded
  <1>10. BurstProgress'
    <2>1. cur'.total > 0 /\ cur'.total \in Nat
      BY <1>1, <1>3, <1>5 DEF Frames
    <2>2. 0..(cur'.idx - 1) \subseteq cur'.aired
      BY <1>3
    <2> QED
      BY <1>3, <2>1, <2>2 DEF BurstProgress
  <1> QED
    BY <1>2, <1>6, <1>8, <1>9, <1>10 DEF TxInv, OkMeansAired

(* The terminal of the current frame is the next one, and a 'G' comes only *)
(* when the whole burst has left.                                          *)
LEMMA TxSettle ==
  ASSUME TypeOK, TxInv, pc = "tx", UNCHANGED <<txQ, pending, accepted>>,
         NEW r \in {"ok", "dropped"}, NEW aired \in SUBSET Nat, Settle(r, aired),
         r = "ok" => aired = 0..(cur.total - 1)
  PROVE  TxInv'
PROOF
  <1> DEFINE t == Terminal(r, cur, aired)
             m == Len(terms)
  <1>1. /\ terms \in Seq(Terminals) /\ t \in Terminals /\ m \in Nat
        /\ txQ \in Seq(Frames) /\ Len(txQ) \in Nat /\ accepted \in Nat
    BY DEF Terminal, Terminals, TypeOK, Bursts
  <1>2. terms' = Append(terms, t) /\ pc' = "server"
    BY DEF Settle
  <1>3. t.id = cur.id /\ t.res = r /\ t.aired = aired /\ t.total = cur.total
    BY DEF Terminal
  <1>4. /\ cur.id = m + 1 /\ accepted = m + 1 + Len(txQ)
        /\ \A i \in 1..Len(txQ) : txQ[i].id = m + 1 + i
        /\ \A i \in 1..m : terms[i].id = i
    BY DEF TxInv, OneTerminalEach, InFlight
  <1> HIDE DEF t
  <1>5. /\ Len(terms') = m + 1 /\ terms'[m + 1] = t
        /\ \A i \in 1..m : terms'[i] = terms[i]
    <2>1. /\ Len(Append(terms, t)) = m + 1 /\ Append(terms, t)[m + 1] = t
          /\ \A i \in 1..m : Append(terms, t)[i] = terms[i]
      BY <1>1
    <2> QED
      BY <1>2, <2>1
  <1>6. \A i \in 1..(m + 1) : i \in 1..m \/ i = m + 1
    BY <1>1
  <1>7. \A i \in 1..Len(terms') : terms'[i].id = i
    BY <1>3, <1>4, <1>5, <1>6
  <1>8. \A i \in 1..Len(terms') :
          terms'[i].res = "ok" => terms'[i].aired = 0..(terms'[i].total - 1)
    BY <1>3, <1>5, <1>6 DEF TxInv, OkMeansAired
  <1>9. OneTerminalEach'
    <2>1. InFlight' = 0
      BY <1>2 DEF InFlight
    <2> QED
      BY <1>1, <1>2, <1>4, <1>5, <1>7, <2>1 DEF OneTerminalEach
  <1>10. QueueBounded' /\ \A i \in 1..Len(txQ') : txQ'[i].total > 0
    BY DEF TxInv, QueueBounded
  <1>11. BurstProgress'
    BY <1>2 DEF BurstProgress
  <1>12. OkMeansAired'
    BY <1>8 DEF OkMeansAired
  <1> QED
    BY <1>9, <1>10, <1>11, <1>12 DEF TxInv

(* A failed attempt goes on with the same packet or gives the frame up.    *)
LEMMA TxAttemptFails ==
  ASSUME TypeOK, TxInv, pc = "tx", UNCHANGED <<txQ, pending, accepted>>,
         NEW aired, aired \in {cur.aired, cur.aired \cup {cur.idx}}, AttemptFails(aired)
  PROVE  TxInv'
PROOF
  <1>1. cur \in Bursts /\ aired \in SUBSET Nat
    BY DEF TypeOK, Bursts
  <1>2. 0..(cur.idx - 1) \subseteq aired /\ aired \subseteq 0..cur.idx
    BY <1>1 DEF TxInv, BurstProgress, Bursts
  <1>3. CASE cur.attempt + 1 < kAttempts
    <2>1. /\ cur' = [cur EXCEPT !.attempt = @ + 1, !.aired = aired]
          /\ pc' = pc /\ terms' = terms
      BY <1>3 DEF AttemptFails
    <2>2. /\ cur'.id = cur.id /\ cur'.total = cur.total /\ cur'.idx = cur.idx
          /\ cur'.aired = aired
      BY <1>1, <2>1 DEF Bursts
    <2>3. BurstProgress'
      BY <1>2, <2>1, <2>2 DEF TxInv, BurstProgress
    <2>4. OneTerminalEach' /\ QueueBounded' /\ OkMeansAired'
      BY <2>1, <2>2 DEF TxInv, OneTerminalEach, QueueBounded, OkMeansAired, InFlight
    <2> QED
      BY <2>3, <2>4 DEF TxInv
  <1>4. CASE ~(cur.attempt + 1 < kAttempts)
    <2>1. Settle("dropped", aired)
      BY <1>4 DEF AttemptFails
    <2> QED
      BY <1>1, <2>1, TxSettle
  <1> QED
    BY <1>3, <1>4

(* TX_DONE moves on to the next packet, or answers 'G' after the last.     *)
LEMMA TxPacketDone ==
  ASSUME TypeOK, TxInv, txPacketDone
  PROVE  TxInv'
PROOF
  <1> DEFINE aired == cur.aired \cup {cur.idx}
  <1>1. cur \in Bursts /\ aired \in SUBSET Nat /\ pc = "tx"
    BY DEF TypeOK, Bursts, txPacketDone
  <1>2. cur.idx \in Nat /\ cur.total \in Nat /\ cur.idx < cur.total
    BY <1>1 DEF Bursts, TxInv, BurstProgress
  <1>3. aired = 0..cur.idx
    BY <1>1, <1>2 DEF TxInv, BurstProgress, Bursts
  <1>4. UNCHANGED <<txQ, pending, accepted>>
    BY DEF txPacketDone
  <1> HIDE DEF aired
  <1>5. CASE cur.idx + 1 < cur.total
    <2>1. /\ cur' = [cur EXCEPT !.idx = @ + 1, !.attempt = 0, !.aired = aired]
          /\ pc' = pc /\ terms' = terms
      BY <1>5 DEF txPacketDone, aired
    <2>2. /\ cur'.id = cur.id /\ cur'.total = cur.total /\ cur'.idx = cur.idx + 1
          /\ cur'.aired = aired
      BY <1>1, <2>1 DEF Bursts
    <2>3. BurstProgress'
      BY <1>2, <1>3, <1>5, <2>1, <2>2 DEF BurstProgress
    <2>4. OneTerminalEach' /\ QueueBounded' /\ OkMeansAired'
      BY <1>4, <2>1, <2>2 DEF TxInv, OneTerminalEach, QueueBounded, OkMeansAired, InFlight
    <2> QED
      BY <1>4, <2>3, <2>4 DEF TxInv
  <1>6. CASE ~(cur.idx + 1 < cur.total)
    <2>1. Settle("ok", aired)
      BY <1>6 DEF txPacketDone, aired
    <2>2. cur.idx = cur.total - 1
      BY <1>2, <1>6
    <2> QED
      BY <1>1, <1>3, <1>4, <2>1, <2>2, TxSettle
  <1> QED
    BY <1>5, <1>6

(* Every step of the worker keeps the invariant of its TX path.           *)
LEMMA TxStep == TypeOK /\ TxInv /\ [Next]_vars => TxInv'
PROOF
  <1> SUFFICES ASSUME TypeOK, TxInv, [Next]_vars PROVE TxInv'
    OBVIOUS
  <1>1. CASE handleConfig
    BY <1>1, TxFrameAll DEF handleConfig
  <1>2. CASE startScan
    BY <1>2, TxFrame DEF startScan, Command
  <1>3. CASE txBusy
    BY <1>3, TxFrameAll DEF txBusy
  <1>4. CASE enqueueTx
    BY <1>4, TxEnqueue
  <1>5. CASE serverIdle
    BY <1>5, TxFrame DEF serverIdle
  <1>6. CASE thermalHold
    BY <1>6, TxFrame DEF thermalHold, AfterThermal
  <1>7. CASE thermalCutoff
    BY <1>7, TxDrain
  <1>8. CASE thermalThrottle
    BY <1>8, TxFrame DEF thermalThrottle, Tick
  <1>9. CASE thermalRecover
    BY <1>9, TxFrame DEF thermalRecover, Tick
  <1>10. CASE thermalRecoverFails
    BY <1>10, TxFrame DEF thermalRecoverFails, Tick
  <1>11. CASE thermalRestorePower
    BY <1>11, TxFrame DEF thermalRestorePower, Tick
  <1>12. CASE Scan
    BY <1>12, TxFrame DEF Scan, scanIdle, scanAdvance, scanFinish, AfterScan
  <1>13. CASE rxPacket
    BY <1>13, TxFrameAll DEF rxPacket
  <1>14. CASE rxDone
    BY <1>14, TxFrame DEF rxDone
  <1>15. CASE serviceNothing
    BY <1>15, TxFrame DEF serviceNothing
  <1>16. CASE serviceTxQueue
    BY <1>16, TxPop
  <1>17. CASE txStartFails
    BY <1>17, TxAttemptFails DEF txStartFails
  <1>18. CASE txTimeout
    <2>1. PICK aired \in {cur.aired, cur.aired \cup {cur.idx}} : AttemptFails(aired)
      BY <1>18 DEF txTimeout
    <2> QED
      BY <1>18, <2>1, TxAttemptFails DEF txTimeout
  <1>19. CASE txPacketDone
    BY <1>19, TxPacketDone
  <1>20. CASE AirPacket
    BY <1>20, TxFrameAll DEF AirPacket
  <1>21. CASE UNCHANGED vars
    BY <1>21, TxFrameAll DEF vars
  <1> QED
    BY <1>1, <1>2, <1>3, <1>4, <1>5, <1>6, <1>7, <1>8, <1>9, <1>10, <1>11, <1>12, <1>13,
       <1>14, <1>15, <1>16, <1>17, <1>18, <1>19, <1>20, <1>21
    DEF Next, Server, Thermal, Receive, Transmit

(* The whole TX invariant, from which the theorems below are read off.     *)
LEMMA TxInvariant == Spec => [](TypeOK /\ TxInv)
PROOF
  <1>1. Init => TypeOK /\ TxInv
    BY TypeInit, TxInit
  <1>2. (TypeOK /\ TxInv) /\ [Next]_vars => (TypeOK /\ TxInv)'
    BY TypeStep, TxStep
  <1> QED
    BY <1>1, <1>2, PTL DEF Spec

(* Exactly one terminal per accepted frame, in order (enqueueTx,           *)
(* serviceTxQueue and the drain at cutoff), for every queue limit.         *)
THEOREM ExactlyOneTerminal == Spec => []OneTerminalEach
PROOF
  <1>1. TypeOK /\ TxInv => OneTerminalEach
    BY DEF TxInv
  <1> QED
    BY <1>1, TxInvariant, PTL

(* A 'G' terminal means that every packet of the burst has left, for every *)
(* burst length and whatever attempts failed (transmitBurst).              *)
THEOREM GoMeansAired == Spec => []OkMeansAired
PROOF
  <1>1. TypeOK /\ TxInv => OkMeansAired
    BY DEF TxInv
  <1> QED
    BY <1>1, TxInvariant, PTL

(* tx_q_ stays within its limit and pending_tx_valid is never stale-true   *)
(* (enqueueTx, serviceTxQueue, thermalTick, startScan).                    *)
THEOREM QueueIsBounded == Spec => []QueueBounded
PROOF
  <1>1. TypeOK /\ TxInv => QueueBounded
    BY DEF TxInv
  <1> QED
    BY <1>1, TxInvariant, PTL

----------------------------------------------------------------------------
(* The worker implements TxContract.                                       *)

Settled == [i \in 1..Len(terms) |-> terms[i].res]

(* The mapped terminals are a sequence of results as long as terms.        *)
LEMMA SettledSeq ==
  ASSUME TypeOK
  PROVE  Settled \in Seq({"ok", "dropped"}) /\ Len(Settled) = Len(terms)
PROOF
  <1>1. Len(terms) \in Nat /\ \A i \in 1..Len(terms) : terms[i].res \in {"ok", "dropped"}
    <2>1. \A i \in 1..Len(terms) : terms[i] \in Terminals
      BY DEF TypeOK
    <2> QED
      BY <2>1 DEF TypeOK, Terminals
  <1> QED
    BY <1>1 DEF Settled

(* A function that lists the elements of x and then those of y is their    *)
(* concatenation.                                                          *)
LEMMA ListIsConcat ==
  ASSUME NEW R, NEW x \in Seq(R), NEW y \in Seq(R), NEW f,
         f = [i \in 1..(Len(x) + Len(y)) |-> IF i <= Len(x) THEN x[i] ELSE y[i - Len(x)]]
  PROVE  f = x \o y
PROOF
  <1>1. Len(x) + Len(y) \in Nat /\ Len(x) \in Nat /\ Len(y) \in Nat
    OBVIOUS
  <1>2. \A i \in 1..(Len(x) + Len(y)) : (IF i <= Len(x) THEN x[i] ELSE y[i - Len(x)]) \in R
    <2> TAKE i \in 1..(Len(x) + Len(y))
    <2>1. CASE i <= Len(x)
      BY <1>1, <2>1
    <2>2. CASE ~(i <= Len(x))
      <3>1. i - Len(x) \in 1..Len(y)
        BY <1>1, <2>2
      <3> QED
        BY <2>2, <3>1
    <2> QED
      BY <2>1, <2>2
  <1>3. f \in Seq(R) /\ Len(f) = Len(x) + Len(y)
    BY <1>1, <1>2
  <1>4. /\ x \o y \in Seq(R)
        /\ Len(x \o y) = Len(x) + Len(y)
        /\ \A i \in 1..(Len(x) + Len(y)) :
             (x \o y)[i] = IF i <= Len(x) THEN x[i] ELSE y[i - Len(x)]
    BY ConcatProperties
  <1>5. Len(f) = Len(x \o y) /\ \A i \in 1..Len(f) : f[i] = (x \o y)[i]
    BY <1>3, <1>4
  <1> QED
    BY <1>3, <1>4, <1>5, SeqEqual

(* Appending terminals appends their results.                              *)
LEMMA SettledAppend ==
  ASSUME TypeOK, NEW D \in Seq(Terminals), terms' = terms \o D,
         NEW rs \in Seq({"ok", "dropped"}), Len(rs) = Len(D),
         \A i \in 1..Len(D) : rs[i] = D[i].res
  PROVE  Settled' = Settled \o rs
PROOF
  <1> DEFINE m == Len(terms)
             n == Len(D)
  <1>1. terms \in Seq(Terminals) /\ m \in Nat /\ n \in Nat
    BY DEF TypeOK
  <1>2. /\ Len(terms \o D) = m + n
        /\ \A i \in 1..(m + n) : (terms \o D)[i] = IF i <= m THEN terms[i] ELSE D[i - m]
    BY <1>1, ConcatProperties
  <1>3. Settled \in Seq({"ok", "dropped"}) /\ Len(Settled) = m
    BY SettledSeq
  <1>4. \A i \in 1..(m + n) :
          (terms \o D)[i].res = IF i <= m THEN Settled[i] ELSE rs[i - m]
    <2> TAKE i \in 1..(m + n)
    <2>1. CASE i <= m
      <3>1. Settled[i] = terms[i].res
        BY <1>1, <2>1 DEF Settled
      <3> QED
        BY <1>2, <2>1, <3>1
    <2>2. CASE ~(i <= m)
      <3>1. i - m \in 1..n
        BY <1>1, <2>2
      <3> QED
        BY <1>2, <2>2, <3>1
    <2> QED
      BY <2>1, <2>2
  <1>5. Settled' = [i \in 1..(m + n) |-> (terms \o D)[i].res]
    BY <1>2 DEF Settled
  <1>6. Settled' = [i \in 1..(m + n) |-> IF i <= m THEN Settled[i] ELSE rs[i - m]]
    BY <1>4, <1>5
  <1>7. Len(rs) = n
    OBVIOUS
  <1> HIDE DEF m, n
  <1>8. Settled' = [i \in 1..(Len(Settled) + Len(rs)) |->
                      IF i <= Len(Settled) THEN Settled[i] ELSE rs[i - Len(Settled)]]
    BY <1>3, <1>6, <1>7
  <1> QED
    BY <1>3, <1>8, ListIsConcat

(* A step that adds one terminal answers one frame.                        *)
LEMMA SettleAnswers ==
  ASSUME TypeOK, TxInv, pc = "tx", accepted' = accepted,
         NEW r \in {"ok", "dropped"}, NEW aired \in SUBSET Nat, Settle(r, aired)
  PROVE  Contract!Answer
PROOF
  <1> DEFINE t == Terminal(r, cur, aired)
             rs == [i \in 1..1 |-> r]
  <1>1. t \in Terminals /\ t.res = r /\ terms \in Seq(Terminals)
    BY DEF Terminal, Terminals, TypeOK, Bursts
  <1>2. terms' = terms \o <<t>>
    <2>1. terms' = Append(terms, t)
      BY DEF Settle
    <2> HIDE DEF t
    <2> QED
      BY <1>1, <2>1
  <1> HIDE DEF t
  <1>3. rs \in Seq({"ok", "dropped"}) /\ Len(rs) = 1 /\ rs[1] = r
    OBVIOUS
  <1>4. <<t>> \in Seq(Terminals) /\ Len(<<t>>) = 1 /\ <<t>>[1] = t
    BY <1>1
  <1>5. \A i \in 1..Len(<<t>>) : rs[i] = <<t>>[i].res
    BY <1>1, <1>3, <1>4
  <1>6. Settled' = Settled \o rs
    BY <1>2, <1>3, <1>4, <1>5, SettledAppend
  <1>7. accepted - Len(Settled) >= 1 /\ accepted - Len(Settled) \in Nat
    <2>1. accepted = Len(terms) + 1 + Len(txQ) /\ Len(terms) \in Nat /\ Len(txQ) \in Nat
      BY DEF TxInv, OneTerminalEach, InFlight, TypeOK
    <2> QED
      BY <2>1, SettledSeq
  <1>8. rs \in [1..1 -> Contract!Results]
    BY DEF Contract!Results
  <1>9. 1 \in 1..Contract!Outstanding
    BY <1>7 DEF Contract!Outstanding, Settled
  <1> QED
    BY <1>6, <1>8, <1>9 DEF Contract!Answer, Settled

(* The drain answers the whole queue, or changes nothing.                  *)
LEMMA DrainAnswers ==
  ASSUME TypeOK, TxInv, thermalCutoff
  PROVE  Contract!Answer \/ UNCHANGED <<accepted, Settled>>
PROOF
  <1> DEFINE n == Len(txQ)
             D == [i \in 1..n |-> Terminal("dropped", txQ[i], {})]
             rs == [i \in 1..n |-> "dropped"]
  <1>1. /\ n \in Nat /\ terms' = terms \o D /\ accepted' = accepted
        /\ terms \in Seq(Terminals) /\ pc = "thermal"
    BY DEF TypeOK, thermalCutoff, Tick
  <1>2. D \in Seq(Terminals) /\ Len(D) = n /\ \A i \in 1..n : D[i].res = "dropped"
    <2>1. \A i \in 1..n : txQ[i] \in Frames
      BY DEF TypeOK
    <2>2. \A i \in 1..n : /\ Terminal("dropped", txQ[i], {}) \in Terminals
                          /\ Terminal("dropped", txQ[i], {}).res = "dropped"
      BY <2>1 DEF Terminal, Terminals, Frames
    <2> QED
      BY <1>1, <2>2
  <1> HIDE DEF D
  <1>3. rs \in Seq({"ok", "dropped"}) /\ Len(rs) = n /\ \A i \in 1..n : rs[i] = "dropped"
    BY <1>1
  <1>4. CASE n = 0
    <2>1. D = <<>>
      BY <1>2, <1>4
    <2>2. terms' = terms
      BY <1>1, <2>1
    <2> QED
      BY <1>1, <2>2 DEF Settled
  <1>5. CASE n # 0
    <2>1. \A i \in 1..Len(D) : rs[i] = D[i].res
      BY <1>2, <1>3
    <2>2. rs \in [1..n -> Contract!Results]
      BY DEF Contract!Results
    <2>3. Settled' = Settled \o rs
      <3> HIDE DEF rs
      <3> QED
        BY <1>1, <1>2, <1>3, <2>1, SettledAppend
    <2>4. accepted - Len(Settled) = n
      <3>1. accepted = Len(terms) + n /\ Len(terms) \in Nat
        BY <1>1 DEF TxInv, OneTerminalEach, InFlight, TypeOK
      <3>2. Len(Settled) = Len(terms)
        BY SettledSeq
      <3> QED
        BY <1>1, <3>1, <3>2
    <2>5. n \in 1..Contract!Outstanding
      BY <1>1, <1>5, <2>4 DEF Contract!Outstanding, Settled
    <2> HIDE DEF rs
    <2> QED
      BY <1>1, <2>2, <2>3, <2>5 DEF Contract!Answer, Settled
  <1> QED
    BY <1>4, <1>5

(* Every step of the worker is a step of the contract or invisible to it.  *)
LEMMA ContractStep ==
  ASSUME TypeOK, TxInv, [Next]_vars
  PROVE  Contract!Next \/ UNCHANGED <<accepted, Settled>>
PROOF
  <1>1. CASE enqueueTx
    <2>1. pc = "server" /\ accepted' = accepted + 1 /\ terms' = terms /\ Len(txQ) < QueueCap
      BY <1>1, ConstantsAssumption DEF enqueueTx, Command, Refused, TypeOK
    <2>2. accepted - Len(Settled) = Len(txQ)
      <3>1. accepted = Len(terms) + Len(txQ) /\ Len(terms) \in Nat /\ Len(txQ) \in Nat
        BY <2>1 DEF TxInv, OneTerminalEach, InFlight, TypeOK
      <3> QED
        BY <3>1, SettledSeq
    <2>3. Settled' = Settled
      BY <2>1 DEF Settled
    <2>4. Contract!Accept
      BY <2>1, <2>2, <2>3 DEF Contract!Accept, Contract!Outstanding, Settled
    <2> QED
      BY <2>4 DEF Contract!Next
  <1>2. CASE thermalCutoff
    BY <1>2, DrainAnswers DEF Contract!Next
  <1>3. CASE txStartFails \/ txTimeout
    <2>1. PICK aired \in {cur.aired, cur.aired \cup {cur.idx}} : AttemptFails(aired)
      BY <1>3 DEF txStartFails, txTimeout
    <2>2. aired \in SUBSET Nat /\ pc = "tx" /\ accepted' = accepted
      BY <1>3 DEF TypeOK, Bursts, txStartFails, txTimeout
    <2>3. CASE cur.attempt + 1 < kAttempts
      <3>1. terms' = terms
        BY <2>1, <2>3 DEF AttemptFails
      <3> QED
        BY <2>2, <3>1 DEF Settled
    <2>4. CASE ~(cur.attempt + 1 < kAttempts)
      <3>1. Settle("dropped", aired)
        BY <2>1, <2>4 DEF AttemptFails
      <3> QED
        BY <2>2, <3>1, SettleAnswers DEF Contract!Next
    <2> QED
      BY <2>3, <2>4
  <1>4. CASE txPacketDone
    <2>1. cur.aired \cup {cur.idx} \in SUBSET Nat /\ pc = "tx" /\ accepted' = accepted
      BY <1>4 DEF TypeOK, Bursts, txPacketDone
    <2>2. CASE cur.idx + 1 < cur.total
      <3>1. terms' = terms
        BY <1>4, <2>2 DEF txPacketDone
      <3> QED
        BY <2>1, <3>1 DEF Settled
    <2>3. CASE ~(cur.idx + 1 < cur.total)
      <3>1. Settle("ok", cur.aired \cup {cur.idx})
        BY <1>4, <2>3 DEF txPacketDone
      <3> QED
        BY <2>1, <3>1, SettleAnswers DEF Contract!Next
    <2> QED
      BY <2>2, <2>3
  <1>5. CASE UNCHANGED <<accepted, terms>>
    BY <1>5 DEF Settled
  <1> QED
    BY <1>1, <1>2, <1>3, <1>4, <1>5
    DEF Next, Server, Thermal, Scan, Receive, Transmit, handleConfig, startScan, txBusy,
        serverIdle, thermalHold, thermalThrottle, thermalRecover, thermalRecoverFails,
        thermalRestorePower, scanIdle, scanAdvance, scanFinish, rxPacket, rxDone,
        serviceNothing, serviceTxQueue, AirPacket, vars

(* RadioWorker implements TxContract with as many slots as tx_q_ holds:    *)
(* frames are taken only while a slot is free and answered exactly once,   *)
(* in order, whatever thermal, scan and radio events come in between.      *)
THEOREM WorkerImplementsContract == Spec => ImplementsContract
PROOF
  <1>1. Init => Contract!Init
    <2> SUFFICES ASSUME Init PROVE Contract!Init
      OBVIOUS
    <2>1. terms = <<>> /\ accepted = 0
      BY DEF Init
    <2>2. [i \in 1..Len(terms) |-> terms[i].res] = <<>>
      BY <2>1
    <2> QED
      BY <2>1, <2>2 DEF Contract!Init
  <1>2. TypeOK /\ TxInv /\ [Next]_vars
          => [Contract!Next]_<<accepted, [i \in 1..Len(terms) |-> terms[i].res]>>
    BY ContractStep DEF Settled
  <1> QED
    BY <1>1, <1>2, TxInvariant, PTL DEF Spec, ImplementsContract, Contract!Spec
=============================================================================
