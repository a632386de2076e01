----------------------- MODULE ThermalGovernorProofs -----------------------
(***************************************************************************)
(* Proofs about ThermalGovernor, for every set of readings and of guardian *)
(* levels.  CutoffCools is inductive with the types; NoFlap follows from   *)
(* TurnInv, which ties the present stage to the reading it was entered at. *)
(***************************************************************************)
EXTENDS ThermalGovernor, TLAPS

GovernorInv == TypeOK /\ CutoffCools /\ TurnInv

(* The initial state, after init.                                          *)
LEMMA GovernorInit == Init => GovernorInv
<1>1. Init => TypeOK
  <2>1. [dir |-> "down", temp |-> -100] \in [dir : {"up", "down"}, temp : Int]
    OBVIOUS
  <2>2. 0 \in 0..2 /\ 0 \in 0..5
    OBVIOUS
  <2> QED
    BY <2>1, <2>2, Zenon DEF Init, TypeOK
<1>2. Init => CutoffCools
  BY DEF Init, CutoffCools
<1>3. Init => TurnInv
  <2>1. Init => turn.dir = "down" /\ turn.temp = -100 /\ stage = 0
    BY DEF Init
  <2>2. -100 < Threshold(0 + 1) - 3
    BY DEF Threshold
  <2> QED
    BY <2>1, <2>2 DEF TurnInv
<1>4. QED
  BY <1>1, <1>2, <1>3 DEF GovernorInv

(* The decisions keep their ranges; the clock rises to a stage whose       *)
(* threshold the reading has reached, and falls to one whose successor it  *)
(* is 3 degrees below.                                                     *)
LEMMA Decisions ==
  ASSUME NEW t \in Int, NEW l \in 0..2, NEW s \in 0..5
  PROVE  /\ LocalLevel(t, l) \in 0..2
         /\ LocalLevel(t, l) = 2 => t >= 55
         /\ NextDvfs(t, s) \in 0..5
         /\ NextDvfs(t, s) > s => t >= Threshold(NextDvfs(t, s))
         /\ NextDvfs(t, s) < s => t < Threshold(NextDvfs(t, s) + 1) - 3
<1>1. LocalLevel(t, l) \in 0..2 /\ (LocalLevel(t, l) = 2 => t >= 55)
  BY DEF LocalLevel
<1>2. NextDvfs(t, s) \in 0..5
  BY DEF NextDvfs
<1>3. NextDvfs(t, s) > s => t >= Threshold(NextDvfs(t, s))
  BY DEF NextDvfs, Hold, Threshold
<1>4. NextDvfs(t, s) < s => t < Threshold(NextDvfs(t, s) + 1) - 3
  BY DEF NextDvfs, Hold, Threshold
<1>5. QED
  BY <1>1, <1>2, <1>3, <1>4

(* The reading that enters stage k and the one that leaves for a stage     *)
(* below it, or that came from there, are more than 3 degrees apart.       *)
LEMMA ThresholdGap ==
  ASSUME NEW j \in 0..5, NEW k \in 0..5, j < k, NEW hi \in Int, NEW lo \in Int,
         hi >= Threshold(k), lo < Threshold(j + 1) - 3
  PROVE  hi > lo + 3
  BY DEF Threshold

(* A hot reading turns the fan on.                                         *)
LEMMA FanDecision ==
  ASSUME NEW t \in Int, NEW on \in BOOLEAN
  PROVE  NextFan(t, on) \in BOOLEAN /\ (t >= 55 => NextFan(t, on))
<1>1. NextFan(t, on) \in BOOLEAN
  BY Zenon DEF NextFan
<1>2. t >= 55 => NextFan(t, on)
  BY DEF NextFan
<1>3. QED
  BY <1>1, <1>2

(* A change of level keeps the cutoff cool, provided the fan, wherever the *)
(* level stays at 2, stands high.                                          *)
LEMMA LevelStep ==
  ASSUME TypeOK, CutoffCools, NEW l \in 0..2, NEW pin \in BOOLEAN, SetLevel(l, pin),
         l = 2 /\ level = 2 => pin
  PROVE  /\ level' \in 0..2 /\ down' \in BOOLEAN /\ rail' \in BOOLEAN /\ fanPin' \in BOOLEAN
         /\ CutoffCools'
<1>1. CASE l = level
  BY <1>1 DEF SetLevel, TypeOK, CutoffCools
<1>2. CASE l # level
  BY <1>2 DEF SetLevel, TypeOK, CutoffCools
<1>3. QED
  BY <1>1, <1>2

(* Every tick, of the guardian or of the sensor, keeps the invariant, and  *)
(* a change of stage keeps its distance.                                   *)
LEMMA GovernorStep ==
  GovernorInv /\ [Next]_vars =>
    /\ GovernorInv'
    /\ stage' # stage /\ turn.dir # turn'.dir
         => IF turn.dir = "up" THEN turn.temp > turn'.temp + 3 ELSE turn'.temp > turn.temp + 3
<1> SUFFICES ASSUME GovernorInv, [Next]_vars
             PROVE  /\ GovernorInv'
                    /\ stage' # stage /\ turn.dir # turn'.dir
                         => IF turn.dir = "up" THEN turn.temp > turn'.temp + 3
                                       ELSE turn'.temp > turn.temp + 3
  OBVIOUS
<1>t. TypeOK /\ CutoffCools /\ TurnInv
  BY DEF GovernorInv
<1>1. CASE guardianTick
  <2>1. PICK l \in 0..2 : SetLevel(l, fanPin)
    BY <1>1, GovernorAssumption DEF guardianTick
  <2>2. /\ level' \in 0..2 /\ down' \in BOOLEAN /\ rail' \in BOOLEAN /\ fanPin' \in BOOLEAN
        /\ CutoffCools'
    BY <2>1, <1>t, LevelStep DEF TypeOK, CutoffCools
  <2>3. TypeOK'
    BY <1>1, <1>t, <2>2 DEF guardianTick, TypeOK
  <2>4. TurnInv' /\ stage' = stage
    BY <1>1, <1>t DEF guardianTick, TurnInv
  <2> QED
    BY <2>2, <2>3, <2>4 DEF GovernorInv
<1>2. CASE localTick
  <2>1. PICK t \in Int :
          /\ fanOn' = NextFan(t, fanOn)
          /\ SetLevel(LocalLevel(t, level), IF fanOn' # fanOn THEN fanOn' ELSE fanPin)
          /\ stage' = NextDvfs(t, stage)
          /\ turn' = IF stage' # stage THEN [dir |-> Dir, temp |-> t] ELSE turn
    BY <1>2, GovernorAssumption DEF localTick
  <2>2. level \in 0..2 /\ stage \in 0..5
    BY <1>t DEF TypeOK
  <2>3. /\ LocalLevel(t, level) \in 0..2
        /\ LocalLevel(t, level) = 2 => t >= 55
        /\ stage' \in 0..5
        /\ stage' > stage => t >= Threshold(stage')
        /\ stage' < stage => t < Threshold(stage' + 1) - 3
    BY <2>1, <2>2, Decisions
  <2>4. fanOn' \in BOOLEAN /\ (t >= 55 => fanOn')
    <3>1. fanOn \in BOOLEAN
      BY <1>t DEF TypeOK
    <3>2. NextFan(t, fanOn) \in BOOLEAN /\ (t >= 55 => NextFan(t, fanOn))
      BY <3>1, FanDecision
    <3> QED
      BY <2>1, <3>2, Zenon
  <2> DEFINE pin == IF fanOn' # fanOn THEN fanOn' ELSE fanPin
  <2>5. pin \in BOOLEAN
    BY <2>4, <1>t DEF TypeOK
  <2>6. LocalLevel(t, level) = 2 /\ level = 2 => pin
    BY <2>3, <2>4, <1>t DEF TypeOK, CutoffCools
  <2>7. /\ level' \in 0..2 /\ down' \in BOOLEAN /\ rail' \in BOOLEAN /\ fanPin' \in BOOLEAN
        /\ CutoffCools'
    <3> HIDE DEF pin
    <3>1. SetLevel(LocalLevel(t, level), pin)
      BY <2>1 DEF pin
    <3> QED
      BY <3>1, <1>t, <2>3, <2>5, <2>6, LevelStep
  <2>8. CASE stage' = stage
    <3>1. turn' = turn
      BY <2>1, <2>8
    <3>2. TurnInv'
      BY <3>1, <2>8, <1>t DEF TurnInv
    <3>3. TypeOK'
      BY <2>1, <2>3, <2>4, <2>7, <3>1, <1>t DEF TypeOK
    <3> QED
      BY <3>2, <3>3, <2>7, <2>8 DEF GovernorInv
  <2>9. CASE stage' # stage
    <3>1. turn' = [dir |-> Dir, temp |-> t]
      BY <2>1, <2>9
    <3>2. turn'.dir = Dir /\ turn'.temp = t /\ turn' \in [dir : {"up", "down"}, temp : Int]
      BY <3>1 DEF Dir
    <3>3. TypeOK'
      BY <2>1, <2>3, <2>4, <2>7, <3>2, <1>t DEF TypeOK
    <3>4. TurnInv'
      BY <3>2, <2>2, <2>3, <2>9 DEF TurnInv, Dir
    <3>5. ASSUME turn.dir # turn'.dir
          PROVE  IF turn.dir = "up" THEN turn.temp > turn'.temp + 3 ELSE turn'.temp > turn.temp + 3
      <4>1. turn.temp \in Int /\ turn'.temp = t /\ turn.dir \in {"up", "down"}
        BY <3>2, <1>t DEF TypeOK
      <4>2. CASE turn.dir = "up"
        <5>1. stage' < stage /\ turn.temp >= Threshold(stage)
          BY <4>2, <3>5, <2>2, <2>3, <2>9, <3>2, <1>t DEF TurnInv, Dir
        <5>2. turn.temp > turn'.temp + 3
          BY <5>1, <4>1, <2>2, <2>3, ThresholdGap
        <5> QED
          BY <4>2, <5>2
      <4>3. CASE turn.dir = "down"
        <5>1. stage' > stage /\ turn.temp < Threshold(stage + 1) - 3
          BY <4>3, <3>5, <2>2, <2>3, <2>9, <3>2, <1>t DEF TurnInv, Dir
        <5>2. turn'.temp > turn.temp + 3
          BY <5>1, <4>1, <2>2, <2>3, ThresholdGap
        <5> QED
          BY <4>3, <5>2
      <4> QED
        BY <4>1, <4>2, <4>3
    <3> QED
      BY <3>3, <3>4, <3>5, <2>7 DEF GovernorInv
  <2> QED
    BY <2>8, <2>9
<1>3. CASE UNCHANGED vars
  BY <1>3, <1>t DEF vars, GovernorInv, TypeOK, CutoffCools, TurnInv
<1> QED
  BY <1>1, <1>2, <1>3 DEF Next

(* Level, stage and pins stay in their ranges (thermalTick), whatever the  *)
(* sensor reads.                                                           *)
THEOREM GovernorTypes == Spec => []TypeOK
<1>1. GovernorInv => TypeOK
  BY DEF GovernorInv
<1> QED
  BY <1>1, GovernorInit, GovernorStep, PTL DEF Spec

(* Fan and rail are as a cutoff needs them whenever the level is 2,        *)
(* whatever guardian and sensor report in whatever order (thermalTick).    *)
THEOREM CutoffIsCooled == Spec => []CutoffCools
<1>1. GovernorInv => CutoffCools
  BY DEF GovernorInv
<1> QED
  BY <1>1, GovernorInit, GovernorStep, PTL DEF Spec

(* The CPU clock does not flap (thermalTick's DVFS ladder), for every      *)
(* sequence of readings.                                                   *)
THEOREM ClockDoesNotFlap == Spec => NoFlap
<1>1. Spec => []GovernorInv
  BY GovernorInit, GovernorStep, PTL DEF Spec
<1>2. GovernorInv /\ [Next]_vars =>
        [stage' # stage /\ turn.dir # turn'.dir
           => IF turn.dir = "up" THEN turn.temp > turn'.temp + 3 ELSE turn'.temp > turn.temp + 3]_vars
  BY GovernorStep
<1> QED
  BY <1>1, <1>2, PTL DEF Spec, NoFlap
=============================================================================
