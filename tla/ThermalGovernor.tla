--------------------------- MODULE ThermalGovernor ---------------------------
(***************************************************************************)
(* The board side of thermalTick (service/src/radio_worker.cpp): thermal   *)
(* level, rail, fan and CPU clock, driven every 4 s either by the state    *)
(* the OS thermal guardian publishes or, when that is absent or stale, by  *)
(* the local sensor.  The guardian and the sensor alternate as the         *)
(* guardian process comes and goes.  What a change of level does to the    *)
(* radio and its queue is the subject of RadioWorker.                      *)
(***************************************************************************)
EXTENDS ThermalLevels

CONSTANTS
  Temps,           \* readings of the local sensor
  GuardianLevels   \* levels the guardian publishes

ASSUME GovernorAssumption == Temps \subseteq Int /\ GuardianLevels \subseteq 0..2

VARIABLES
  level,   \* thermal_level_
  down,    \* thermal_powered_down_
  rail,    \* GPIO44
  fanOn,   \* fan_on_
  fanPin,  \* GPIO42
  stage,   \* cpu_dvfs_stage_, 0 before the first local reading
  turn     \* history: the last change of stage, [dir, temp]

vars == <<level, down, rail, fanOn, fanPin, stage, turn>>

(* Mutant: the cutoff leaves the fan to the sensor.                        *)
SetLevelFanAsIs(l, pin) ==
  /\ level' = l
  /\ IF l = level THEN fanPin' = pin /\ UNCHANGED <<down, rail>>
     ELSE IF l = 2 THEN fanPin' = pin /\ down' = TRUE /\ rail' = FALSE
     ELSE IF l = 0 /\ down THEN fanPin' = FALSE /\ rail' = TRUE /\ down' \in BOOLEAN
     ELSE fanPin' = pin /\ UNCHANGED <<down, rail>>

(* The change to level l; pin is where the fan stands.  A cutoff turns the *)
(* rail off and the fan on; init, at the recovery from one, turns the rail *)
(* on and the fan off, whether or not it then finds the chip.              *)
SetLevel(l, pin) ==
  /\ level' = l
  /\ IF l = level THEN fanPin' = pin /\ UNCHANGED <<down, rail>>
     ELSE IF l = 2 THEN fanPin' = TRUE /\ down' = TRUE /\ rail' = FALSE
     ELSE IF l = 0 /\ down THEN fanPin' = FALSE /\ rail' = TRUE /\ down' \in BOOLEAN
     ELSE fanPin' = pin /\ UNCHANGED <<down, rail>>

(* A fresh state of the guardian: fan and clock are its business.          *)
guardianTick ==
  /\ \E l \in GuardianLevels : SetLevel(l, fanPin)
  /\ UNCHANGED <<fanOn, stage, turn>>

Dir == IF stage' > stage THEN "up" ELSE "down"

(* No guardian: the local sensor decides.                                  *)
localTick ==
  /\ \E t \in Temps :
       /\ fanOn' = NextFan(t, fanOn)
       /\ SetLevel(LocalLevel(t, level), IF fanOn' # fanOn THEN fanOn' ELSE fanPin)
       /\ stage' = NextDvfs(t, stage)
       /\ turn' = IF stage' # stage THEN [dir |-> Dir, temp |-> t] ELSE turn

(* After init: rail on, fan pin low.                                       *)
Init ==
  /\ level = 0 /\ down = FALSE /\ rail = TRUE
  /\ fanOn = FALSE /\ fanPin = FALSE /\ stage = 0
  /\ turn = [dir |-> "down", temp |-> -100]

Next == guardianTick \/ localTick

Spec == Init /\ [][Next]_vars

----------------------------------------------------------------------------
(* Properties.                                                             *)

(* The types of the variables.                                             *)
TypeOK ==
  /\ level \in 0..2 /\ down \in BOOLEAN /\ rail \in BOOLEAN
  /\ fanOn \in BOOLEAN /\ fanPin \in BOOLEAN /\ stage \in 0..5
  /\ turn \in [dir : {"up", "down"}, temp : Int]

(* During a cutoff the fan runs and the rail is off, also when guardian    *)
(* and sensor take turns (thermalTick).                                    *)
CutoffCools == level = 2 => fanPin /\ ~rail /\ down

(* Two changes of the CPU clock in opposite directions are more than 3     *)
(* degrees apart: a reading that trembles within 3 degrees around any      *)
(* threshold does not make the clock flap (thermalTick's DVFS ladder).     *)
NoFlap ==
  [][stage' # stage /\ turn.dir # turn'.dir
       => IF turn.dir = "up" THEN turn.temp > turn'.temp + 3 ELSE turn'.temp > turn.temp + 3]_vars

(* What the turn remembers about the present stage: after a rise the       *)
(* reading reached the stage's threshold, after a fall it was 3 degrees    *)
(* below the next one.                                                     *)
TurnInv ==
  /\ turn.dir = "up" => stage > 0 /\ turn.temp >= Threshold(stage)
  /\ turn.dir = "down" => stage < 5 /\ turn.temp < Threshold(stage + 1) - 3
=============================================================================
