---------------------------- MODULE ThermalLevels ----------------------------
(***************************************************************************)
(* What thermalTick (service/src/radio_worker.cpp) decides from a reading  *)
(* t of the local sensor, in whole degrees: the thermal level, the fan and *)
(* the stage of the CPU clock (0 is the automatic governor).  Each has a   *)
(* hysteresis: the decision depends on the present value.                  *)
(***************************************************************************)
EXTENDS Integers

(* Mutant: a reading above 82 C escalates the level by one.                *)
LocalLevelEscalates(t, l) == IF t >= 82 THEN l + 1 ELSE IF t < 55 THEN 0 ELSE l

LocalLevel(t, l) ==
  IF t >= 82 THEN 2
  ELSE IF l = 2 THEN (IF t < 55 THEN 0 ELSE 2)
  ELSE IF t >= 68 THEN 1
  ELSE IF l = 1 /\ t < 60 THEN 0
  ELSE l

NextFan(t, on) == t >= 45 \/ (on /\ t >= 38)

(* Stage k is entered at Threshold(k) and left 3 degrees below.            *)
Threshold(k) == 44 + 6 * k

Hold(t, k, stage) == t >= Threshold(k) \/ (stage >= k /\ t >= Threshold(k) - 3)

(* Mutant: a stage is left where it is entered.                            *)
NextDvfsNoHold(t, stage) ==
  IF t >= Threshold(5) THEN 5 ELSE IF t >= Threshold(4) THEN 4
  ELSE IF t >= Threshold(3) THEN 3 ELSE IF t >= Threshold(2) THEN 2
  ELSE IF t >= Threshold(1) THEN 1 ELSE 0

NextDvfs(t, stage) ==
  IF Hold(t, 5, stage) THEN 5 ELSE IF Hold(t, 4, stage) THEN 4
  ELSE IF Hold(t, 3, stage) THEN 3 ELSE IF Hold(t, 2, stage) THEN 2
  ELSE IF Hold(t, 1, stage) THEN 1 ELSE 0
=============================================================================
