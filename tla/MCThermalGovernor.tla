------------------------- MODULE MCThermalGovernor -------------------------
(* ThermalGovernor for TLC: every whole degree around all thresholds.      *)
EXTENDS ThermalGovernor

AllTemps == 30..90
AllLevels == 0..2
=============================================================================
