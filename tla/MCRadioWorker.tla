--------------------------- MODULE MCRadioWorker ---------------------------
(* Instances of RadioWorker for TLC: the sweeps a configuration may ask    *)
(* for, which a .cfg cannot write itself.                                  *)
EXTENDS RadioWorker

NoPlans == {}
OneChannel == {[start |-> 902, step |-> 1, count |-> 1]}
TwoChannels == {[start |-> 902, step |-> 1, count |-> 2]}
(* A grid, the Q form (step 0, the same channel twice) and start 0.        *)
AllPlans == {[start |-> 902, step |-> 1, count |-> 2],
             [start |-> 905, step |-> 0, count |-> 2],
             [start |-> 0, step |-> 1, count |-> 1]}
=============================================================================
