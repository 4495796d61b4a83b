-------------------------- MODULE MCSensorExposure --------------------------
EXTENDS SensorExposure
MCModes == {[time |-> 2, gain |-> 2, dcg |-> -1, algo |-> "table"],
            [time |-> 2, gain |-> 2, dcg |-> 1, algo |-> "table"],
            [time |-> 2, gain |-> 1, dcg |-> 1, algo |-> "table"],
            [time |-> 2, gain |-> 1, dcg |-> 2, algo |-> "single"],
            [time |-> 2, gain |-> 2, dcg |-> 1, algo |-> "single"],
            [time |-> 1, gain |-> 1, dcg |-> 1, algo |-> "single"]}
=============================================================================
