-------------------------- MODULE MCMaintenanceGate --------------------------
EXTENDS MaintenanceGate

CONSTANTS t1, t2, t3, w1, w2, e1, e2

ThreeTasks == {t1, t2, t3}
TwoWatchers == {w1, w2}
TwoEvents == {e1, e2}
=============================================================================
