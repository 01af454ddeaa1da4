----------------------------- MODULE MCSyncLink -----------------------------
(* Parameters of the runs of SyncLink: delays in milliseconds. *)
EXTENDS SyncLink

SteadyDelays == {8, 30}   \* each within ten times the other's estimate
FarDelays    == {0, 5}    \* from no delay to one that an estimate of 0 never reaches
=============================================================================
