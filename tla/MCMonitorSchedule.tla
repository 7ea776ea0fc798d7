------------------------- MODULE MCMonitorSchedule -------------------------
(* Model-checking instance of MonitorSchedule: two monitors, of which the  *)
(* first has a webhook, and two contents the evidence may hash to. *)
EXTENDS MonitorSchedule, TLC

CONSTANTS m1, m2, h1, h2
=============================================================================
