--------------------------- MODULE MCDeviceStatus ---------------------------
(* Instances of DeviceStatus for TLC: every period up to 60 hours, and some *)
(* for which rates of half a percent occur.                                 *)
EXTENDS DeviceStatus

ManyPeriods == (0 .. 60) \cup {80, 100, 120, 150, 160, 199, 200}
=============================================================================
