---------------------------- MODULE MCDeviceList ----------------------------
(* Small instances of DeviceList for TLC. *)
EXTENDS DeviceList, TLC

CONSTANTS r1, r2, d1, d2

(* The last wheel is turned to 2. *)
LastWheel == {<<4, 2>>}

(* The calls are alike. *)
Alike == Permutations(Requests)
=============================================================================
