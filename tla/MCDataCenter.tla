---------------------------- MODULE MCDataCenter ----------------------------
(* Small instances of DataCenter for TLC. *)
EXTENDS DataCenter, TLC

CONSTANTS c1, c2, r1, r2, r3, a

(* Two copies of the app; the first makes two calls, the second one. *)
MCCaller == (r1 :> c1) @@ (r2 :> c1) @@ (r3 :> c2)

(* Two copies of the app, one call each. *)
MCOneCallEach == (r1 :> c1) @@ (r2 :> c2)

(* Kinds of operations: all of them, and all but setDevicePeriod. *)
AllKinds == AppendingKinds \cup TransactionKinds
LogKinds == {"serviceDevice", "addNoteToDevice"} \cup TransactionKinds
=============================================================================
