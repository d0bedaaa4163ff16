---------------------------- MODULE DeviceStatus ----------------------------
(***************************************************************************)
(* How urgent the maintenance of a device is: Device.rate, Device.severity *)
(* and the texts of Severity.                                              *)
(***************************************************************************)
EXTENDS Integers

CONSTANTS
    MaxOperationTime,   \* bound: hours of operation
    Periods             \* maintenance periods in hours, 0 only from the cloud

ASSUME StatusBounds == MaxOperationTime \in Nat /\ Periods \subseteq Nat

Unknown == -1           \* operationTime is nil

VARIABLES operationTime, period

vars == <<operationTime, period>>

TypeOK ==
    /\ operationTime \in (0 .. MaxOperationTime) \cup {Unknown}
    /\ period \in Periods

-----------------------------------------------------------------------------
(* rate and severity                                                       *)

(* Halves that Double(operationTime) / Double(period) * 100.0 misses: for  *)
(* these n the quotient n/200 times 100 comes out a little below n/2.      *)
MissedHalves == {29, 57, 113, 115}

(* Mutant: the hundredfold is divided without rounding. *)
TruncatedPercent(hours, hoursPerPeriod) == (100 * hours) \div hoursPerPeriod

(* round(Double(hours) / Double(hoursPerPeriod) * 100.0) *)
RoundedPercent(hours, hoursPerPeriod) ==
    IF \E n \in MissedHalves : 200 * hours = n * hoursPerPeriod
    THEN (100 * hours) \div hoursPerPeriod
    ELSE (200 * hours + hoursPerPeriod) \div (2 * hoursPerPeriod)

Rate(hours, hoursPerPeriod) ==
    IF RoundedPercent(hours, hoursPerPeriod) < 100
    THEN RoundedPercent(hours, hoursPerPeriod) ELSE 100

(* Mutant: no case for the last class before the limit. *)
SeverityOfRateWithGap(rate) ==
    IF rate < 80 THEN "ok" ELSE IF rate < 90 THEN "soon" ELSE IF rate < 100 THEN "ok"
    ELSE "urgent"

SeverityOfRate(rate) ==
    IF rate < 80 THEN "ok" ELSE IF rate < 90 THEN "soon" ELSE IF rate < 100 THEN "actual"
    ELSE "urgent"

Severity(hours, hoursPerPeriod) ==
    IF hours = Unknown \/ hoursPerPeriod = 0
    THEN "undefined"
    ELSE SeverityOfRate(Rate(hours, hoursPerPeriod))

severity == Severity(operationTime, period)

-----------------------------------------------------------------------------
(* What changes the two numbers.                                           *)

Init ==
    /\ operationTime \in {0, Unknown}
    /\ period \in Periods

(* The device reports that it has run for another hour. *)
Operate ==
    /\ operationTime < MaxOperationTime
    /\ operationTime' = operationTime + 1
    /\ UNCHANGED period

setOperationTimeToZero ==
    /\ operationTime # Unknown
    /\ operationTime' = 0
    /\ UNCHANGED period

(* Mutant: the number of the picker is added to the old period. *)
setPeriodLonger(newPeriod) ==
    /\ newPeriod # period /\ newPeriod # 0
    /\ period' = period + newPeriod
    /\ UNCHANGED operationTime

setPeriod(newPeriod) ==
    /\ newPeriod # period /\ newPeriod # 0
    /\ period' = newPeriod
    /\ UNCHANGED operationTime

Next ==
    \/ Operate
    \/ setOperationTimeToZero
    \/ \E newPeriod \in Periods : setPeriod(newPeriod)

Spec == Init /\ [][Next]_vars

-----------------------------------------------------------------------------
(* Properties.                                                             *)

Rank(sev) ==
    IF sev = "ok" THEN 0 ELSE IF sev = "soon" THEN 1 ELSE IF sev = "actual" THEN 2 ELSE 3

(* The classes begin exactly half a percent before 80, 90 and 100 percent  *)
(* of the period: no detour through Double and round moves a limit, for    *)
(* any period (Device.swift:22-36).                                        *)
LimitsAreExact ==
    severity # "undefined" =>
        /\ Rank(severity) >= 1 <=> 200 * operationTime >= 159 * period
        /\ Rank(severity) >= 2 <=> 200 * operationTime >= 179 * period
        /\ Rank(severity) >= 3 <=> 200 * operationTime >= 199 * period

(* A device does not become less urgent by running, nor more urgent by     *)
(* being given a longer period (Device.swift:27-36 over rounded rates).    *)
UrgencyIsMonotone ==
    [][severity # "undefined" =>
        /\ operationTime' > operationTime => Rank(severity') >= Rank(severity)
        /\ period' > period => Rank(severity') <= Rank(severity)]_vars
=============================================================================
