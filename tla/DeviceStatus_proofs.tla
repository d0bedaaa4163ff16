------------------------- MODULE DeviceStatus_proofs -------------------------
(***************************************************************************)
(* The limits of the severities hold for every operation time and period,  *)
(* not only for those that TLC can enumerate.                              *)
(***************************************************************************)
EXTENDS DeviceStatus, TLAPS

(* The quotient of a division reaches a number iff the dividend reaches    *)
(* its multiple.                                                           *)
LEMMA QuotientReaches ==
    ASSUME NEW a \in Nat, NEW b \in Nat \ {0}, NEW k \in Nat
    PROVE  /\ a \div b \in Nat
           /\ a \div b >= k <=> a >= k * b
<1> DEFINE q == a \div b
<1>1. q \in Int /\ b * q <= a /\ a < b * (q + 1)
  OBVIOUS
<1>2. q >= 0
  BY <1>1
<1> HIDE DEF q
<1>3. ASSUME q >= k PROVE a >= k * b
  <2>1. b * q >= b * k
    BY <1>1, <1>2, <1>3
  <2> QED
    BY <1>1, <2>1
<1>4. ASSUME a >= k * b PROVE q >= k
  <2> SUFFICES ASSUME q < k PROVE FALSE
    BY <1>1, <1>2
  <2>1. b * (q + 1) <= b * k
    BY <1>1, <1>2
  <2> QED
    BY <1>1, <1>4, <2>1
<1> QED
  BY <1>1, <1>2, <1>3, <1>4 DEF q

(* Rounding reaches a whole percentage of at least 60 iff the exact rate   *)
(* reaches it less a half: the halves that Double misses are all below.    *)
LEMMA RoundedPercentReaches ==
    ASSUME NEW h \in Nat, NEW p \in Nat \ {0}, NEW k \in Nat, k >= 60
    PROVE  /\ RoundedPercent(h, p) \in Nat
           /\ RoundedPercent(h, p) >= k <=> 200 * h + p >= 2 * k * p
<1>1. CASE \E n \in MissedHalves : 200 * h = n * p
  <2>1. PICK n \in MissedHalves : 200 * h = n * p
    BY <1>1
  <2>2. n \in Nat /\ n <= 115
    BY <2>1 DEF MissedHalves
  <2>3. 200 * h <= 115 * p
    BY <2>1, <2>2
  <2>4. 60 * p <= k * p
    OBVIOUS
  <2>5. RoundedPercent(h, p) = (100 * h) \div p
    BY <1>1 DEF RoundedPercent
  <2>6. 100 * h \in Nat
    OBVIOUS
  <2>7. /\ (100 * h) \div p \in Nat
        /\ (100 * h) \div p >= k <=> 100 * h >= k * p
    BY <2>6, QuotientReaches
  <2>8. k * p \in Nat /\ 2 * k * p = 2 * (k * p)
    OBVIOUS
  <2> HIDE DEF MissedHalves
  <2> QED
    BY <2>3, <2>4, <2>5, <2>7, <2>8
<1>2. CASE ~ \E n \in MissedHalves : 200 * h = n * p
  <2>1. RoundedPercent(h, p) = (200 * h + p) \div (2 * p)
    BY <1>2 DEF RoundedPercent
  <2>2. 200 * h + p \in Nat /\ 2 * p \in Nat \ {0} /\ k * (2 * p) = 2 * k * p
    OBVIOUS
  <2> QED
    BY <2>1, <2>2, QuotientReaches
<1> QED
  BY <1>1, <1>2

(* The operation time stays between zero and its bound, or unknown, and    *)
(* the period one of those that can be given: a service sets only a known  *)
(* operation time to zero (Device.swift:52).                               *)
THEOREM DeviceStatusTypeOK == Spec => []TypeOK
<1>1. Init => TypeOK
  BY StatusBounds DEF Init, TypeOK
<1>2. TypeOK /\ [Next]_vars => TypeOK'
  BY StatusBounds
     DEF TypeOK, Next, Operate, setOperationTimeToZero, setPeriod, vars, Unknown
<1> QED
  BY <1>1, <1>2, PTL DEF Spec

(* Every state has a known or unknown operation time and a whole period. *)
NumbersOK == operationTime \in Nat \cup {Unknown} /\ period \in Nat

LEMMA NumbersStayOK == Spec => []NumbersOK
<1>1. TypeOK => NumbersOK
  BY StatusBounds DEF TypeOK, NumbersOK
<1> QED
  BY <1>1, DeviceStatusTypeOK, PTL

(* The limits, for any two numbers. *)
LEMMA SeverityLimits ==
    ASSUME NEW h \in Nat, NEW p \in Nat \ {0}
    PROVE  /\ Rank(Severity(h, p)) \in 0 .. 3
           /\ Severity(h, p) # "undefined"
           /\ Rank(Severity(h, p)) >= 1 <=> 200 * h >= 159 * p
           /\ Rank(Severity(h, p)) >= 2 <=> 200 * h >= 179 * p
           /\ Rank(Severity(h, p)) >= 3 <=> 200 * h >= 199 * p
<1>1. Severity(h, p) = SeverityOfRate(Rate(h, p))
  BY DEF Severity, Unknown
<1>2. /\ RoundedPercent(h, p) \in Nat
      /\ RoundedPercent(h, p) >= 80  <=> 200 * h + p >= 160 * p
      /\ RoundedPercent(h, p) >= 90  <=> 200 * h + p >= 180 * p
      /\ RoundedPercent(h, p) >= 100 <=> 200 * h + p >= 200 * p
  <2>1. \A k \in {80, 90, 100} :
           /\ RoundedPercent(h, p) \in Nat
           /\ RoundedPercent(h, p) >= k <=> 200 * h + p >= 2 * k * p
    BY RoundedPercentReaches
  <2> QED
    BY <2>1
<1>3. /\ Severity(h, p) # "undefined"
      /\ Rank(Severity(h, p)) \in 0 .. 3
      /\ Rank(Severity(h, p)) >= 1 <=> RoundedPercent(h, p) >= 80
      /\ Rank(Severity(h, p)) >= 2 <=> RoundedPercent(h, p) >= 90
      /\ Rank(Severity(h, p)) >= 3 <=> RoundedPercent(h, p) >= 100
  BY <1>1, <1>2 DEF Rate, SeverityOfRate, Rank
<1> QED
  BY <1>2, <1>3

(* The limits of Device.severity are exact for every operation time and    *)
(* every period, however Double rounds.                                    *)
THEOREM LimitsHold == Spec => []LimitsAreExact
<1>1. NumbersOK => LimitsAreExact
  <2> SUFFICES ASSUME NumbersOK, severity # "undefined" PROVE LimitsAreExact
    BY DEF LimitsAreExact
  <2>1. operationTime \in Nat /\ period \in Nat \ {0}
    BY DEF NumbersOK, severity, Severity, Unknown
  <2> QED
    BY <2>1, SeverityLimits DEF LimitsAreExact, severity
<1> QED
  BY <1>1, NumbersStayOK, PTL

(* More hours and a period that is no longer are at least as urgent. *)
LEMMA RankGrows ==
    ASSUME NEW h1 \in Nat, NEW h2 \in Nat, h1 <= h2,
           NEW p1 \in Nat \ {0}, NEW p2 \in Nat \ {0}, p2 <= p1
    PROVE  Rank(Severity(h2, p2)) >= Rank(Severity(h1, p1))
<1> DEFINE r1 == Rank(Severity(h1, p1))
           r2 == Rank(Severity(h2, p2))
<1>1. /\ r1 \in 0 .. 3
      /\ r1 >= 1 <=> 200 * h1 >= 159 * p1
      /\ r1 >= 2 <=> 200 * h1 >= 179 * p1
      /\ r1 >= 3 <=> 200 * h1 >= 199 * p1
  BY SeverityLimits
<1>2. /\ r2 \in 0 .. 3
      /\ r2 >= 1 <=> 200 * h2 >= 159 * p2
      /\ r2 >= 2 <=> 200 * h2 >= 179 * p2
      /\ r2 >= 3 <=> 200 * h2 >= 199 * p2
  BY SeverityLimits
<1> HIDE DEF r1, r2
<1>3. r2 >= r1
  BY <1>1, <1>2
<1> QED
  BY <1>3 DEF r1, r2

(* Running never makes a device less urgent, and a longer period never     *)
(* more urgent.                                                            *)
THEOREM UrgencyGrows == Spec => UrgencyIsMonotone
<1>1. NumbersOK /\ NumbersOK' /\ [Next]_vars
        => [severity # "undefined" =>
              /\ operationTime' > operationTime => Rank(severity') >= Rank(severity)
              /\ period' > period => Rank(severity') <= Rank(severity)]_vars
  <2> SUFFICES ASSUME NumbersOK, NumbersOK', Next, severity # "undefined"
               PROVE  /\ operationTime' > operationTime => Rank(severity') >= Rank(severity)
                      /\ period' > period => Rank(severity') <= Rank(severity)
    BY DEF vars
  <2>1. /\ operationTime \in Nat /\ operationTime # Unknown
        /\ period \in Nat \ {0}
    BY DEF NumbersOK, severity, Severity, Unknown
  <2>2. ASSUME operationTime' > operationTime PROVE Rank(severity') >= Rank(severity)
    <3>1. period' = period /\ operationTime' \in Nat
      BY <2>1, <2>2, StatusBounds
         DEF Next, Operate, setOperationTimeToZero, setPeriod, NumbersOK, Unknown
    <3> QED
      BY <2>1, <2>2, <3>1, RankGrows DEF severity
  <2>3. ASSUME period' > period PROVE Rank(severity') <= Rank(severity)
    <3>1. operationTime' = operationTime /\ period' \in Nat \ {0}
      BY <2>1, <2>3, StatusBounds
         DEF Next, Operate, setOperationTimeToZero, setPeriod, NumbersOK, Unknown
    <3>2. /\ Rank(severity) \in 0 .. 3 /\ Rank(severity') \in 0 .. 3
          /\ Rank(severity) >= Rank(severity')
      BY <2>1, <2>3, <3>1, RankGrows, SeverityLimits DEF severity
    <3> QED
      BY <3>2
  <2> QED
    BY <2>2, <2>3
<1> QED
  BY <1>1, NumbersStayOK, PTL DEF Spec, UrgencyIsMonotone
=============================================================================
