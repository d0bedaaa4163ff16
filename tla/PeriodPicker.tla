---------------------------- MODULE PeriodPicker ----------------------------
(***************************************************************************)
(* The picker of DetailsViewController: four wheels for the decimal digits *)
(* of a maintenance period.                                                *)
(***************************************************************************)
EXTENDS Naturals

(* The components of setPeriodPickerView, the first one on the left. *)
Wheels == 1 .. 4
Digits == 0 .. 9

(* The periods that the picker can show *)
Shown == 0 .. 9999

Weight == <<1000, 100, 10, 1>>

(* Mutant: the wheels are filled from the left. *)
DigitsFromLeft(period) ==
    [i \in Wheels |-> IF period < 10 THEN IF i = 1 THEN period ELSE 0
                      ELSE (period \div Weight[i]) % 10]

(* Int.digits, taken from the back: missing digits are 0, and those that   *)
(* are left over are not shown.                                            *)
DigitsShown(period) == [i \in Wheels |-> (period \div Weight[i]) % 10]

(* getPickerViewSelectedRowsAsInteger *)
SelectedInteger(rows) == 1000 * rows[1] + 100 * rows[2] + 10 * rows[3] + rows[4]
=============================================================================
