---------------------------- MODULE MCValuation ----------------------------
(***************************************************************************)
(* A file of up to three rows: the parts of a complete version, one that   *)
(* leaves a gap and one that overlaps, a version that takes effect later,  *)
(* and a row of the old version with the later date.                       *)
(***************************************************************************)
EXTENDS Valuation

Row(version, date, min, max, out) ==
  [version |-> version, date |-> date, min |-> min, max |-> max, out |-> out]

MCRows ==
  {Row("v1", 1, 0, 1, 2), Row("v1", 1, 1, None, 1), Row("v1", 1, 2, None, 1),
   Row("v1", 1, 0, None, 2), Row("v1", 2, 1, None, 0), Row("v2", 2, 0, None, 1),
   Row("v2", 2, 0, 2, 0)}
=============================================================================
