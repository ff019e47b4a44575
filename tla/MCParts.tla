------------------------------- MODULE MCParts -------------------------------
(***************************************************************************)
(* The sequential parts that share no state with any other, checked in one *)
(* run: a call of mod_exp (ModExp), a call of apply_filter (ApplyFilter),  *)
(* the descriptor table (FileTable) and the system clock (SystemClock).    *)
(* Each behaviour runs the one that part names, from any of its own        *)
(* initial states; the three others rest where they do nothing.            *)
(***************************************************************************)
EXTENDS ModExp, ApplyFilter, FileTable, SystemClock

VARIABLE part   \* chosen once

MCCoefficients == {-2, 0, 3}

partsVars == << part, modExpVars, callVars, tableVars, vars >>

(* A call that returned before, no pixel to filter, and the table and the  *)
(* clock as the program finds them.                                        *)
ModExpRests ==
  /\ args = [base |-> 0, exponent |-> 0, modulus |-> 0]
  /\ base = 0 /\ exponent = 0 /\ result = 1 /\ pc = "done"

FilterRests ==
  /\ image_w = 1 /\ image_h = 1 /\ start_idx = 0 /\ num_pixels = 0
  /\ i = 0 /\ out_buf = [p \in PixelIndices(1, 1) |-> Untouched]

PartsInit ==
  /\ TableInit /\ Init
  /\ \/ part = "mod_exp"      /\ ModExpInit  /\ FilterRests
     \/ part = "apply_filter" /\ ModExpRests /\ CallInit
     \/ part = "file_table"   /\ ModExpRests /\ FilterRests
     \/ part = "system_clock" /\ ModExpRests /\ FilterRests

ModExpStep ==
  part = "mod_exp" /\ ModExpNext /\ UNCHANGED << part, callVars, tableVars, vars >>

FilterStep ==
  part = "apply_filter" /\ CallNext /\ UNCHANGED << part, modExpVars, tableVars, vars >>

TableStep ==
  part = "file_table" /\ TableNext /\ UNCHANGED << part, modExpVars, callVars, vars >>

ClockStep ==
  part = "system_clock" /\ Next /\ UNCHANGED << part, modExpVars, callVars, tableVars >>

(* The two calls end; the table and the clock always have a next step.     *)
Returned ==
  /\ \/ part = "mod_exp" /\ pc = "done"
     \/ part = "apply_filter" /\ i = start_idx + num_pixels
  /\ UNCHANGED partsVars

PartsNext == ModExpStep \/ FilterStep \/ TableStep \/ ClockStep \/ Returned

(* The fairness of the parts: the processor runs, and alt_tick runs to its *)
(* end once it has been entered.                                           *)
VisitStep(a) ==
  part = "system_clock" /\ Visit(a) /\ UNCHANGED << part, modExpVars, callVars, tableVars >>

PartsFairness ==
  /\ WF_partsVars(ModExpStep)
  /\ \A a \in Alarms : WF_partsVars(VisitStep(a))

PartsSpec == PartsInit /\ [][PartsNext]_partsVars /\ PartsFairness
==============================================================================
