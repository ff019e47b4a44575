-------------------------------- MODULE DdrPhy --------------------------------
(* The DDR3 interface as the calibration sequencer of the HPS sees it         *)
(* (hps_isw_handoff/platform_hps_0/sequencer.c): the delay chains it writes,  *)
(* the tests it runs through them, and the globals its procedures share.  One *)
(* group of one rank, as in sequencer_defines.h.                              *)
(*                                                                            *)
(* The board (external) is what calibration has to discover: when the strobe  *)
(* gate must open and for how long (gate, gateLength), for every data bit the *)
(* differences between the delays of the bit and of the strobe with which it  *)
(* is captured on either side (read, write), the same for the mask, the       *)
(* output delays of the strobe with which patterns reach the memory before    *)
(* calibration (pattern), the latency of its answers and the one declared for *)
(* it (MEM_T_RL_ADD).                                                         *)
EXTENDS Integers, FiniteSets

CONSTANTS
  DQ,             \* the data bits of the group, 0 .. n-1
  DelayMax,       \* last tap of the DQ, DQS and DM chains (31)
  DqsInReserve,   \* taps left in the DQS input chain at reset (4)
  DqsOutReserve,  \* the same for the DQS output chain (4)
  PhaseMax,       \* last phase of the DQS enable (7)
  EnDelayMax,     \* last tap of the DQS enable chain (31)
  OpaTap, EnTap,  \* picoseconds of one phase (416) and one enable tap (25)
  VfifoSize,      \* depth of the read valid FIFO (16)
  Boards          \* the boards to calibrate

ASSUME DelaysAssumption ==
  /\ DelayMax \in Nat /\ EnDelayMax \in Nat /\ VfifoSize \in Nat \ {0}
  /\ DqsInReserve \in 0 .. DelayMax /\ DqsOutReserve \in 0 .. DelayMax
  /\ PhaseMax \in Nat \ {0, 1} /\ EnTap \in Nat \ {0} /\ OpaTap \in Nat \ {0}
  /\ Cardinality(DQ) \in Nat \ {0, 1} /\ DQ = 0 .. Cardinality(DQ) - 1

VARIABLES
  board,   \* the board, chosen once
  phy,     \* the settings in force after the last SCC_MGR_UPD
  gbl,     \* gbl_t: the first error, the figures of merit, curr_read_lat
  step,    \* where the sequencer is
  result   \* what the last procedure returned

Period == (PhaseMax + 1) * OpaTap    \* one memory clock, one place of the FIFO
Cycle  == VfifoSize * Period

(* After reset the enable is at phase and tap zero, DQS at its reserves and   *)
(* every other chain at zero: scc_mgr_zero_all and scc_mgr_zero_group.        *)
Chains(v) == [ vfifo |-> v, enPhase |-> 0, enDelay |-> 0,
               dqsIn |-> DqsInReserve, dqIn |-> [i \in DQ |-> 0],
               dqsOut |-> DqsOutReserve, dqOut |-> [i \in DQ |-> 0], dmOut |-> 0,
               readLat |-> 0, loaded |-> FALSE, mem |-> "reset" ]

(* The memory itself: rw_mgr_mem_initialize leaves it with the mode registers *)
(* of calibration and its banks closed, mem_precharge_and_activate with the   *)
(* rows open that the tests read and write, and rw_mgr_mem_handoff with its   *)
(* banks closed and the mode registers of the user.                           *)
Initialized(s) == [s EXCEPT !.mem = "closed"]
RowsOpened(s)  == [s EXCEPT !.mem = IF @ = "closed" THEN "open" ELSE @]
HandedOver(s)  == [s EXCEPT !.mem = IF @ = "reset" THEN @ ELSE "user"]

(* scc_mgr_zero_group with out_only = 1.                                      *)
ZeroOut(s) == [s EXCEPT !.dqsOut = DqsOutReserve, !.dqOut = [i \in DQ |-> 0], !.dmOut = 0]

(* rw_mgr_incr_vfifo, and rw_mgr_decr_vfifo, which has no other way back than *)
(* VFIFO_SIZE - 1 increments.                                                 *)
Push(s) == [s EXCEPT !.vfifo = (@ + 1) % VfifoSize]
Pull(s) == [s EXCEPT !.vfifo = (@ + VfifoSize - 1) % VfifoSize]

(* When the gate opens, and whether that is when the strobe arrives.          *)
GateTime(s) == s.vfifo * Period + s.enPhase * OpaTap + s.enDelay * EnTap
GateOpen(s) == (GateTime(s) - board.gate) % Cycle < board.gateLength

(* The bits that read back right: rows open, the gate open, no answer awaited *)
(* too short and the bit in its window; the bits written right; and the mask. *)
Aligned(s)  == { i \in DQ : /\ s.readLat >= board.latency
                            /\ s.dqIn[i] - s.dqsIn \in board.read[i] }
Captured(s) == IF GateOpen(s) /\ s.mem = "open" THEN Aligned(s) ELSE {}
Stored(s)   == { i \in DQ : s.dqOut[i] - s.dqsOut \in board.write[i] }
Masked(s)   == s.dmOut - s.dqsOut \in board.mask

(* rw_mgr_mem_calibrate_read_load_patterns: whether the patterns are in the   *)
(* memory afterwards, which takes open rows and an output side that reaches   *)
(* it.                                                                        *)
LoadPatterns(s, reaches) == [s EXCEPT !.loaded = reaches /\ s.mem = "open"]

(* bit_chk of rw_mgr_mem_calibrate_read_test and _write_test.                 *)
ReadBits(s)  == IF s.loaded THEN Captured(s) ELSE {}
WriteBits(s) == Captured(s) \cap Stored(s)

(* Signed division of C, which truncates towards zero.                        *)
Half(n) == IF n >= 0 THEN n \div 2 ELSE - ((- n) \div 2)

(* set_failing_group_stage: only the first failure is recorded.               *)
SetFailing(g, grp, stage, substage) ==
  IF g.stage = "NIL" THEN [g EXCEPT !.stage = stage, !.substage = substage, !.group = grp]
  ELSE g

SmallestOf(S) == CHOOSE x \in S : \A y \in S : x <= y
LargestOf(S)  == CHOOSE x \in S : \A y \in S : x >= y
===============================================================================
