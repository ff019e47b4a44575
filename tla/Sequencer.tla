------------------------------- MODULE Sequencer -------------------------------
(* The SDRAM calibration of the HPS, sequencer.c: sdram_calibration and the   *)
(* procedures it goes through before the memory exists for anyone else.  It   *)
(* composes the search of the read gate (DqsEnable), the deskew of the read   *)
(* side (ReadDeskew) and of the write side (WriteDeskew), which are called    *)
(* here and return to a step of this module.                                  *)
EXTENDS DqsEnable, WriteDeskew

CONSTANTS
  LatencyMargin,   \* added to the declared latency to start with (16)
  LatencyMax,      \* greatest latency the register of the PHY holds (31)
  OutDelayMax      \* IO_IO_OUT2_DELAY_MAX (0): this PHY has no second chain

ASSUME LatencyAssumption ==
  /\ LatencyMax \in Nat \ {0, 1} /\ LatencyMargin \in Nat \ {0}
  /\ \A b \in Boards : b.declared \in Nat /\ b.latency \in Nat

(* The output delays that are tried fit in the chains (16 of 31).             *)
ASSUME OutDelayAssumption ==
  OutDelayMax \in 0 .. DelayMax /\ DtapsPerPtap <= DelayMax + OutDelayMax

(* The windows are finite: only the delays of the chains can be in them.      *)
ASSUME WindowsAssumption ==
  \A b \in Boards : \A i \in DQ :
    /\ b.read[i] \subseteq Int /\ IsFiniteSet(b.read[i])
    /\ b.write[i] \subseteq Int /\ IsFiniteSet(b.write[i])

(* A phase is worth two taps of the enable or more, a clock four phases or    *)
(* more, and the FIFO has four places or more (25 and 416 picoseconds, 8, 16).*)
ASSUME GateAssumption ==
  /\ 2 * EnTap <= OpaTap /\ PhaseMax >= 3 /\ VfifoSize >= 4
  /\ \A b \in Boards : b.gate \in Int /\ b.gateLength \in Int

VARIABLES
  vf,     \* locals of rw_mgr_mem_calibrate_vfifo: d, orig_start_dqs,
          \* dqs_in_dtaps, failed_substage
  reg,    \* the registers others read: PHY_MGR_MUX_SEL, the tracking bit of
          \* CTRL_CONFIG_REG, PHY_MGR_CAL_STATUS, REG_FILE_CUR_STAGE,
          \* REG_FILE_FAILING_STAGE, REG_FILE_FOM
  saved   \* ctrlcfg, the tracking bit when calibration started

vars == <<board, phy, gbl, step, result, en, dtaps, rd, wr, vf, reg, saved>>

NoError == [stage |-> "NIL", substage |-> "NIL", group |-> 255]
NoLocals == [d |-> 0, orig |-> 0, dqsIn |-> 0, failed |-> "NIL"]

Init ==
  /\ board \in Boards
  /\ phy = [Chains(0) EXCEPT !.dqsIn = 0, !.dqsOut = 0]
  /\ gbl = [stage |-> "NIL", substage |-> "NIL", group |-> 255,
            fomIn |-> 0, fomOut |-> 0, readLat |-> 0]
  /\ step = "boot" /\ result = FALSE /\ saved = FALSE
  /\ en = EnIdle /\ rd = RdIdle /\ wr = WrIdle /\ vf = NoLocals
  /\ dtaps = 0
  /\ \E tracking \in BOOLEAN :
       reg = [mux |-> 0, tracking |-> tracking, status |-> "RESET", stage |-> "NIL",
              failing |-> NoError, fom |-> <<0, 0>>]

idle == <<en, rd, wr>>   \* locals of the procedures not running

(* sdram_calibration up to run_mem_calibrate: the register file, among it the *)
(* default of the taps per phase that tracking will use.                      *)
InitializeRegisters ==
  /\ step = "boot"
  /\ dtaps' = DtapsPerPtap
  /\ step' = "run"
  /\ UNCHANGED <<board, phy, gbl, result, idle, vf, reg, saved>>

(* run_mem_calibrate to the call of mem_calibrate: tracking is stopped, the   *)
(* sequencer takes the PHY and initialises the memory.                        *)
TakePhy ==
  /\ step = "run"
  /\ saved' = reg.tracking
  /\ reg' = [reg EXCEPT !.status = "RESET", !.tracking = FALSE, !.mux = 3]
  /\ phy' = Initialized(phy)
  /\ step' = "calibrate"
  /\ UNCHANGED <<board, gbl, result, idle, vf, dtaps>>

(* mem_config: a latency high enough to start with, as far as the register    *)
(* goes.                                                                      *)
InitialLatency == SmallestOf({board.declared + LatencyMargin, LatencyMax})

(* mem_calibrate to calibrate_vfifo: no error yet, the latency and the rows   *)
(* of mem_config, all chains at their reset values.                           *)
MemCalibrate ==
  /\ step = "calibrate"
  /\ gbl' = [stage |-> "NIL", substage |-> "NIL", group |-> 255,
             fomIn |-> 0, fomOut |-> 0, readLat |-> InitialLatency]
  /\ phy' = [Chains(phy.vfifo) EXCEPT !.readLat = InitialLatency, !.mem = RowsOpened(phy).mem]
  /\ vf' = [NoLocals EXCEPT !.failed = "GUARANTEED_READ"]
  /\ reg' = [reg EXCEPT !.stage = "VFIFO"]
  /\ step' = "vfifo"
  /\ UNCHANGED <<board, result, idle, dtaps, saved>>

(* Leaving mem_calibrate: every return of it goes through here.               *)
Finish(ok) == /\ step' = "handoff"
              /\ result' = ok

(* The next output delay of calibrate_vfifo, two taps on, or its failure.     *)
(* scc_mgr_apply_group_all_out_delay_add moves what does not fit the missing  *)
(* second chain into the first one of the strobe, where it replaces what was  *)
(* there.                                                                     *)
OutDelay(s, d) == [s EXCEPT !.dqsOut = IF d > OutDelayMax THEN d - OutDelayMax ELSE @]
NextOutDelay(s, g, failed) ==
  IF vf.d + 2 <= DtapsPerPtap
  THEN /\ vf' = [vf EXCEPT !.d = @ + 2, !.failed = failed]
       /\ phy' = OutDelay(s, vf.d + 2)
       /\ step' = "vfifo"
       /\ gbl' = g
       /\ UNCHANGED result
  ELSE /\ vf' = NoLocals
       /\ phy' = s
       /\ gbl' = SetFailing(g, 0, "VFIFO", failed)
       /\ Finish(FALSE)

(* rw_mgr_mem_calibrate_read_test_patterns_all_ranks: the guaranteed read may *)
(* pass at the phase set, or only when it is retried at another.              *)
PhasesRead == {phy.enPhase} \cup 0 .. PhaseMax

(* The patterns are loaded and the guaranteed reads made.  When none passes   *)
(* the next output delay is tried; when one does the search starts at the     *)
(* strobe delay then in force.                                                *)
GuaranteedRead ==
  /\ step = "vfifo"
  /\ LET s == LoadPatterns(phy, phy.dqsOut \in board.pattern)
     IN \/ /\ ~ s.loaded
           /\ NextOutDelay([s EXCEPT !.enPhase = PhaseMax], gbl, vf.failed)
        \/ \E p \in PhasesRead :
             /\ s.loaded
             /\ phy' = [s EXCEPT !.enPhase = p]
             /\ vf' = [vf EXCEPT !.orig = phy.dqsIn, !.dqsIn = phy.dqsIn]
             /\ step' = "vfifo_try"
             /\ UNCHANGED <<gbl, result>>
  /\ UNCHANGED <<board, idle, dtaps, reg, saved>>

(* One strobe delay: the bits are spread over their chains and the gate is    *)
(* searched (find_dqs_en_phase_sweep_dq_in_delay).                            *)
DelayStep == DelayMax \div (Cardinality(DQ) - 1)
SweepDqIn ==
  /\ step = "vfifo_try"
  /\ EnEnter([phy EXCEPT !.dqsIn = vf.dqsIn, !.dqIn = [i \in DQ |-> i * DelayStep]])
  /\ UNCHANGED <<board, gbl, result, rd, wr, dtaps, vf, reg, saved>>

(* The next one if it tried the same strobe delay again.                      *)
NextStrobeDelaySame(s, failed) ==
  /\ vf' = [vf EXCEPT !.failed = failed]
  /\ phy' = s
  /\ step' = "vfifo_try"
  /\ UNCHANGED <<gbl, result>>

(* The next strobe delay, or after the last one the next output delay.        *)
NextStrobeDelay(s, failed) ==
  IF vf.dqsIn < DelayMax
  THEN /\ vf' = [vf EXCEPT !.dqsIn = @ + 1, !.failed = failed]
       /\ phy' = s
       /\ step' = "vfifo_try"
       /\ UNCHANGED <<gbl, result>>
  ELSE NextOutDelay(s, gbl, failed)

(* Back from the search: the bits go back to tap 0, and when the gate was     *)
(* found the strobe goes back to where the searches started and the read side *)
(* is deskewed.                                                               *)
GateSearched ==
  /\ step = "en_return"
  /\ LET s == [phy EXCEPT !.dqIn = [i \in DQ |-> 0]]
     IN IF result
        THEN RdEnter([s EXCEPT !.dqsIn = vf.orig], TRUE) /\ UNCHANGED <<gbl, result, vf>>
        ELSE NextStrobeDelay(s, "DQS_EN_PHASE") /\ UNCHANGED rd
  /\ UNCHANGED <<board, en, wr, dtaps, reg, saved>>

(* Back from a deskew of calibrate_vfifo: on to the output side, whose chains *)
(* are reset first if they were moved, or to the next strobe delay.           *)
ReadSideDone ==
  /\ step = "rd_return" /\ reg.stage = "VFIFO"
  /\ IF result
     THEN /\ WrEnter(IF vf.d > 0 THEN ZeroOut(phy) ELSE phy)
          /\ vf' = NoLocals
          /\ reg' = [reg EXCEPT !.stage = "WRITES"]
          /\ UNCHANGED <<gbl, result>>
     ELSE /\ NextStrobeDelay(phy, "VFIFO_CENTER")
          /\ UNCHANGED <<wr, reg>>
  /\ UNCHANGED <<board, en, rd, dtaps, saved>>

(* Back from calibrate_writes: the read side is deskewed again with write     *)
(* tests (calibrate_vfifo_end).                                               *)
WriteSideDone ==
  /\ step = "wr_return"
  /\ IF result
     THEN /\ RdEnter(phy, FALSE)
          /\ reg' = [reg EXCEPT !.stage = "VFIFO_AFTER_WRITES"]
          /\ UNCHANGED <<gbl, result>>
     ELSE /\ gbl' = SetFailing(gbl, 0, "WRITES", "WRITES_CENTER")
          /\ Finish(FALSE)
          /\ UNCHANGED <<phy, rd, reg>>
  /\ UNCHANGED <<board, en, wr, dtaps, vf, saved>>

(* Back from calibrate_vfifo_end: the patterns are loaded again, through the  *)
(* output side as it is now, and the latency is lowered (calibrate_lfifo).    *)
ReadSideDoneAgain ==
  /\ step = "rd_return" /\ reg.stage = "VFIFO_AFTER_WRITES"
  /\ IF result
     THEN /\ phy' = LoadPatterns(phy, Stored(phy) = DQ)
          /\ reg' = [reg EXCEPT !.stage = "LFIFO"]
          /\ step' = "lfifo"
          /\ UNCHANGED <<gbl, result>>
     ELSE /\ gbl' = SetFailing(gbl, 0, "VFIFO_AFTER_WRITES", "VFIFO_CENTER")
          /\ Finish(FALSE)
          /\ UNCHANGED <<phy, reg>>
  /\ UNCHANGED <<board, idle, dtaps, vf, saved>>

(* PHY_MGR_PHY_RLAT keeps the low bits of what is written to it, as many as   *)
(* MAX_LATENCY_COUNT_WIDTH says.                                              *)
RlatRegister(latency) == latency % (LatencyMax + 1)

(* calibrate_lfifo: the latency goes down while every bit reads right; two    *)
(* cycles are added to the first that does not, if any did.  Unlike the       *)
(* latency of mem_config the sum is not limited to what the register holds.   *)
LowerBy(margin) ==
  /\ step = "lfifo"
  /\ LET at == gbl.readLat
         s  == [phy EXCEPT !.readLat = at]
     IN \/ /\ ReadBits(s) = DQ /\ at > 1
           /\ gbl' = [gbl EXCEPT !.readLat = at - 1]
           /\ phy' = s
           /\ UNCHANGED <<step, result>>
        \/ LET last == IF ReadBits(s) = DQ THEN at - 1 ELSE at
           IN /\ ReadBits(s) # DQ \/ at = 1
              /\ IF last < InitialLatency
                 THEN /\ gbl' = [gbl EXCEPT !.readLat = last + margin]
                      /\ phy' = [s EXCEPT !.readLat = RlatRegister(last + margin)]
                      /\ Finish(TRUE)
                 ELSE /\ gbl' = SetFailing(gbl, 255, "LFIFO", "READ_LATENCY")
                      /\ phy' = s
                      /\ Finish(FALSE)
  /\ UNCHANGED <<board, idle, dtaps, vf, reg, saved>>
LowerLatencyOne == LowerBy(1)
LowerLatency    == LowerBy(2)

(* The rest of run_mem_calibrate, whether it passed or not: the rows are      *)
(* opened afresh and the memory is handed over, the PHY goes to the           *)
(* controller, tracking is as it was, then the outcome is published.          *)
ReleaseMemory ==
  /\ step = "handoff"
  /\ phy' = HandedOver(RowsOpened(phy))
  /\ step' = "mux"
  /\ UNCHANGED <<board, gbl, result, idle, vf, dtaps, reg, saved>>

HandOff ==
  /\ step = "mux"
  /\ reg' = [reg EXCEPT !.mux = 2]
  /\ step' = "restore"
  /\ UNCHANGED <<board, phy, gbl, result, idle, vf, dtaps, saved>>

RestoreTracking ==
  /\ step = "restore"
  /\ reg' = [reg EXCEPT !.tracking = saved]
  /\ step' = "report"
  /\ UNCHANGED <<board, phy, gbl, result, idle, vf, dtaps, saved>>

Report ==
  /\ step = "report"
  /\ reg' = IF result
            THEN [reg EXCEPT !.status = "SUCCESS",
                             !.fom = <<Clamp(Half(gbl.fomIn), 0, 255),
                                       Clamp(Half(gbl.fomOut), 0, 255)>>]
            ELSE [reg EXCEPT !.status = "FAIL",
                             !.failing = [stage |-> gbl.stage, substage |-> gbl.substage,
                                          group |-> gbl.group]]
  /\ step' = "done"
  /\ UNCHANGED <<board, phy, gbl, result, idle, vf, dtaps, saved>>

(* main returns to the preloader.                                             *)
Done == step = "done" /\ UNCHANGED vars

Next ==
  \/ InitializeRegisters \/ TakePhy \/ MemCalibrate \/ GuaranteedRead \/ SweepDqIn
  \/ FindDqsEnPhase /\ UNCHANGED <<rd, wr, vf, reg, saved>>
  \/ GateSearched
  \/ VfifoCenter /\ UNCHANGED <<en, wr, dtaps, vf, reg, saved>>
  \/ ReadSideDone
  \/ WritesCenter /\ UNCHANGED <<en, dtaps, vf, reg, saved>>
  \/ WriteSideDone \/ ReadSideDoneAgain \/ LowerLatency
  \/ ReleaseMemory \/ HandOff \/ RestoreTracking \/ Report \/ Done

(* One thread of one processor, which nothing stops.  This is WF_vars(Next),  *)
(* written with the fact that every state but the last has a next one.        *)
Fairness == []<>(step = "done") \/ []<><<Next>>_vars

Spec == Init /\ [][Next]_vars /\ Fairness
----------------------------------------------------------------------------
(* Every phase and tap the searches write fits the chain it is written to, at *)
(* every step and whatever the board: they are computed by additions,         *)
(* centring and shifts from the delays of earlier tries, and the chains would *)
(* truncate what does not fit (the setters of scc_mgr).  The latency is not   *)
(* among them: see LatencyAboveLeast.                                         *)
SettingsInRange ==
  /\ phy.enPhase \in 0 .. PhaseMax /\ phy.enDelay \in 0 .. EnDelayMax
  /\ {phy.dqsIn, phy.dqsOut, phy.dmOut} \subseteq 0 .. DelayMax
  /\ phy.dqIn \in [DQ -> 0 .. DelayMax] /\ phy.dqOut \in [DQ -> 0 .. DelayMax]

(* The sum of calibrate_lfifo fits its register on every board but those that *)
(* read with the greatest latency only.                                       *)
LatencyFits == board.latency < LatencyMax

(* What is published is true.  After SUCCESS every bit is read and written    *)
(* right and so is the mask, with the settings in force at the end, and no    *)
(* retry had recorded an error on the way; only a board whose latency does    *)
(* not fit may be left waiting too short for what it reads.  After FAIL the   *)
(* recorded stage is the one at which calibration stopped, although only the  *)
(* first error is kept.  Either way the controller has the PHY by then, and   *)
(* the memory in its user's mode (run_mem_calibrate, set_failing_group_stage).*)
VerdictIsTrue ==
  /\ reg.status = "SUCCESS" =>
       /\ GateOpen(phy) /\ Stored(phy) = DQ /\ Masked(phy) /\ gbl.stage = "NIL"
       /\ \A i \in DQ : phy.dqIn[i] - phy.dqsIn \in board.read[i]
       /\ LatencyFits => Aligned(phy) = DQ
  /\ reg.status = "FAIL" => reg.failing.stage = reg.stage
  /\ reg.status # "RESET" => reg.mux = 2
  /\ reg.mux = 2 => phy.mem = "user"

(* A gate that may open for at least a clock and for less than two clocks but *)
(* a phase and a tap is always found, wherever it lies, and the setting       *)
(* chosen keeps half a clock less a phase from either end of it, although the *)
(* search never tries phase 0 (rw_mgr_mem_calibrate_vfifo_find_dqs_en_phase). *)
(* In a longer opening the setting a clock before the middle may be open too, *)
(* and the last turn of the FIFO stops at the first that is.                  *)
GateMargin == ((PhaseMax - 1) \div 2) * OpaTap
GateCentred ==
  LET early == (GateTime(phy) - board.gate) % Cycle
      late  == board.gateLength - 1 - early
  IN (/\ step = "en_return" /\ phy.loaded /\ Aligned(phy) # {}
      /\ board.gateLength \in Period .. 2 * Period - OpaTap - EnTap) =>
       result /\ early >= GateMargin /\ late >= GateMargin

(* How far the settings of a side are from the upper and the lower end of the *)
(* windows of its bits: at(i) is the delay of bit i less that of the strobe.  *)
SlackAbove(at, windows) == SmallestOf({ LargestOf(windows[i]) - at[i] : i \in DQ })
SlackBelow(at, windows) == SmallestOf({ at[i] - SmallestOf(windows[i]) : i \in DQ })
ReadAt  == [i \in DQ |-> phy.dqIn[i] - phy.dqsIn]
WriteAt == [i \in DQ |-> phy.dqOut[i] - phy.dqsOut]

(* What a deskew can see of the windows when the strobe starts there: the     *)
(* delays of the bits over the strobe that its searches try.                  *)
InReach(windows, start) ==
  [i \in DQ |-> { x \in windows[i] : x >= - DelayMax /\ x + start <= DelayMax }]
Whole(window) == \A x, y \in window : x .. y \subseteq window

(* How much farther from the upper end of its window than from the lower one  *)
(* a bit is; one tap changes it by two.                                       *)
OffCentre(at, windows, i) == LargestOf(windows[i]) + SmallestOf(windows[i]) - 2 * at[i]

(* Deskewing does what it is for: whenever it passes, every bit whose window  *)
(* has no holes is in the middle of what can be seen of it, so that no tap    *)
(* more or less would bring it nearer, unless its chain ends there.  On the   *)
(* read side, where the strobe moves too, no chain ends below                 *)
(* (rw_mgr_mem_calibrate_vfifo_center, rw_mgr_mem_calibrate_writes_center).   *)
InputCentred ==
  LET off(i) == OffCentre(ReadAt', InReach(board.read, rd.start), i)
  IN step = "rd_right" /\ step' = "rd_return" /\ result' /\ (\A i \in DQ : Whole(board.read[i])) =>
       \A i \in DQ : off(i) >= -1 /\ (phy'.dqIn[i] < DelayMax => off(i) <= 1)
OutputCentred ==
  LET off(i) == OffCentre(WriteAt', InReach(board.write, wr.edges.start), i)
  IN step = "wr_right" /\ step' = "wr_mask" /\ (\A i \in DQ : Whole(board.write[i])) =>
       \A i \in DQ : /\ phy'.dqOut[i] > 0 => off(i) >= -1
                     /\ phy'.dqOut[i] < DelayMax => off(i) <= 1
DeskewCentred == [][InputCentred /\ OutputCentred]_vars

(* The figures of merit, from which a board is judged, never promise a margin *)
(* the settings do not have (fom_in and fom_out).                             *)
FiguresEarned ==
  reg.status = "SUCCESS" =>
    /\ gbl.fomIn  <= SlackAbove(ReadAt, board.read) + SlackBelow(ReadAt, board.read)
    /\ gbl.fomOut <= SlackAbove(WriteAt, board.write) + SlackBelow(WriteAt, board.write)

(* The latency that stays is one cycle above the least that reads (or above   *)
(* one): neither left high nor left at the limit, if the register holds it    *)
(* (rw_mgr_mem_calibrate_lfifo).                                              *)
LatencyLeast ==
  reg.status = "SUCCESS" /\ LatencyFits =>
    phy.readLat = 1 + LargestOf({board.latency, 1})

(* The "fudge factor" that rw_mgr_mem_calibrate_lfifo says it adds to the     *)
(* latency that was determined leaves the PHY waiting longer than the board   *)
(* needs, on every board that is reported as calibrated.                      *)
LatencyAboveLeast == reg.status = "SUCCESS" => phy.readLat > board.latency

(* Calibration ends on every board: the retries at further strobe and output  *)
(* delays and the searches inside them all run out                            *)
(* (rw_mgr_mem_calibrate_vfifo).                                              *)
Terminates == <>(step = "done")
===============================================================================
