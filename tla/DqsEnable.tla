------------------------------- MODULE DqsEnable -------------------------------
(* rw_mgr_mem_calibrate_vfifo_find_dqs_en_phase of sequencer.c: it looks for  *)
(* the settings of the read FIFO, the phase and the tap that open the gate of *)
(* the read strobe in the middle of the time it may be open.  One action is   *)
(* one setting with the read test made through it.                            *)
EXTENDS DdrPhy

(* The taps of the enable span a phase (31 * 25 and 416 picoseconds).         *)
ASSUME EnTapsAssumption == EnDelayMax * EnTap >= OpaTap

VARIABLES
  en,      \* the locals of the search: v, fail_cnt, i, p, d, work_bgn, work_end,
           \* tmp_delay, whether j = 1, initial_failing_dtap
  dtaps    \* REG_FILE_DTAPS_PER_PTAP

EnIdle == [ v |-> 0, fails |-> 0, i |-> 0, p |-> 0, d |-> 0, bgn |-> 0, end |-> 0,
            tmp |-> 0, first |-> FALSE, from |-> 0 ]

(* Step 0: enable taps that fit in one phase.                                 *)
DtapsPerPtap == (OpaTap + EnTap - 1) \div EnTap - 1

(* PASS_ONE_BIT: one bit read right is enough here.                           *)
Passes(s) == ReadBits(s) # {}

EnEnter(s) == /\ step' = "en_fail"
              /\ phy' = [s EXCEPT !.enDelay = 0, !.enPhase = 1]
              /\ en' = EnIdle

EnReturn(ok, s) == /\ step' = "en_return"
                   /\ result' = ok
                   /\ phy' = s
                   /\ en' = EnIdle

EnGoto(next, s, locals) == /\ step' = next
                           /\ phy' = s
                           /\ en' = locals
                           /\ UNCHANGED result

(* Step 1: push the FIFO until the second failing read.                       *)
EnSeekFail ==
  /\ step = "en_fail"
  /\ LET fails == IF Passes(phy) THEN en.fails ELSE en.fails + 1
     IN IF fails = 2 THEN EnGoto("en_begin", phy, [EnIdle EXCEPT !.p = 1])
        ELSE IF en.v + 1 < VfifoSize
        THEN EnGoto("en_fail", Push(phy), [en EXCEPT !.v = @ + 1, !.fails = fails])
        ELSE EnReturn(FALSE, Push(phy))
  /\ UNCHANGED <<board, gbl, dtaps>>

(* work_bgn at the i-th place of the FIFO, phase p and tap d.                 *)
Elapsed(i, p, d) == (i * (PhaseMax + 1) + p) * OpaTap + d * EnTap

(* Step 2: the first passing read, by phases and then by taps; phase 0 is     *)
(* skipped on this PHY.  A window that covers a phase is searched by phases   *)
(* from one phase before (step 3a); a smaller one by taps (steps 3-5b).       *)
EnSeekBegin ==
  /\ step = "en_begin"
  /\ LET s  == [phy EXCEPT !.enPhase = en.p, !.enDelay = en.d]
         at == Elapsed(en.i, en.p, en.d)
     IN \/ /\ Passes(s) /\ en.d = 0
           /\ LET p == IF en.p = 1 THEN 1 ELSE en.p - 1
              IN EnGoto("en_left", [s EXCEPT !.enPhase = p],
                        [en EXCEPT !.p = p, !.bgn = at, !.end = at,
                                   !.tmp = IF en.p = 1 THEN at ELSE at - OpaTap])
        \/ /\ Passes(s) /\ en.d > 0
           /\ EnGoto("en_right", s, [en EXCEPT !.bgn = at, !.end = at])
        \/ /\ ~ Passes(s) /\ en.p < PhaseMax
           /\ EnGoto("en_begin", s, [en EXCEPT !.p = @ + 1])
        \/ /\ ~ Passes(s) /\ en.p = PhaseMax
           /\ IF en.i + 1 < VfifoSize
              THEN EnGoto("en_begin", Push(s), [en EXCEPT !.i = @ + 1, !.p = 1])
              ELSE IF en.d < DtapsPerPtap
              THEN EnGoto("en_begin", Push(s), [en EXCEPT !.i = 0, !.p = 1, !.d = @ + 1])
              ELSE EnReturn(FALSE, Push(s))
  /\ UNCHANGED <<board, gbl, dtaps>>

(* What follows step 3a: forward to the phase found and on to the next one.   *)
EnForward(s, bgn) ==
  LET p == en.p + 2
      t == IF p > PhaseMax THEN Push(s) ELSE s
  IN EnGoto("en_end", [t EXCEPT !.enDelay = 0],
            [en EXCEPT !.p = p % (PhaseMax + 1), !.bgn = bgn, !.end = @ + OpaTap,
                       !.d = 0, !.tmp = 0, !.first = TRUE])

(* Step 3a: by taps to the first that passes, before the phase found.         *)
EnSeekLeft ==
  /\ step = "en_left"
  /\ LET s    == [phy EXCEPT !.enDelay = en.d]
         more == en.d <= EnDelayMax /\ en.tmp < en.bgn
     IN \/ /\ more /\ ~ Passes(s)
           /\ EnGoto("en_left", s, [en EXCEPT !.d = @ + 1, !.tmp = @ + EnTap])
        \/ more /\ Passes(s) /\ EnForward(s, en.tmp)
        \/ ~ more /\ EnForward(phy, en.bgn)
  /\ UNCHANGED <<board, gbl, dtaps>>

(* The next step as it would be if the phase were left where it failed.       *)
EnBackOffStays(s) == EnGoto("en_right", s, [en EXCEPT !.d = 0, !.first = FALSE])

(* Step 5a: back to the last phase that passed; phase 0 is skipped again.     *)
EnBackOff(s) ==
  IF en.p = 1
  THEN EnGoto("en_right", [Pull(s) EXCEPT !.enPhase = PhaseMax],
              [en EXCEPT !.p = PhaseMax, !.end = @ - 2 * OpaTap, !.d = 0, !.first = FALSE])
  ELSE EnGoto("en_right", [s EXCEPT !.enPhase = en.p - 1],
              [en EXCEPT !.p = @ - 1, !.end = @ - OpaTap, !.d = 0, !.first = FALSE])

(* Step 4a: forward by phases to the first that fails.  If the very first one *)
(* does, the left edge was fuzzy and the window is taken to start here.       *)
EnSeekEnd ==
  /\ step = "en_end"
  /\ LET s == [phy EXCEPT !.enPhase = en.p]
         n == [en EXCEPT !.end = @ + OpaTap, !.first = FALSE,
                         !.bgn = IF en.first /\ ~ Passes(s) THEN en.end ELSE @]
     IN \/ /\ en.p = 0
           /\ EnGoto("en_end", phy, [en EXCEPT !.p = 1, !.end = @ + OpaTap, !.first = FALSE])
        \/ /\ en.p > 0 /\ ~ en.first /\ ~ Passes(s)
           /\ EnBackOff(s)
        \/ /\ en.p > 0 /\ (en.first \/ Passes(s))
           /\ IF en.p < PhaseMax THEN EnGoto("en_end", s, [n EXCEPT !.p = @ + 1])
              ELSE IF en.i < VfifoSize
              THEN EnGoto("en_end", Push(s), [n EXCEPT !.p = 0, !.i = @ + 1])
              ELSE EnReturn(FALSE, Push(s))
  /\ UNCHANGED <<board, gbl, dtaps>>

(* The last tap that passes; then one phase back, to measure a phase in taps. *)
EnSeekRight ==
  /\ step = "en_right"
  /\ LET s    == [phy EXCEPT !.enDelay = en.d]
         good == en.d <= EnDelayMax /\ Passes(s)
         t    == IF en.d <= EnDelayMax THEN s ELSE phy
         end  == IF en.d # 0 THEN en.end - EnTap ELSE en.end
         n    == [en EXCEPT !.end = end, !.from = en.d]
     IN \/ /\ good
           /\ EnGoto("en_right", s, [en EXCEPT !.d = @ + 1, !.end = @ + EnTap])
        \/ /\ ~ good /\ end < en.bgn
           /\ EnReturn(FALSE, t)
        \/ /\ ~ good /\ end >= en.bgn
           /\ IF en.p \in {0, 1}
              THEN EnGoto("en_repass", [Pull(t) EXCEPT !.enPhase = PhaseMax],
                          [n EXCEPT !.p = PhaseMax])
              ELSE EnGoto("en_repass", [t EXCEPT !.enPhase = en.p - 1], [n EXCEPT !.p = @ - 1])
  /\ UNCHANGED <<board, gbl, dtaps>>

(* Step 6: the middle of the window, brought below one memory clock and split *)
(* into a phase and a tap.                                                    *)
EnCentre(s, perPtap) ==
  LET mid  == (en.bgn + en.end) \div 2
      work == IF mid > Period THEN ((mid - 1) % Period) + 1 ELSE mid
      p    == SmallestOf({ q \in 0 .. PhaseMax + 1 : q = PhaseMax + 1 \/ q * OpaTap >= work })
      d    == SmallestOf({ t \in 0 .. EnDelayMax + 1 :
                             t = EnDelayMax + 1 \/ (p - 1) * OpaTap + t * EnTap >= work })
  IN /\ dtaps' = perPtap
     /\ EnGoto("en_final",
               [s EXCEPT !.enPhase = IF p = 1 THEN 1 ELSE p - 1,
                         !.enDelay = IF p = 1 THEN 0 ELSE d], EnIdle)

(* One phase back, by taps to a read that passes and on to one that fails.    *)
EnRePass ==
  /\ step = "en_repass"
  /\ LET s == [phy EXCEPT !.enDelay = en.d]
     IN IF en.d > EnDelayMax THEN EnCentre(phy, DtapsPerPtap)
        ELSE /\ EnGoto(IF Passes(s) THEN "en_refail" ELSE "en_repass", s,
                       [en EXCEPT !.d = @ + 1])
             /\ UNCHANGED dtaps
  /\ UNCHANGED <<board, gbl>>

EnReFail ==
  /\ step = "en_refail"
  /\ LET s == [phy EXCEPT !.enDelay = en.d]
     IN IF en.d > EnDelayMax THEN EnCentre(phy, DtapsPerPtap)
        ELSE IF ~ Passes(s) THEN EnCentre(s, en.d - en.from)
        ELSE EnGoto("en_refail", s, [en EXCEPT !.d = @ + 1]) /\ UNCHANGED dtaps
  /\ UNCHANGED <<board, gbl>>

(* Push the FIFO until the centred setting reads.                             *)
EnFinal ==
  /\ step = "en_final"
  /\ IF Passes(phy) THEN EnReturn(TRUE, phy)
     ELSE IF en.i + 1 < VfifoSize THEN EnGoto("en_final", Push(phy), [en EXCEPT !.i = @ + 1])
     ELSE EnReturn(FALSE, Push(phy))
  /\ UNCHANGED <<board, gbl, dtaps>>

FindDqsEnPhase == \/ EnSeekFail \/ EnSeekBegin \/ EnSeekLeft \/ EnSeekEnd
                  \/ EnSeekRight \/ EnRePass \/ EnReFail \/ EnFinal
===============================================================================
