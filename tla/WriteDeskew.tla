------------------------------ MODULE WriteDeskew ------------------------------
(* rw_mgr_mem_calibrate_writes_center of sequencer.c: the output side of      *)
(* ReadDeskew, with write tests.  The strobe stays where it is                *)
(* (ENABLE_DQS_OUT_CENTERING is 0), only the bits move; then the data mask is *)
(* centred in the largest window found for it.                                *)
EXTENDS ReadDeskew

VARIABLES wr   \* its locals: those of rd, and for the mask bgn_curr, end_curr,
               \* bgn_best, end_best, win_best and the margin of the bits

WrIdle == [ edges |-> RdIdle, bgn |-> 0, end |-> 0, bestBgn |-> 0, bestEnd |-> 0,
            best |-> 0, margin |-> 0 ]

WrEnter(s) ==
  /\ step' = "wr_left"
  /\ phy' = s
  /\ wr' = [WrIdle EXCEPT !.edges = [RdIdle EXCEPT !.left = [i \in DQ |-> Unseen],
                                                   !.right = [i \in DQ |-> Unseen],
                                                   !.start = s.dqsOut]]

WrReturn(ok, s, g) == /\ step' = "wr_return"
                      /\ result' = ok
                      /\ phy' = s
                      /\ gbl' = g
                      /\ wr' = WrIdle

WrGoto(next, s, locals) == /\ step' = next
                           /\ phy' = s
                           /\ wr' = locals

(* The left edges, by delaying the bits.  Unlike in ReadDeskew a bit counts   *)
(* as seen from here on when it has a left edge.                              *)
WrSeekLeft ==
  /\ step = "wr_left"
  /\ LET was    == wr.edges
         s      == [phy EXCEPT !.dqOut = [i \in DQ |-> was.d]]
         bits   == WriteBits(s)
         sticky == was.sticky \cup bits
         stop   == bits = {} /\ sticky = DQ
         seen   == [LeftSeen(was, bits) EXCEPT !.sticky = sticky]
     IN IF ~ stop /\ was.d < DelayMax
        THEN WrGoto("wr_left", s, [wr EXCEPT !.edges = [seen EXCEPT !.d = @ + 1]])
        ELSE LET e == LeftDone(IF stop THEN was ELSE seen)
             IN WrGoto("wr_right", [s EXCEPT !.dqOut = [i \in DQ |-> 0]],
                       [wr EXCEPT !.edges =
                          [e EXCEPT !.sticky = { i \in DQ : e.left[i] # Unseen }]])
  /\ UNCHANGED <<board, gbl, result, rd>>

(* A stop at the first delay leaves the bits seen so far marginal.            *)
Marginal(e) ==
  IF e.d # 0 THEN e
  ELSE [e EXCEPT !.right = [i \in DQ |-> IF e.right[i] = Unseen /\ e.left[i] # Unseen THEN -1
                                         ELSE e.right[i]]]

(* The end of the bits: without a window for each the first is recorded; else *)
(* they are moved to the centre of the worst one and the mask is next.        *)
WrCentre(s, e) ==
  LET missing == { i \in DQ : e.left[i] = Unseen \/ e.right[i] = Unseen }
      dq      == DqMargin(e, s.dqOut, 0)
      dqs     == DqsMargin(e, s.dqOut, 0)
  IN IF missing # {}
     THEN WrReturn(FALSE, s, SetFailing(gbl, SmallestOf(missing), "WRITES", "WRITES_CENTER"))
     ELSE /\ WrGoto("wr_mask",
                    [s EXCEPT !.dqOut = [i \in DQ |-> @[i] + Shift(e, i, @[i], 0)],
                              !.dqsOut = e.start],
                    [WrIdle EXCEPT !.edges = [RdIdle EXCEPT !.d = DelayMax, !.start = e.start],
                                   !.bgn = Unseen, !.end = Unseen,
                                   !.bestBgn = Unseen, !.bestEnd = Unseen,
                                   !.margin = SmallestOf({dq, dqs})])
          /\ gbl' = [gbl EXCEPT !.fomOut = @ + dq + dqs]
          /\ UNCHANGED result

WrSeekRight ==
  /\ step = "wr_right"
  /\ LET was    == wr.edges
         s      == [phy EXCEPT !.dqsOut = was.start + was.d]
         bits   == WriteBits(s)
         sticky == was.sticky \cup bits
         stop   == bits = {} /\ sticky = DQ
         seen   == [RightSeen(was, bits) EXCEPT !.sticky = sticky]
     IN IF ~ stop /\ was.d < DelayMax - was.start
        THEN /\ WrGoto("wr_right", s, [wr EXCEPT !.edges = [seen EXCEPT !.d = @ + 1]])
             /\ UNCHANGED <<gbl, result>>
        ELSE WrCentre(s, IF stop THEN Marginal(was) ELSE seen)
  /\ UNCHANGED <<board, rd>>

(* PASS_ALL_BITS with the mask in use.                                        *)
MaskPasses(s) == WriteBits(s) = DQ /\ Masked(s)

(* One more place of the mask, negative when the mask is delayed and positive *)
(* when the strobe is: the window being seen, and the largest so far.         *)
Extend(w, at) ==
  LET bgn  == IF w.bgn = Unseen THEN at ELSE w.bgn
      size == at - bgn + 1
  IN [w EXCEPT !.bgn = bgn, !.end = at,
               !.best    = IF size > w.best THEN size ELSE @,
               !.bestBgn = IF size > w.best THEN bgn ELSE @,
               !.bestEnd = IF size > w.best THEN at ELSE @]
Broken(w) == [w EXCEPT !.bgn = Unseen, !.end = Unseen]

(* The mask from its last tap down to 0.                                      *)
WrSeekMask ==
  /\ step = "wr_mask"
  /\ LET d == wr.edges.d
         s == [phy EXCEPT !.dmOut = d]
         w == IF MaskPasses(s) THEN Extend(wr, - d) ELSE Broken(wr)
     IN IF d > 0 THEN WrGoto("wr_mask", s, [w EXCEPT !.edges.d = d - 1])
        ELSE WrGoto("wr_mask_dqs", [s EXCEPT !.dmOut = 0], IF w.end # 0 THEN Broken(w) ELSE w)
  /\ UNCHANGED <<board, gbl, result, rd>>

(* The next one with the strobe left where the search ended.                  *)
WrMaskCentreMoved(s, w) ==
  LET mid    == Half(- w.bestBgn - w.bestEnd)
      centre == IF mid < 0 THEN 0 ELSE mid
      margin == IF w.best = 0 THEN -1 ELSE - w.bestBgn - centre
  IN WrReturn(w.margin >= 0 /\ margin >= 0, [s EXCEPT !.dmOut = centre], gbl)

(* The mask ends in the middle of its largest window, the strobe where it was. *)
WrMaskCentre(s, w) ==
  LET mid    == Half(- w.bestBgn - w.bestEnd)
      centre == IF mid < 0 THEN 0 ELSE mid
      margin == IF w.best = 0 THEN -1 ELSE - w.bestBgn - centre
  IN WrReturn(w.margin >= 0 /\ margin >= 0,
              [s EXCEPT !.dqsOut = w.edges.start, !.dmOut = centre], gbl)

(* The strobe from where it is up, until no larger window fits.               *)
WrSeekMaskDqs ==
  /\ step = "wr_mask_dqs"
  /\ LET d    == wr.edges.d
         room == DelayMax - wr.edges.start - d
         s    == [phy EXCEPT !.dqsOut = wr.edges.start + d]
         good == MaskPasses(s)
         w    == IF good THEN Extend(wr, d) ELSE Broken(wr)
     IN IF room > 0 /\ (good \/ wr.best - 1 <= room)
        THEN /\ WrGoto("wr_mask_dqs", s, [w EXCEPT !.edges.d = d + 1])
             /\ UNCHANGED <<gbl, result>>
        ELSE WrMaskCentre(s, w)
  /\ UNCHANGED <<board, rd>>

WritesCenter == WrSeekLeft \/ WrSeekRight \/ WrSeekMask \/ WrSeekMaskDqs
===============================================================================
