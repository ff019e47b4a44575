------------------------------ MODULE ReadDeskew ------------------------------
(* rw_mgr_mem_calibrate_vfifo_center of sequencer.c: for every data bit the   *)
(* taps with which it reads right are searched, first by delaying the bits    *)
(* and then by delaying the strobe; then strobe and bits are moved so that    *)
(* all windows have the same centre.  It runs twice: after the gate is found, *)
(* with read tests, and after the output side, with write tests.              *)
EXTENDS DdrPhy

VARIABLES rd   \* its locals: d, left_edge, right_edge, sticky_bit_chk,
               \* start_dqs, use_read_test

Unseen == DelayMax + 1    \* the illegal value of an edge

RdIdle == [ d |-> 0, left |-> [i \in DQ |-> 0], right |-> [i \in DQ |-> 0],
            sticky |-> {}, start |-> 0, useRead |-> FALSE ]

RdEnter(s, useRead) ==
  /\ step' = "rd_left"
  /\ phy' = s
  /\ rd' = [RdIdle EXCEPT !.left = [i \in DQ |-> Unseen], !.right = [i \in DQ |-> Unseen],
                          !.start = s.dqsIn, !.useRead = useRead]

RdBits(s) == IF rd.useRead THEN ReadBits(s) ELSE WriteBits(s)

RdReturn(ok, s, g) == /\ step' = "rd_return"
                      /\ result' = ok
                      /\ phy' = s
                      /\ gbl' = g
                      /\ rd' = RdIdle

RdGoto(next, s, locals) == /\ step' = next
                           /\ phy' = s
                           /\ rd' = locals
                           /\ UNCHANGED <<gbl, result>>

(* One delay of the bits, with the edges it shows: a bit that passes has its  *)
(* left edge here at least; one that has not passed yet can only have its     *)
(* right edge beyond.                                                         *)
LeftSeen(e, bits) ==
  [e EXCEPT !.left  = [i \in DQ |-> IF i \in bits THEN e.d ELSE e.left[i]],
            !.right = [i \in DQ |-> IF i \notin bits /\ e.left[i] = Unseen THEN - (e.d + 1)
                                    ELSE e.right[i]]]

(* A right edge without a left one is not an edge.                            *)
LeftDone(e) == [e EXCEPT !.right = [i \in DQ |-> IF e.left[i] = Unseen THEN Unseen
                                                 ELSE e.right[i]],
                         !.d = 0]

RdSeekLeft ==
  /\ step = "rd_left"
  /\ LET s      == [phy EXCEPT !.dqIn = [i \in DQ |-> rd.d]]
         bits   == RdBits(s)
         sticky == rd.sticky \cup bits
         stop   == bits = {} /\ sticky = DQ
         seen   == [LeftSeen(rd, bits) EXCEPT !.sticky = sticky]
     IN IF ~ stop /\ rd.d < DelayMax
        THEN RdGoto("rd_left", s, [seen EXCEPT !.d = @ + 1])
        ELSE LET e == LeftDone(IF stop THEN rd ELSE seen)
             IN RdGoto("rd_right", [s EXCEPT !.dqIn = [i \in DQ |-> 0]],
                       [e EXCEPT !.sticky = { i \in DQ : /\ e.left[i] # Unseen
                                                         /\ e.right[i] # Unseen }])
  /\ UNCHANGED board

(* The next one with the edge one delay too far.                              *)
RightSeenBeyond(e, bits) ==
  [e EXCEPT !.right = [i \in DQ |-> IF i \in bits THEN e.d + 1 ELSE e.right[i]]]

(* One delay of the strobe.  A bit that fails at the first one but was seen   *)
(* passing is marginal: its right edge is -1.                                 *)
RightSeen(e, bits) ==
  [e EXCEPT
    !.right = [i \in DQ |->
       IF i \in bits THEN e.d
       ELSE IF e.d = 0 /\ e.right[i] = Unseen /\ e.left[i] # Unseen THEN -1 ELSE e.right[i]],
    !.left  = [i \in DQ |->
       IF i \notin bits /\ e.right[i] = Unseen /\ (e.d # 0 \/ e.left[i] = Unseen)
       THEN - (e.d + 1) ELSE e.left[i]]]

(* Twice the distance of the centre of each bit from the common setting, and  *)
(* the bit that needs the strobe moved most.                                  *)
Skew(e, i) == e.left[i] - e.right[i]
Worst(e) == SmallestOf({ i \in DQ : \A k \in DQ : Skew(e, i) <= Skew(e, k) })
MidMin(e) == LET m == Skew(e, Worst(e)) IN Half(IF m > 0 THEN m + 1 ELSE m)

Clamp(n, least, most) == IF n > most THEN most ELSE IF n < least THEN least ELSE n

(* The next one without its limits, and without the halving of the skew.      *)
ShiftUnlimited(e, i, at, moved) ==
  Half(Skew(e, i) - Skew(e, Worst(e))) + (MidMin(e) - moved)
ShiftWhole(e, i, at, moved) ==
  Clamp(Skew(e, i) - Skew(e, Worst(e)) + (MidMin(e) - moved), - at, DelayMax - at)

(* shift_dq: what is added to the delay at of the bit when the strobe moves   *)
(* by - moved out of the - MidMin it should.                                  *)
Shift(e, i, at, moved) ==
  Clamp(Half(Skew(e, i) - Skew(e, Worst(e))) + (MidMin(e) - moved), - at, DelayMax - at)

(* dq_margin and dqs_margin of the settings so chosen.                        *)
DqMargin(e, at, moved) ==
  SmallestOf({Unseen} \cup { e.left[i] - Shift(e, i, at[i], moved) - moved : i \in DQ })
DqsMargin(e, at, moved) ==
  SmallestOf({Unseen} \cup { e.right[i] + Shift(e, i, at[i], moved) + moved : i \in DQ })

(* The end of the procedure.  Without a window for every bit the strobe goes  *)
(* back where it was and the first such bit is recorded, where a group is     *)
(* expected; otherwise strobe and bits are centred, within their chains.      *)
RdCentre(s, e) ==
  LET missing == { i \in DQ : e.left[i] = Unseen \/ e.right[i] = Unseen }
      moved   == e.start - Clamp(e.start - MidMin(e), 0, DelayMax)
      dq      == DqMargin(e, s.dqIn, moved)
      dqs     == DqsMargin(e, s.dqIn, moved)
  IN IF missing # {}
     THEN RdReturn(FALSE, [s EXCEPT !.dqsIn = e.start],
                   SetFailing(gbl, SmallestOf(missing),
                              IF e.useRead THEN "VFIFO" ELSE "VFIFO_AFTER_WRITES", "VFIFO_CENTER"))
     ELSE RdReturn(dq >= 0 /\ dqs >= 0,
                   [s EXCEPT !.dqIn = [i \in DQ |-> @[i] + Shift(e, i, @[i], moved)],
                             !.dqsIn = e.start - moved],
                   IF e.useRead THEN gbl ELSE [gbl EXCEPT !.fomIn = @ + dq + dqs])

RdSeekRight ==
  /\ step = "rd_right"
  /\ LET s      == [phy EXCEPT !.dqsIn = rd.start + rd.d]
         bits   == RdBits(s)
         sticky == rd.sticky \cup bits
         stop   == bits = {} /\ sticky = DQ
         seen   == [RightSeen(rd, bits) EXCEPT !.sticky = sticky]
     IN IF ~ stop /\ rd.d < DelayMax - rd.start
        THEN RdGoto("rd_right", s, [seen EXCEPT !.d = @ + 1])
        ELSE RdCentre(s, IF stop THEN rd ELSE seen)
  /\ UNCHANGED board

VfifoCenter == RdSeekLeft \/ RdSeekRight
===============================================================================
