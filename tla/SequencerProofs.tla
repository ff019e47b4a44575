---------------------------- MODULE SequencerProofs ----------------------------
(* Proofs about the SDRAM calibration (Sequencer), for every board, every     *)
(* length of the delay chains and every number of data bits: the delays fit   *)
(* their chains, what is published is true, the figures of merit are earned   *)
(* and the latency that stays is the least plus one if its register holds     *)
(* that; and about the waits between commands (RwDelay).                      *)
EXTENDS Sequencer, RwDelay, FiniteSetTheorems, WellFoundedInduction, TLAPS

(* What the registers, chains and locals of sequencer.c hold.                 *)
Tap   == 0 .. DelayMax
Place == - DelayMax .. Unseen      \* of the mask, or none
Stage == {"NIL", "VFIFO", "WRITES", "VFIFO_AFTER_WRITES", "LFIFO"}
Substage == {"NIL", "GUARANTEED_READ", "DQS_EN_PHASE", "VFIFO_CENTER", "WRITES_CENTER",
             "READ_LATENCY"}

(* The steps of the three searches and those before and after them.          *)
EnStep == {"en_fail", "en_begin", "en_left", "en_end", "en_right", "en_repass",
           "en_refail", "en_final", "en_return"}
RdStep == {"rd_left", "rd_right", "rd_return"}
WrStep == {"wr_left", "wr_right", "wr_mask", "wr_mask_dqs", "wr_return"}
Before == {"boot", "run", "calibrate"}
After  == {"handoff", "mux", "restore", "report", "done"}
Step   == Before \cup {"vfifo", "vfifo_try"} \cup EnStep \cup RdStep \cup WrStep
            \cup {"lfifo"} \cup After

(* The settings of the PHY, the globals, the locals of the searches and the   *)
(* register file.                                                             *)
Settings == [ vfifo : 0 .. VfifoSize - 1, enPhase : 0 .. PhaseMax,
              enDelay : 0 .. EnDelayMax, dqsIn : Tap, dqIn : [DQ -> Tap],
              dqsOut : Tap, dqOut : [DQ -> Tap], dmOut : Tap,
              readLat : 0 .. LatencyMax, loaded : BOOLEAN,
              mem : {"reset", "closed", "open", "user"} ]
Globals  == [ stage : Stage, substage : Substage, group : Int,
              fomIn : Int, fomOut : Int, readLat : 0 .. LatencyMax + 1 ]
Search   == [ v : Nat, fails : Nat, i : Nat, p : 0 .. PhaseMax, d : Nat, bgn : Int,
              end : Int, tmp : Int, first : BOOLEAN, from : Nat ]
Edges    == [ d : Tap, left : [DQ -> Int], right : [DQ -> Int], sticky : SUBSET DQ,
              start : Tap, useRead : BOOLEAN ]
Mask     == [ edges : Edges, bgn : Place, end : Place, bestBgn : Place,
              bestEnd : Place, best : Nat, margin : Int ]
Locals   == [ d : 0 .. DtapsPerPtap, orig : Tap, dqsIn : Tap, failed : Substage ]
Failure  == [ stage : Stage, substage : Substage, group : Int ]
Registers == [ mux : {0, 2, 3}, tracking : BOOLEAN, status : {"RESET", "SUCCESS", "FAIL"},
               stage : Stage, failing : Failure, fom : Int \X Int ]

(* Every variable has its type: no delay, phase or place of the FIFO is out   *)
(* of its register, and the latency computed is out of it by one at most.     *)
TypeOK ==
  /\ board \in Boards /\ phy \in Settings /\ gbl \in Globals /\ step \in Step
  /\ result \in BOOLEAN /\ en \in Search /\ dtaps \in Int /\ rd \in Edges
  /\ wr \in Mask /\ vf \in Locals /\ reg \in Registers /\ saved \in BOOLEAN

(* What the gate search needs to stay within the registers: it never steps    *)
(* back from phase 0, and it centres what lies after time 0.                  *)
EnReady(at, e) ==
  /\ at = "en_begin" => e.p >= 1 /\ e.d <= DtapsPerPtap
  /\ at = "en_left" => e.p >= 1 /\ e.tmp > 0
  /\ at \in {"en_left", "en_end"} => e.end > 0
  /\ at \in {"en_left", "en_end", "en_right", "en_repass", "en_refail"} => e.bgn > 0
  /\ at = "en_right" => e.p >= 1
  /\ at \in {"en_repass", "en_refail"} => e.end >= e.bgn
GateSearch == EnReady(step, en)

(* The strobe is moved up from where it started, to the end of its chain.     *)
StrobeInChain ==
  /\ step = "rd_right" => rd.start + rd.d <= DelayMax
  /\ step \in {"wr_right", "wr_mask_dqs"} => wr.edges.start + wr.edges.d <= DelayMax

(* Which stage a step belongs to, and who has the memory and the PHY.         *)
Control ==
  /\ step \in {"vfifo", "vfifo_try"} \cup EnStep => reg.stage = "VFIFO"
  /\ step \in WrStep => reg.stage = "WRITES"
  /\ step \in RdStep => reg.stage \in {"VFIFO", "VFIFO_AFTER_WRITES"}
  /\ step \in {"rd_left", "rd_right"} => (rd.useRead <=> reg.stage = "VFIFO")
  /\ step = "lfifo" => reg.stage = "LFIFO"
  /\ step = "calibrate" => phy.mem = "closed"
  /\ step \notin Before \cup {"mux", "restore", "report", "done"} => phy.mem = "open"
  /\ step \in {"mux", "restore", "report", "done"} => phy.mem = "user"
  /\ reg.mux = 2 <=> step \in {"restore", "report", "done"}
  /\ reg.status = "RESET" <=> step # "done"
  /\ step = "done" => (reg.status = "SUCCESS" <=> result)
  /\ reg.status = "FAIL" => reg.failing.stage = gbl.stage

(* An error is recorded under the stage at which calibration will stop.       *)
ErrorOfStage ==
  /\ step \notin Before => gbl.stage \in {"NIL", reg.stage}
  /\ step \in (WrStep \ {"wr_return"}) \cup {"lfifo"} => gbl.stage = "NIL"
  /\ step \in RdStep /\ reg.stage = "VFIFO_AFTER_WRITES" /\ (step = "rd_return" => result) =>
       gbl.stage = "NIL"
  /\ step = "wr_return" /\ result => gbl.stage = "NIL"
  /\ step \in After => gbl.stage = IF result THEN "NIL" ELSE reg.stage

(* Whether a read test shows the bits that are in their windows.              *)
Reads(s) == s.loaded /\ s.mem = "open" /\ GateOpen(s) /\ s.readLat >= board.latency

(* Whether some delay that the deskew tries when the strobe starts there      *)
(* captures bit i.                                                            *)
Delayed(i, start, least, most) == \E x \in least .. most : x - start \in board.read[i]
Advanced(i, start, least, most) == \E x \in least .. most : 0 - (start + x) \in board.read[i]
Reached(i, start) == \/ Delayed(i, start, 0, DelayMax)
                     \/ Advanced(i, start, 0, DelayMax - start)

(* What the edges of the read side say while they are searched for the first  *)
(* time.                                                                      *)
LeftsTried(e) ==
  /\ \A i \in DQ : e.left[i] # Unseen <=> Delayed(i, e.start, 0, e.d - 1)
  /\ \A i \in e.sticky : e.left[i] # Unseen
LeftsKnown(e) ==
  \A i \in DQ : /\ e.left[i] # Unseen <=> Delayed(i, e.start, 0, DelayMax)
                /\ e.left[i] = Unseen => e.right[i] = Unseen
RightsTried(e) ==
  \A i \in DQ : /\ e.left[i] # Unseen
                /\ e.right[i] # Unseen <=> \/ Delayed(i, e.start, 0, DelayMax)
                                          \/ Advanced(i, e.start, 0, e.d - 1)
BothSeen(e) == \A i \in e.sticky : e.left[i] # Unseen /\ e.right[i] # Unseen
EdgesSeen ==
  step \in {"rd_left", "rd_right"} /\ rd.useRead =>
    /\ Reads(phy) /\ rd.start = vf.orig
    /\ step = "rd_left" => phy.dqsIn = rd.start /\ LeftsTried(rd)
    /\ step = "rd_right" =>
         /\ phy.dqIn = [i \in DQ |-> 0] /\ BothSeen(rd)
         /\ IF rd.d = 0 THEN LeftsKnown(rd) ELSE RightsTried(rd)

(* Once an error is recorded no retry can pass: some bit is out of reach, and *)
(* a retry starts with the strobe where the last one left it, or later, from  *)
(* where it reaches less.                                                     *)
RetriesReachLess ==
  /\ step \in {"vfifo_try"} \cup EnStep \cup RdStep /\ reg.stage = "VFIFO" =>
       vf.dqsIn >= vf.orig
  /\ step \in EnStep => phy.dqsIn = vf.dqsIn
  /\ step = "en_return" /\ result => Reads(phy)
  /\ step \in {"vfifo", "vfifo_try"} \cup EnStep \cup RdStep /\ reg.stage = "VFIFO"
       /\ gbl.stage # "NIL" =>
       /\ \E i \in DQ : ~ Reached(i, vf.orig)
       /\ step \in {"vfifo", "rd_return"} => phy.dqsIn >= vf.orig
  /\ step = "rd_return" /\ reg.stage = "VFIFO" /\ result =>
       \A i \in DQ : Reached(i, vf.orig)

(* The mask passes at every place of the window that is being seen, which     *)
(* ends at the last place, and of the largest window.                         *)
MaskOpen(start, bgn, end) ==
  /\ bgn # Unseen /\ bgn <= end
  /\ \A x \in bgn .. end : 0 - (x + start) \in board.mask
WindowsPass(w) ==
  /\ w.bgn # Unseen => MaskOpen(w.edges.start, w.bgn, w.end)
  /\ w.best > 0 => MaskOpen(w.edges.start, w.bestBgn, w.bestEnd)
MaskWindows ==
  step \in {"wr_mask", "wr_mask_dqs"} =>
    /\ WindowsPass(wr)
    /\ wr.bgn # Unseen /\ step = "wr_mask" => wr.end = - (wr.edges.d + 1)
    /\ wr.bgn # Unseen /\ step = "wr_mask_dqs" => wr.end \in {wr.edges.d - 1, wr.edges.d}
    /\ step = "wr_mask" => phy.dqsOut = wr.edges.start
    /\ step = "wr_mask_dqs" => phy.dmOut = 0
MaskCentred ==
  (\/ step = "wr_return" /\ result
   \/ step \in RdStep /\ reg.stage = "VFIFO_AFTER_WRITES"
   \/ step = "lfifo") => Masked(phy)

(* The latency comes down from the initial one, one at a time, and every one  *)
(* before the present passed.                                                 *)
LatencyComesDown ==
  /\ step \in {"vfifo", "vfifo_try"} \cup EnStep \cup RdStep \cup WrStep =>
       gbl.readLat = InitialLatency
  /\ step = "lfifo" =>
       /\ gbl.readLat \in 1 .. InitialLatency
       /\ gbl.readLat < InitialLatency =>
            ReadBits([phy EXCEPT !.readLat = gbl.readLat + 1]) = DQ
       /\ phy.loaded => Stored(phy) = DQ

(* What SUCCESS says, from the step that decides it to the end.               *)
SettingsWork ==
  step \in After /\ result =>
    /\ GateOpen(phy) /\ Stored(phy) = DQ /\ Masked(phy)
    /\ \A i \in DQ : phy.dqIn[i] - phy.dqsIn \in board.read[i]
    /\ LatencyFits => /\ Aligned(phy) = DQ
                      /\ phy.readLat = 1 + LargestOf({board.latency, 1})

(* The inductive invariant.                                                   *)
IInv == /\ TypeOK /\ GateSearch /\ StrobeInChain /\ Control /\ ErrorOfStage
        /\ EdgesSeen /\ RetriesReachLess /\ MaskWindows /\ MaskCentred
        /\ LatencyComesDown /\ SettingsWork
-----------------------------------------------------------------------------
(* The constants.                                                             *)
LEMMA Constants ==
  /\ DelayMax \in Nat /\ EnDelayMax \in Nat /\ VfifoSize \in Nat \ {0}
  /\ DqsInReserve \in Tap /\ DqsOutReserve \in Tap /\ 0 \in Tap
  /\ PhaseMax \in Nat \ {0, 1} /\ EnTap \in Nat \ {0} /\ OpaTap \in Nat \ {0}
  /\ Unseen \in Int /\ Unseen = DelayMax + 1 /\ Unseen \notin Tap
BY DelaysAssumption DEF Tap, Unseen

(* There are at least two data bits.                                          *)
LEMMA Bits == \E n \in Nat \ {0} : DQ = 0 .. n
<1>1. Cardinality(DQ) - 1 \in Nat \ {0} /\ DQ = 0 .. Cardinality(DQ) - 1
  BY DelaysAssumption
<1> QED
  BY <1>1

(* Least elements, for the searches written with SmallestOf.                  *)
LEMMA LeastElement ==
  ASSUME NEW S, S \subseteq Nat, S # {}
  PROVE  \E n \in S : \A m \in S : n <= m
<1>1. PICK n \in S : \A m \in S : ~ (<< m, n >> \in OpToRel(<, Nat))
  BY WFMin, NatLessThanWellFounded, Zenon
<1>2. \A m \in S : ~ (m < n)
  BY <1>1 DEF OpToRel
<1> QED
  BY <1>2

(* SmallestOf returns a least element.                                        *)
LEMMA SmallestIsLeast ==
  ASSUME NEW S, S \subseteq Nat, S # {}
  PROVE  SmallestOf(S) \in S /\ \A y \in S : SmallestOf(S) <= y
<1>1. \E x \in S : \A y \in S : x <= y
  BY LeastElement, Zenon
<1>2. SmallestOf(S) \in S
  BY <1>1 DEF SmallestOf
<1>3. \A y \in S : SmallestOf(S) <= y
  BY <1>1 DEF SmallestOf
<1> QED
  BY <1>2, <1>3

(* One of the bits has the least of their values: otherwise some first bits   *)
(* would have none, and with the last of them taken away they would have one. *)
LEMMA LeastIndex ==
  ASSUME NEW f \in [DQ -> Int]
  PROVE  \E i \in DQ : \A k \in DQ : f[i] <= f[k]
<1>1. PICK n \in Nat \ {0} : DQ = 0 .. n
  BY Bits
<1> DEFINE Least(m) == \E i \in 0 .. m : \A k \in 0 .. m : f[i] <= f[k]
           Missing == { m \in 0 .. n : ~ Least(m) }
<1>2. ASSUME Missing # {} PROVE FALSE
  <2>1. Missing \subseteq Nat
    BY <1>1
  <2>2. PICK m \in Missing : \A k \in Missing : m <= k
    BY <1>2, <2>1, LeastElement, Zenon
  <2>3. m \in 0 .. n /\ ~ Least(m)
    BY <2>2
  <2>4. m # 0
    <3>1. \A k \in 0 .. 0 : f[0] <= f[k]
      BY <1>1
    <3>2. Least(0)
      BY <1>1, <3>1
    <3> QED
      BY <2>3, <3>2
  <2>5. m - 1 \in 0 .. n /\ ~ (m <= m - 1)
    BY <2>3, <2>4, <1>1
  <2>6. PICK i \in 0 .. m - 1 : \A k \in 0 .. m - 1 : f[i] <= f[k]
    <3>1. m - 1 \notin Missing
      BY <2>2, <2>5
    <3> QED
      BY <2>5, <3>1
  <2>7. f[i] \in Int /\ f[m] \in Int /\ i \in 0 .. m /\ m \in 0 .. m
    BY <1>1, <2>3, <2>5, <2>6
  <2>8. \A k \in 0 .. m : k = m \/ k \in 0 .. m - 1
    BY <2>3
  <2>9. \A k \in 0 .. m - 1 : f[k] \in Int
    BY <1>1, <2>3
  <2>10. CASE f[i] <= f[m]
    <3>1. \A k \in 0 .. m : f[i] <= f[k]
      BY <2>6, <2>8, <2>10
    <3> QED
      BY <2>3, <2>7, <3>1
  <2>11. CASE f[m] <= f[i]
    <3>1. \A k \in 0 .. m : f[m] <= f[k]
      BY <2>6, <2>7, <2>8, <2>9, <2>11
    <3> QED
      BY <2>3, <2>7, <3>1
  <2> QED
    BY <2>7, <2>10, <2>11
<1>3. n \in 0 .. n
  OBVIOUS
<1>4. Least(n)
  <2> HIDE DEF Least
  <2> QED
    BY <1>2, <1>3
<1> QED
  BY <1>1, <1>4

(* The least of finitely many integers, one for each bit, is an integer: what *)
(* the middle of the windows is computed from.                                *)
LEMMA SmallestValue ==
  ASSUME NEW u \in Int, NEW f \in [DQ -> Int]
  PROVE  SmallestOf({u} \cup { f[i] : i \in DQ }) \in Int
<1> DEFINE S == {u} \cup { f[i] : i \in DQ }
<1>1. PICK i \in DQ : \A k \in DQ : f[i] <= f[k]
  BY LeastIndex
<1>2. S \subseteq Int /\ u \in S /\ f[i] \in S
  OBVIOUS
<1>3. \A y \in S : (u <= f[i] => u <= y) /\ (f[i] <= u => f[i] <= y)
  BY <1>1, <1>2
<1>4. \E x \in S : \A y \in S : x <= y
  BY <1>2, <1>3
<1>5. SmallestOf(S) \in S
  BY <1>4 DEF SmallestOf
<1> QED
  BY <1>2, <1>5

-----------------------------------------------------------------------------
(* What the helpers of the searches return.                                   *)
LEMMA HalfType == \A n \in Int : Half(n) \in Int
BY DEF Half

(* The division by two of C truncates towards 0.                              *)
LEMMA HalfBounds ==
  ASSUME NEW n \in Int
  PROVE  /\ n >= 0 => 2 * Half(n) <= n /\ n <= 2 * Half(n) + 1
         /\ n < 0 => 2 * Half(n) >= n /\ n >= 2 * Half(n) - 1
BY DEF Half

(* A clamped value is within the limits.                                      *)
LEMMA ClampType ==
  ASSUME NEW n \in Int, NEW least \in Int, NEW most \in Int, least <= most
  PROVE  Clamp(n, least, most) \in least .. most
BY DEF Clamp

(* The worst bit is one of the group, and none has a smaller skew.            *)
LEMMA WorstIsLeast ==
  ASSUME NEW e \in Edges
  PROVE  Worst(e) \in DQ /\ \A i \in DQ : Skew(e, Worst(e)) <= Skew(e, i)
<1> DEFINE f == [i \in DQ |-> Skew(e, i)]
           S == { i \in DQ : \A k \in DQ : Skew(e, i) <= Skew(e, k) }
<1>1. f \in [DQ -> Int]
  BY DEF Edges, Skew
<1>2. PICK i \in DQ : \A k \in DQ : f[i] <= f[k]
  BY <1>1, LeastIndex
<1>3. i \in S
  BY <1>2
<1>4. S \subseteq Nat
  BY Bits
<1>5. SmallestOf(S) \in S
  BY <1>3, <1>4, SmallestIsLeast
<1> QED
  BY <1>5 DEF Worst

(* The middle of the windows and the margins are integers.                    *)
LEMMA MidMinType ==
  ASSUME NEW e \in Edges
  PROVE  MidMin(e) \in Int
<1>1. Skew(e, Worst(e)) \in Int
  BY WorstIsLeast DEF Edges, Skew
<1> QED
  BY <1>1, HalfType DEF MidMin

(* A shift leaves the delay in its chain, wherever the centre lies.           *)
LEMMA ShiftInChain ==
  ASSUME NEW e \in Edges, NEW i \in DQ, NEW at \in Tap, NEW moved \in Int
  PROVE  Shift(e, i, at, moved) \in Int /\ at + Shift(e, i, at, moved) \in Tap
<1> DEFINE n == Half(Skew(e, i) - Skew(e, Worst(e))) + (MidMin(e) - moved)
<1>1. Skew(e, i) \in Int /\ Skew(e, Worst(e)) \in Int
  BY WorstIsLeast DEF Edges, Skew
<1>2. Half(Skew(e, i) - Skew(e, Worst(e))) \in Int
  BY <1>1, HalfType
<1>3. n \in Int
  BY <1>2, MidMinType
<1>4. at \in Int /\ - at \in Int /\ DelayMax - at \in Int /\ - at <= DelayMax - at
  BY Constants DEF Tap
<1>5. Clamp(n, - at, DelayMax - at) \in - at .. DelayMax - at
  BY <1>3, <1>4, ClampType
<1>6. Shift(e, i, at, moved) \in - at .. DelayMax - at
  BY <1>5 DEF Shift
<1> QED
  BY <1>4, <1>6, Constants DEF Tap

(* The margins that a search reports are integers.                            *)
LEMMA MarginsType ==
  ASSUME NEW e \in Edges, NEW at \in [DQ -> Tap], NEW moved \in Int
  PROVE  DqMargin(e, at, moved) \in Int /\ DqsMargin(e, at, moved) \in Int
<1> DEFINE f == [i \in DQ |-> e.left[i] - Shift(e, i, at[i], moved) - moved]
           g == [i \in DQ |-> e.right[i] + Shift(e, i, at[i], moved) + moved]
<1>1. \A i \in DQ : Shift(e, i, at[i], moved) \in Int
  BY ShiftInChain
<1>2. f \in [DQ -> Int] /\ g \in [DQ -> Int]
  BY <1>1 DEF Edges
<1>3. { e.left[i] - Shift(e, i, at[i], moved) - moved : i \in DQ } = { f[i] : i \in DQ }
  OBVIOUS
<1>4. { e.right[i] + Shift(e, i, at[i], moved) + moved : i \in DQ } = { g[i] : i \in DQ }
  OBVIOUS
<1>5. SmallestOf({Unseen} \cup { f[i] : i \in DQ }) \in Int
  BY <1>2, Constants, SmallestValue
<1>6. SmallestOf({Unseen} \cup { g[i] : i \in DQ }) \in Int
  BY <1>2, Constants, SmallestValue
<1> QED
  BY <1>3, <1>4, <1>5, <1>6 DEF DqMargin, DqsMargin

(* The edges stay edges, whatever is seen.                                    *)
LEMMA LeftSeenType ==
  ASSUME NEW e \in Edges, NEW bits \in SUBSET DQ
  PROVE  /\ LeftSeen(e, bits) \in Edges
         /\ LeftSeen(e, bits).d = e.d /\ LeftSeen(e, bits).start = e.start
         /\ LeftSeen(e, bits).useRead = e.useRead
         /\ LeftSeen(e, bits).sticky = e.sticky
<1> DEFINE l == [i \in DQ |-> IF i \in bits THEN e.d ELSE e.left[i]]
           r == [i \in DQ |-> IF i \notin bits /\ e.left[i] = Unseen THEN - (e.d + 1)
                             ELSE e.right[i]]
<1>1. e.d \in Int /\ e.left \in [DQ -> Int] /\ e.right \in [DQ -> Int]
  BY DEF Edges, Tap
<1>2. l \in [DQ -> Int] /\ r \in [DQ -> Int]
  BY <1>1
<1>3. LeftSeen(e, bits) = [e EXCEPT !.left = l, !.right = r]
  BY Zenon DEF LeftSeen
<1> HIDE DEF l, r
<1> QED
  BY <1>2, <1>3 DEF Edges

(* What is recorded of the edges has their type, and leaves alone where the   *)
(* search is.                                                                 *)
LEMMA LeftDoneType ==
  ASSUME NEW e \in Edges
  PROVE  /\ LeftDone(e) \in Edges
         /\ LeftDone(e).d = 0 /\ LeftDone(e).start = e.start
         /\ LeftDone(e).useRead = e.useRead
BY Constants DEF Edges, LeftDone, Tap

(* The same for a right edge that was seen,                                   *)
LEMMA RightSeenType ==
  ASSUME NEW e \in Edges, NEW bits \in SUBSET DQ
  PROVE  /\ RightSeen(e, bits) \in Edges
         /\ RightSeen(e, bits).d = e.d /\ RightSeen(e, bits).start = e.start
         /\ RightSeen(e, bits).useRead = e.useRead
         /\ RightSeen(e, bits).sticky = e.sticky
<1> DEFINE r == [i \in DQ |->
                  IF i \in bits THEN e.d
                  ELSE IF e.d = 0 /\ e.right[i] = Unseen /\ e.left[i] # Unseen THEN -1
                  ELSE e.right[i]]
           l == [i \in DQ |->
                  IF i \notin bits /\ e.right[i] = Unseen /\ (e.d # 0 \/ e.left[i] = Unseen)
                  THEN - (e.d + 1) ELSE e.left[i]]
<1>1. e.d \in Int /\ e.left \in [DQ -> Int] /\ e.right \in [DQ -> Int]
  BY DEF Edges, Tap
<1>2. l \in [DQ -> Int] /\ r \in [DQ -> Int]
  BY <1>1
<1>3. RightSeen(e, bits) = [e EXCEPT !.right = r, !.left = l]
  BY Zenon DEF RightSeen
<1> HIDE DEF l, r
<1> QED
  BY <1>2, <1>3 DEF Edges

(* for the edges that are widened when a search finds none,                   *)
LEMMA MarginalType ==
  ASSUME NEW e \in Edges
  PROVE  /\ Marginal(e) \in Edges
         /\ Marginal(e).start = e.start
BY Constants DEF Edges, Marginal, Tap

(* for the bits that passed and the delay that is tried,                      *)
LEMMA EdgesUpdated ==
  ASSUME NEW e \in Edges
  PROVE  /\ \A S \in SUBSET DQ : [e EXCEPT !.sticky = S] \in Edges
         /\ \A n \in Tap : [e EXCEPT !.d = n] \in Edges
BY DEF Edges

(* and for the edges with which a search begins.                              *)
LEMMA NoEdges ==
  /\ RdIdle \in Edges
  /\ \A f \in [DQ -> Int], s \in Tap, b \in BOOLEAN :
       [RdIdle EXCEPT !.left = f, !.right = f, !.start = s, !.useRead = b] \in Edges
<1> DEFINE z == [i \in DQ |-> 0]
<1>1. z \in [DQ -> Int] /\ 0 \in Tap
  BY Constants
<1>2. RdIdle = [ d |-> 0, left |-> z, right |-> z, sticky |-> {}, start |-> 0, useRead |-> FALSE ]
  BY DEF RdIdle
<1> HIDE DEF z
<1>3. FALSE \in BOOLEAN
  OBVIOUS
<1>4. RdIdle \in Edges
  BY <1>1, <1>2, <1>3 DEF Edges
<1> QED
  BY <1>4 DEF Edges

(* The tests of a step, as sets of bits.                                      *)
LEMMA TestsType ==
  \A s : /\ ReadBits(s) \in SUBSET DQ /\ WriteBits(s) \in SUBSET DQ
         /\ RdBits(s) \in SUBSET DQ
BY DEF ReadBits, WriteBits, RdBits, Captured, Aligned, Stored

(* Only the first failure is recorded (set_failing_group_stage).              *)
LEMMA SetFailingType ==
  ASSUME NEW g \in Globals, NEW grp \in Int, NEW stage \in Stage, NEW sub \in Substage
  PROVE  /\ SetFailing(g, grp, stage, sub) \in Globals
         /\ SetFailing(g, grp, stage, sub).readLat = g.readLat
         /\ SetFailing(g, grp, stage, sub).stage = IF g.stage = "NIL" THEN stage ELSE g.stage
BY DEF SetFailing, Globals

(* The bit with which a missing window is recorded.                           *)
LEMMA FirstMissing ==
  ASSUME NEW S \in SUBSET DQ, S # {}
  PROVE  SmallestOf(S) \in DQ /\ SmallestOf(S) \in Int
<1>1. S \subseteq Nat
  BY Bits
<1>2. SmallestOf(S) \in S
  BY <1>1, SmallestIsLeast, Zenon
<1>3. \A x \in S : x \in DQ /\ x \in Int
  BY <1>1
<1> QED
  BY <1>2, <1>3, Zenon

(* DtapsPerPtap is where the taps are no more than a phase.                   *)
LEMMA PhaseInTaps ==
  /\ DtapsPerPtap \in Nat /\ DtapsPerPtap <= EnDelayMax
<1> DEFINE q == (OpaTap + EnTap - 1) \div EnTap
<1>1. OpaTap + EnTap - 1 \in Nat /\ EnTap \in Nat \ {0} /\ EnDelayMax \in Nat
      /\ EnTap >= 1 /\ OpaTap >= 1 /\ OpaTap \in Nat
  BY Constants
<1>2. q \in Int /\ EnTap * q <= OpaTap + EnTap - 1 /\ OpaTap + EnTap - 1 < EnTap * q + EnTap
  BY <1>1
<1>3. OpaTap <= EnTap * EnDelayMax
  BY EnTapsAssumption, Constants
<1> HIDE DEF q
<1> DEFINE product == EnTap * q
           reach   == EnTap * EnDelayMax
<1>4. product \in Int /\ reach \in Int
  BY <1>1, <1>2
<1>5. q >= 1
  <2> SUFFICES ASSUME q <= 0 PROVE FALSE
    BY <1>2
  <2>1. product <= 0 /\ OpaTap + EnTap - 1 < product + EnTap
    BY <1>1, <1>2
  <2> HIDE DEF product
  <2> QED
    BY <1>1, <1>4, <2>1
<1>6. q <= EnDelayMax + 1
  <2> SUFFICES ASSUME q >= EnDelayMax + 2 PROVE FALSE
    BY <1>1, <1>2
  <2>1. product >= EnTap * (EnDelayMax + 2)
    BY <1>1, <1>2
  <2>2. EnTap * (EnDelayMax + 2) = reach + 2 * EnTap
    BY <1>1
  <2>3. product <= OpaTap + EnTap - 1 /\ OpaTap <= reach /\ product >= reach + 2 * EnTap
    BY <1>2, <1>3, <2>1, <2>2
  <2> HIDE DEF product, reach
  <2> QED
    BY <1>1, <1>4, <2>3
<1> QED
  BY <1>1, <1>2, <1>5, <1>6 DEF DtapsPerPtap, q

-----------------------------------------------------------------------------
(* What the parts of the sequencer leave alone.                               *)
SameMemory(s, t) == t.mem = s.mem /\ t.readLat = s.readLat /\ t.loaded = s.loaded
SameGate(s, t)   == t.vfifo = s.vfifo /\ t.enPhase = s.enPhase /\ t.enDelay = s.enDelay
SameInput(s, t)  == t.dqsIn = s.dqsIn /\ t.dqIn = s.dqIn
SameOutput(s, t) == t.dqsOut = s.dqsOut /\ t.dqOut = s.dqOut /\ t.dmOut = s.dmOut

OnlyGate(s, t)   == t \in Settings /\ SameMemory(s, t) /\ SameInput(s, t) /\ SameOutput(s, t)
OnlyInput(s, t)  == t \in Settings /\ SameMemory(s, t) /\ SameGate(s, t) /\ SameOutput(s, t)
OnlyOutput(s, t) == t \in Settings /\ SameMemory(s, t) /\ SameGate(s, t) /\ SameInput(s, t)

(* A search of the gate may set the phase of the enable,                      *)
LEMMA PhaseSet ==
  ASSUME NEW s, NEW t, OnlyGate(s, t), NEW p \in 0 .. PhaseMax
  PROVE  OnlyGate(s, [t EXCEPT !.enPhase = p])
BY DEF OnlyGate, SameMemory, SameInput, SameOutput, Settings

(* its delay                                                                  *)
LEMMA TapSet ==
  ASSUME NEW s, NEW t, OnlyGate(s, t), NEW d \in 0 .. EnDelayMax
  PROVE  OnlyGate(s, [t EXCEPT !.enDelay = d])
BY DEF OnlyGate, SameMemory, SameInput, SameOutput, Settings

(* and the place of the FIFO,                                                 *)
LEMMA PlaceSet ==
  ASSUME NEW s, NEW t, OnlyGate(s, t), NEW v \in 0 .. VfifoSize - 1
  PROVE  OnlyGate(s, [t EXCEPT !.vfifo = v])
BY DEF OnlyGate, SameMemory, SameInput, SameOutput, Settings

(* step by step and around its end,                                           *)
LEMMA Pushed ==
  ASSUME NEW s, NEW t, OnlyGate(s, t)
  PROVE  OnlyGate(s, Push(t)) /\ OnlyGate(s, Pull(t))
<1>1. t.vfifo \in 0 .. VfifoSize - 1
  BY DEF OnlyGate, Settings
<1>2. (t.vfifo + 1) % VfifoSize \in 0 .. VfifoSize - 1
      /\ (t.vfifo + VfifoSize - 1) % VfifoSize \in 0 .. VfifoSize - 1
  BY <1>1, Constants
<1>3. OnlyGate(s, [t EXCEPT !.vfifo = (t.vfifo + 1) % VfifoSize])
  BY <1>2, PlaceSet, Zenon
<1>4. OnlyGate(s, [t EXCEPT !.vfifo = (t.vfifo + VfifoSize - 1) % VfifoSize])
  BY <1>2, PlaceSet, Zenon
<1> QED
  BY <1>3, <1>4, Zenon DEF Push, Pull

(* or nothing.                                                                *)
LEMMA Unmoved ==
  ASSUME NEW s \in Settings
  PROVE  OnlyGate(s, s) /\ OnlyInput(s, s) /\ OnlyOutput(s, s)
BY DEF OnlyGate, OnlyInput, OnlyOutput, SameMemory, SameGate, SameInput, SameOutput

-----------------------------------------------------------------------------
(* The gate search: it moves the gate only, within its registers, and says it *)
(* has found it where reads show the bits that are in their windows.          *)
EnGoes ==
  /\ OnlyGate(phy, phy') /\ en' \in Search /\ step' \in EnStep
  /\ dtaps' \in Int /\ result' \in BOOLEAN
  /\ GateSearch'
  /\ step' = "en_return" /\ result' => Reads(phy')
  /\ UNCHANGED <<board, gbl>>

(* The taps that span a phase fit in the chain of the enable.                 *)
LEMMA TapsType == PhaseMax + 1 \in Nat /\ DtapsPerPtap \in Nat /\ DtapsPerPtap <= EnDelayMax
BY PhaseInTaps, Constants

(* The locals of the search keep their types when these fields are set.       *)
LEMMA SearchSet ==
  ASSUME NEW e \in Search
  PROVE  /\ \A v \in Nat, f \in Nat : [e EXCEPT !.v = v, !.fails = f] \in Search
         /\ \A p \in 0 .. PhaseMax : [e EXCEPT !.p = p] \in Search
         /\ \A d \in Nat : [e EXCEPT !.d = d] \in Search
         /\ \A i \in Nat : [e EXCEPT !.i = i] \in Search
         /\ \A b \in Int, c \in Int : [e EXCEPT !.bgn = b, !.end = c] \in Search
         /\ \A i \in Nat, p \in 0 .. PhaseMax : [e EXCEPT !.i = i, !.p = p] \in Search
         /\ \A i \in Nat, p \in 0 .. PhaseMax, d \in Nat :
              [e EXCEPT !.i = i, !.p = p, !.d = d] \in Search
         /\ \A p \in 0 .. PhaseMax, b \in Int, c \in Int, t \in Int :
              [e EXCEPT !.p = p, !.bgn = b, !.end = c, !.tmp = t] \in Search
         /\ \A p \in 0 .. PhaseMax, b \in Int, c \in Int, d \in Nat, t \in Int, f \in BOOLEAN :
              [e EXCEPT !.p = p, !.bgn = b, !.end = c, !.d = d, !.tmp = t, !.first = f] \in Search
         /\ \A d \in Nat, t \in Int : [e EXCEPT !.d = d, !.tmp = t] \in Search
         /\ \A p \in 0 .. PhaseMax, c \in Int, d \in Nat, f \in BOOLEAN :
              [e EXCEPT !.p = p, !.end = c, !.d = d, !.first = f] \in Search
         /\ \A p \in 0 .. PhaseMax, c \in Int, f \in BOOLEAN :
              [e EXCEPT !.p = p, !.end = c, !.first = f] \in Search
         /\ \A c \in Int, f \in BOOLEAN, b \in Int :
              [e EXCEPT !.end = c, !.first = f, !.bgn = b] \in Search
         /\ \A p \in 0 .. PhaseMax, i \in Nat : [e EXCEPT !.p = p, !.i = i] \in Search
         /\ \A d \in Nat, c \in Int : [e EXCEPT !.d = d, !.end = c] \in Search
         /\ \A c \in Int, n \in Nat : [e EXCEPT !.end = c, !.from = n] \in Search
BY DEF Search

(* The locals with which the search of the gate begins.                       *)
LEMMA SearchIdle == EnIdle \in Search /\ [EnIdle EXCEPT !.p = 1] \in Search
                    /\ [EnIdle EXCEPT !.p = 1].p = 1 /\ [EnIdle EXCEPT !.p = 1].d = 0
<1>1. 0 \in 0 .. PhaseMax /\ 1 \in 0 .. PhaseMax /\ FALSE \in BOOLEAN
  BY Constants
<1>2. EnIdle \in Search
  BY <1>1 DEF EnIdle, Search
<1>3. [EnIdle EXCEPT !.p = 1] \in Search
  BY <1>1, <1>2, SearchSet, Zenon
<1> QED
  BY <1>2, <1>3 DEF EnIdle

(* A read test passes only when the gate is open.                             *)
LEMMA PassingReads ==
  ASSUME NEW s, Passes(s)
  PROVE  Reads(s)
BY DEF Passes, ReadBits, Captured, Aligned, Reads

(* The time of a setting after the first one is positive, one phase earlier   *)
(* too.                                                                       *)
LEMMA TimeElapsed ==
  ASSUME NEW i \in Nat, NEW p \in 1 .. PhaseMax, NEW d \in Nat
  PROVE  /\ Elapsed(i, p, d) \in Nat /\ Elapsed(i, p, d) > 0
         /\ p > 1 => Elapsed(i, p, d) - OpaTap > 0
<1> DEFINE a == i * (PhaseMax + 1)
           b == a * OpaTap
           c == p * OpaTap
           t == d * EnTap
<1>1. a \in Nat /\ OpaTap \in Nat \ {0} /\ EnTap \in Nat \ {0} /\ p \in Nat \ {0}
  BY Constants, TapsType
<1>2. b \in Nat /\ c \in Nat /\ t \in Nat /\ c >= OpaTap
  BY <1>1
<1>3. p > 1 => c >= 2 * OpaTap
  BY <1>1
<1>4. (a + p) * OpaTap = b + c
  BY <1>1
<1>5. Elapsed(i, p, d) = b + c + t
  BY <1>4 DEF Elapsed
<1> HIDE DEF a, b, c, t
<1> QED
  BY <1>1, <1>2, <1>3, <1>5

(* A search that goes on to another step, with locals that this step may      *)
(* have,                                                                      *)
LEMMA GotoGoes ==
  ASSUME TypeOK, UNCHANGED <<board, gbl>>, dtaps' \in Int,
         NEW next \in EnStep \ {"en_return"}, NEW s, OnlyGate(phy, s),
         NEW l \in Search, EnReady(next, l), EnGoto(next, s, l)
  PROVE  EnGoes
<1>1. step' = next /\ phy' = s /\ en' = l /\ result' = result /\ result \in BOOLEAN
  BY DEF EnGoto, TypeOK
<1>2. GateSearch'
  BY <1>1 DEF GateSearch
<1> QED
  BY <1>1, <1>2 DEF EnGoes

(* and one that returns, where it may say that it passed only with the gate   *)
(* open.                                                                      *)
LEMMA ReturnGoes ==
  ASSUME TypeOK, UNCHANGED <<board, gbl>>, dtaps' \in Int,
         NEW s, OnlyGate(phy, s), NEW ok \in BOOLEAN, ok => Reads(s), EnReturn(ok, s)
  PROVE  EnGoes
<1>1. step' = "en_return" /\ phy' = s /\ en' = EnIdle /\ result' = ok
  BY DEF EnReturn
<1>2. GateSearch'
  BY <1>1 DEF GateSearch, EnReady
<1> QED
  BY <1>1, <1>2, SearchIdle DEF EnGoes, EnStep

(* Each step of the search keeps what it needs: the search for a failing      *)
(* read,                                                                      *)
LEMMA SeekFailGoes == ASSUME TypeOK, GateSearch, EnSeekFail PROVE EnGoes
<1> DEFINE fails == IF Passes(phy) THEN en.fails ELSE en.fails + 1
           n     == [en EXCEPT !.v = @ + 1, !.fails = fails]
<1>1. OnlyGate(phy, phy) /\ OnlyGate(phy, Push(phy))
  BY Unmoved, Pushed DEF TypeOK
<1>2. n \in Search
  <2>1. en \in Search /\ en.v + 1 \in Nat /\ fails \in Nat
    BY DEF TypeOK, Search
  <2> HIDE DEF fails
  <2> QED
    BY <2>1, SearchSet
<1>3. step = "en_fail" /\ UNCHANGED <<board, gbl, dtaps>>
      /\ \/ EnGoto("en_begin", phy, [EnIdle EXCEPT !.p = 1])
         \/ EnGoto("en_fail", Push(phy), n)
         \/ EnReturn(FALSE, Push(phy))
  BY Zenon DEF EnSeekFail
<1> HIDE DEF n
<1>4. CASE EnGoto("en_begin", phy, [EnIdle EXCEPT !.p = 1])
  <2>1. EnReady("en_begin", [EnIdle EXCEPT !.p = 1])
    BY SearchIdle, TapsType DEF EnReady
  <2> QED
    BY <1>1, <1>3, <1>4, <2>1, SearchIdle, GotoGoes DEF EnStep, TypeOK
<1>5. CASE EnGoto("en_fail", Push(phy), n)
  BY <1>1, <1>2, <1>3, <1>5, GotoGoes DEF EnReady, EnStep, TypeOK
<1>6. CASE EnReturn(FALSE, Push(phy))
  BY <1>1, <1>3, <1>6, ReturnGoes DEF TypeOK
<1> QED
  BY <1>3, <1>4, <1>5, <1>6

(* for the first passing one,                                                 *)
LEMMA SeekBeginGoes == ASSUME TypeOK, GateSearch, EnSeekBegin PROVE EnGoes
<1> DEFINE s  == [phy EXCEPT !.enPhase = en.p, !.enDelay = en.d]
           at == Elapsed(en.i, en.p, en.d)
           q  == IF en.p = 1 THEN 1 ELSE en.p - 1
           l  == [en EXCEPT !.p = q, !.bgn = at, !.end = at,
                            !.tmp = IF en.p = 1 THEN at ELSE at - OpaTap]
           r  == [en EXCEPT !.bgn = at, !.end = at]
           n  == [en EXCEPT !.p = @ + 1]
           m  == [en EXCEPT !.i = @ + 1, !.p = 1]
           k  == [en EXCEPT !.i = 0, !.p = 1, !.d = @ + 1]
<1>1. /\ step = "en_begin" /\ UNCHANGED <<board, gbl, dtaps>>
      /\ en \in Search /\ phy \in Settings
      /\ en.p \in 1 .. PhaseMax /\ en.d \in 0 .. DtapsPerPtap /\ en.d \in 0 .. EnDelayMax
      /\ en.i \in Nat /\ en.d \in Nat
  <2>1. step = "en_begin" /\ UNCHANGED <<board, gbl, dtaps>> /\ en \in Search
        /\ phy \in Settings
    BY DEF EnSeekBegin, TypeOK
  <2>2. en.p \in 0 .. PhaseMax /\ en.i \in Nat /\ en.d \in Nat
    BY <2>1 DEF Search
  <2>3. en.p >= 1 /\ en.d <= DtapsPerPtap
    BY <2>1 DEF GateSearch, EnReady
  <2> QED
    BY <2>1, <2>2, <2>3, TapsType, Constants
<1>2. at \in Nat /\ at > 0 /\ (en.p # 1 => at - OpaTap > 0)
  <2>1. at \in Nat /\ at > 0 /\ (en.p > 1 => at - OpaTap > 0)
    BY <1>1, TimeElapsed, Zenon
  <2> HIDE DEF at
  <2> QED
    BY <1>1, <2>1
<1>3. OnlyGate(phy, s) /\ OnlyGate(phy, Push(s))
  <2>1. phy \in Settings /\ en.p \in 0 .. PhaseMax
    BY <1>1 DEF TypeOK
  <2>2. OnlyGate(phy, [phy EXCEPT !.enPhase = en.p])
    BY <2>1, Unmoved, PhaseSet
  <2>3. OnlyGate(phy, [[phy EXCEPT !.enPhase = en.p] EXCEPT !.enDelay = en.d])
    BY <1>1, <2>2, TapSet, Zenon
  <2>4. OnlyGate(phy, s)
    BY <2>3
  <2> QED
    BY <2>4, Pushed, Zenon
<1>4. q \in 1 .. PhaseMax /\ q \in 0 .. PhaseMax
  BY <1>1, Constants
<1>5. OnlyGate(phy, [s EXCEPT !.enPhase = q])
  BY <1>3, <1>4, PhaseSet, Zenon
<1> HIDE DEF s, at, q
<1>6. \/ Passes(s) /\ en.d = 0 /\ EnGoto("en_left", [s EXCEPT !.enPhase = q], l)
      \/ Passes(s) /\ en.d > 0 /\ EnGoto("en_right", s, r)
      \/ en.p < PhaseMax /\ EnGoto("en_begin", s, n)
      \/ EnGoto("en_begin", Push(s), m)
      \/ en.d < DtapsPerPtap /\ EnGoto("en_begin", Push(s), k)
      \/ EnReturn(FALSE, Push(s))
  BY Zenon DEF EnSeekBegin, s, at, q
<1>7. CASE Passes(s) /\ en.d = 0 /\ EnGoto("en_left", [s EXCEPT !.enPhase = q], l)
  <2> DEFINE t == IF en.p = 1 THEN at ELSE at - OpaTap
  <2>1. t \in Int /\ t > 0 /\ at \in Int
    BY <1>1, <1>2, Constants
  <2> HIDE DEF t
  <2>2. [en EXCEPT !.p = q, !.bgn = at, !.end = at, !.tmp = t] \in Search
    BY <1>1, <1>4, <2>1, SearchSet, Zenon
  <2>3. l.p = q /\ l.bgn = at /\ l.end = at /\ l.tmp = t
    BY <1>1 DEF Search, t
  <2>4. l \in Search /\ l.p = q /\ l.bgn > 0 /\ l.end > 0 /\ l.tmp > 0
    BY <1>2, <2>1, <2>2, <2>3 DEF t
  <2> HIDE DEF l
  <2> QED
    BY <1>1, <1>4, <1>5, <1>7, <2>4, GotoGoes DEF EnReady, EnStep, TypeOK
<1>8. CASE Passes(s) /\ en.d > 0 /\ EnGoto("en_right", s, r)
  <2>1. r \in Search /\ r.p = en.p /\ r.bgn > 0
    <3>1. at \in Int /\ r.p = en.p /\ r.bgn = at
      BY <1>1, <1>2 DEF Search
    <3> QED
      BY <1>1, <1>2, <3>1, SearchSet
  <2> HIDE DEF r
  <2> QED
    BY <1>1, <1>3, <1>8, <2>1, GotoGoes DEF EnReady, EnStep, TypeOK
<1>9. CASE en.p < PhaseMax /\ EnGoto("en_begin", s, n)
  <2>1. n \in Search /\ n.p >= 1 /\ n.d <= DtapsPerPtap
    <3>1. en.p + 1 \in 0 .. PhaseMax /\ n.p = en.p + 1 /\ n.d = en.d
      BY <1>1, <1>9, Constants DEF Search
    <3>2. n \in Search
      BY <1>1, <3>1, SearchSet, Zenon
    <3> HIDE DEF n
    <3> QED
      BY <1>1, <3>1, <3>2, Constants
  <2> HIDE DEF n
  <2> QED
    BY <1>1, <1>3, <1>9, <2>1, GotoGoes DEF EnReady, EnStep, TypeOK
<1>10. CASE EnGoto("en_begin", Push(s), m)
  <2>1. m \in Search /\ m.p >= 1 /\ m.d <= DtapsPerPtap
    <3>1. en.i + 1 \in Nat /\ 1 \in 0 .. PhaseMax /\ m.p = 1 /\ m.d = en.d
      BY <1>1, Constants DEF Search
    <3>2. m \in Search
      BY <1>1, <3>1, SearchSet, Zenon
    <3> HIDE DEF m
    <3> QED
      BY <1>1, <3>1, <3>2, Constants
  <2> HIDE DEF m
  <2> QED
    BY <1>1, <1>3, <1>10, <2>1, GotoGoes DEF EnReady, EnStep, TypeOK
<1>11. CASE en.d < DtapsPerPtap /\ EnGoto("en_begin", Push(s), k)
  <2>1. k \in Search /\ k.p >= 1 /\ k.d <= DtapsPerPtap
    <3>1. en.d + 1 \in Nat /\ 1 \in 0 .. PhaseMax /\ k.p = 1 /\ k.d = en.d + 1
      BY <1>1, Constants DEF Search
    <3>2. k \in Search
      BY <1>1, <3>1, SearchSet, Zenon
    <3> HIDE DEF k
    <3> QED
      BY <1>11, TapsType, <1>1, <3>1, <3>2, Constants
  <2> HIDE DEF k
  <2> QED
    BY <1>1, <1>3, <1>11, <2>1, GotoGoes DEF EnReady, EnStep, TypeOK
<1>12. CASE EnReturn(FALSE, Push(s))
  BY <1>1, <1>3, <1>12, ReturnGoes DEF TypeOK
<1> QED
  BY <1>6, <1>7, <1>8, <1>9, <1>10, <1>11, <1>12

(* the way forward to the end of the window,                                  *)
LEMMA ForwardGoes ==
  ASSUME TypeOK, UNCHANGED <<board, gbl, dtaps>>, en.end > 0,
         NEW s, OnlyGate(phy, s), NEW bgn \in Int, bgn > 0, EnForward(s, bgn)
  PROVE  EnGoes
<1> DEFINE p == en.p + 2
           t == IF p > PhaseMax THEN Push(s) ELSE s
           q == p % (PhaseMax + 1)
           c == en.end + OpaTap
           l == [en EXCEPT !.p = q, !.bgn = bgn, !.end = c, !.d = 0, !.tmp = 0, !.first = TRUE]
<1>1. en \in Search /\ dtaps \in Int
  BY DEF TypeOK
<1>2. en.p \in Nat /\ en.end \in Int
  BY <1>1, Constants DEF Search
<1>3. q \in 0 .. PhaseMax /\ c \in Int /\ c > 0 /\ 0 \in Nat /\ 0 \in Int
      /\ 0 \in 0 .. EnDelayMax /\ TRUE \in BOOLEAN
  BY <1>2, Constants
<1>4. OnlyGate(phy, t)
  BY Pushed, Zenon
<1>5. OnlyGate(phy, [t EXCEPT !.enDelay = 0])
  BY <1>3, <1>4, TapSet, Zenon
<1>6. EnGoto("en_end", [t EXCEPT !.enDelay = 0], l)
  BY Zenon DEF EnForward
<1> HIDE DEF q, c, t
<1>7. l \in Search
  BY <1>1, <1>3, SearchSet, Zenon
<1>8. l.bgn = bgn /\ l.end = c
  BY <1>1 DEF Search
<1> HIDE DEF l
<1>9. EnReady("en_end", l)
  BY <1>3, <1>8 DEF EnReady
<1> QED
  BY <1>1, <1>5, <1>6, <1>7, <1>9, GotoGoes DEF EnStep

(* the exact left edge,                                                       *)
LEMMA SeekLeftGoes == ASSUME TypeOK, GateSearch, EnSeekLeft PROVE EnGoes
<1> DEFINE s == [phy EXCEPT !.enDelay = en.d]
           l == [en EXCEPT !.d = @ + 1, !.tmp = @ + EnTap]
<1>1. /\ step = "en_left" /\ UNCHANGED <<board, gbl, dtaps>> /\ en \in Search
      /\ phy \in Settings /\ dtaps \in Int
  BY DEF EnSeekLeft, TypeOK
<1>2. en.d \in Nat /\ en.tmp \in Int /\ en.bgn \in Int /\ en.p \in Int /\ en.end \in Int
  BY <1>1 DEF Search
<1>3. en.p >= 1 /\ en.tmp > 0 /\ en.end > 0 /\ en.bgn > 0
  BY <1>1 DEF GateSearch, EnReady
<1>4. OnlyGate(phy, phy)
  BY <1>1, Unmoved
<1>5. ASSUME en.d <= EnDelayMax PROVE OnlyGate(phy, s)
  <2>1. en.d \in 0 .. EnDelayMax
    BY <1>2, <1>5, Constants
  <2> QED
    BY <1>4, <2>1, TapSet, Zenon
<1>6. \/ en.d <= EnDelayMax /\ EnGoto("en_left", s, l)
      \/ en.d <= EnDelayMax /\ EnForward(s, en.tmp)
      \/ EnForward(phy, en.bgn)
  BY Zenon DEF EnSeekLeft
<1>7. CASE en.d <= EnDelayMax /\ EnGoto("en_left", s, l)
  <2>1. en.d + 1 \in Nat /\ en.tmp + EnTap \in Int /\ en.tmp + EnTap > 0
    BY <1>2, <1>3, Constants
  <2>2. l \in Search
    BY <1>1, <2>1, SearchSet, Zenon
  <2>3. l.p = en.p /\ l.tmp = en.tmp + EnTap /\ l.end = en.end /\ l.bgn = en.bgn
    BY <1>1 DEF Search
  <2> HIDE DEF l, s
  <2>4. EnReady("en_left", l)
    BY <1>3, <2>1, <2>3 DEF EnReady
  <2> QED
    BY <1>1, <1>5, <1>7, <2>2, <2>4, GotoGoes DEF EnStep
<1>8. CASE en.d <= EnDelayMax /\ EnForward(s, en.tmp)
  BY <1>1, <1>2, <1>3, <1>5, <1>8, ForwardGoes
<1>9. CASE EnForward(phy, en.bgn)
  BY <1>1, <1>2, <1>3, <1>4, <1>9, ForwardGoes
<1> QED
  BY <1>6, <1>7, <1>8, <1>9

(* the way back to the last phase that passed, never before phase 0,          *)
LEMMA BackOffGoes ==
  ASSUME TypeOK, UNCHANGED <<board, gbl, dtaps>>, en.bgn > 0, en.p > 0,
         NEW s, OnlyGate(phy, s), EnBackOff(s)
  PROVE  EnGoes
<1> DEFINE c == en.end - 2 * OpaTap
           b == en.end - OpaTap
           l == [en EXCEPT !.p = PhaseMax, !.end = c, !.d = 0, !.first = FALSE]
           m == [en EXCEPT !.p = en.p - 1, !.end = b, !.d = 0, !.first = FALSE]
<1>1. en \in Search /\ dtaps \in Int /\ FALSE \in BOOLEAN /\ 0 \in Nat
  BY DEF TypeOK
<1>2. en.p \in 0 .. PhaseMax /\ en.end \in Int
  BY <1>1 DEF Search
<1>3. PhaseMax \in 0 .. PhaseMax /\ PhaseMax >= 1 /\ c \in Int /\ b \in Int
  BY <1>2, Constants
<1>4. CASE en.p = 1
  <2>1. EnGoto("en_right", [Pull(s) EXCEPT !.enPhase = PhaseMax], l)
    BY <1>4, Zenon DEF EnBackOff
  <2>2. OnlyGate(phy, [Pull(s) EXCEPT !.enPhase = PhaseMax])
    BY <1>3, Pushed, PhaseSet, Zenon
  <2> HIDE DEF c
  <2>3. l \in Search
    BY <1>1, <1>3, SearchSet, Zenon
  <2>4. l.p = PhaseMax /\ l.bgn = en.bgn
    BY <1>1 DEF Search
  <2> HIDE DEF l
  <2>5. EnReady("en_right", l)
    BY <1>3, <2>4 DEF EnReady
  <2> QED
    BY <1>1, <2>1, <2>2, <2>3, <2>5, GotoGoes DEF EnStep
<1>5. CASE en.p # 1
  <2>0. en.p - 1 \in 0 .. PhaseMax /\ en.p - 1 >= 1
    BY <1>2, <1>5, Constants
  <2>1. EnGoto("en_right", [s EXCEPT !.enPhase = en.p - 1], m)
    BY <1>5, Zenon DEF EnBackOff
  <2>2. OnlyGate(phy, [s EXCEPT !.enPhase = en.p - 1])
    BY <2>0, PhaseSet, Zenon
  <2> HIDE DEF b
  <2>3. m \in Search
    BY <1>1, <1>3, <2>0, SearchSet, Zenon
  <2>4. m.p = en.p - 1 /\ m.bgn = en.bgn
    BY <1>1 DEF Search
  <2> HIDE DEF m
  <2>5. EnReady("en_right", m)
    BY <2>0, <2>4 DEF EnReady
  <2> QED
    BY <1>1, <2>1, <2>2, <2>3, <2>5, GotoGoes DEF EnStep
<1> QED
  BY <1>4, <1>5

(* the first phase that fails,                                                *)
LEMMA SeekEndGoes == ASSUME TypeOK, GateSearch, EnSeekEnd PROVE EnGoes
<1> DEFINE s == [phy EXCEPT !.enPhase = en.p]
           c == en.end + OpaTap
           b == IF en.first /\ ~ Passes(s) THEN en.end ELSE en.bgn
           n == [en EXCEPT !.end = c, !.first = FALSE, !.bgn = b]
           l == [en EXCEPT !.p = 1, !.end = c, !.first = FALSE]
           m == [n EXCEPT !.p = en.p + 1]
           k == [n EXCEPT !.p = 0, !.i = en.i + 1]
<1>1. /\ step = "en_end" /\ UNCHANGED <<board, gbl, dtaps>> /\ en \in Search
      /\ phy \in Settings /\ dtaps \in Int
  BY DEF EnSeekEnd, TypeOK
<1>2. en.i \in Nat /\ en.p \in 0 .. PhaseMax /\ en.bgn \in Int /\ en.end \in Int
  BY <1>1 DEF Search
<1>3. en.end > 0 /\ en.bgn > 0
  BY <1>1 DEF GateSearch, EnReady
<1>4. OnlyGate(phy, phy) /\ OnlyGate(phy, s) /\ OnlyGate(phy, Push(s))
  <2>1. OnlyGate(phy, phy)
    BY <1>1, Unmoved
  <2>2. OnlyGate(phy, s)
    BY <1>2, <2>1, PhaseSet, Zenon
  <2> QED
    BY <2>1, <2>2, Pushed, Zenon
<1>5. c \in Int /\ c > 0 /\ b \in Int /\ b > 0 /\ 1 \in 0 .. PhaseMax /\ 0 \in 0 .. PhaseMax
      /\ FALSE \in BOOLEAN /\ en.i + 1 \in Nat
  BY <1>2, <1>3, Constants
<1>6. n \in Search /\ n.bgn = b /\ n.end = c /\ n.p = en.p /\ n.i = en.i
  <2> HIDE DEF c, b
  <2>1. n \in Search
    BY <1>1, <1>5, SearchSet, Zenon
  <2> QED
    BY <1>1, <2>1 DEF Search
<1>7. \/ EnGoto("en_end", phy, l)
      \/ en.p > 0 /\ EnBackOff(s)
      \/ en.p < PhaseMax /\ EnGoto("en_end", s, [n EXCEPT !.p = @ + 1])
      \/ EnGoto("en_end", Push(s), [n EXCEPT !.p = 0, !.i = @ + 1])
      \/ EnReturn(FALSE, Push(s))
  BY Zenon DEF EnSeekEnd
<1> HIDE DEF c, b, n, s
<1>8. CASE EnGoto("en_end", phy, l)
  <2>1. l \in Search
    BY <1>1, <1>5, SearchSet, Zenon
  <2>2. l.end = c /\ l.bgn = en.bgn
    BY <1>1 DEF Search
  <2> HIDE DEF l
  <2>3. EnReady("en_end", l)
    BY <1>3, <1>5, <2>2 DEF EnReady
  <2> QED
    BY <1>1, <1>4, <1>8, <2>1, <2>3, GotoGoes DEF EnStep
<1>9. CASE en.p > 0 /\ EnBackOff(s)
  BY <1>1, <1>3, <1>4, <1>9, BackOffGoes
<1>10. CASE en.p < PhaseMax /\ EnGoto("en_end", s, [n EXCEPT !.p = @ + 1])
  <2>1. en.p + 1 \in 0 .. PhaseMax
    BY <1>2, <1>10, Constants
  <2>2. m \in Search
    BY <1>6, <2>1, SearchSet, Zenon
  <2>3. m.end = c /\ m.bgn = b /\ m = [n EXCEPT !.p = @ + 1]
    BY <1>6 DEF Search
  <2> HIDE DEF m
  <2>4. EnReady("en_end", m)
    BY <1>5, <2>3 DEF EnReady
  <2> QED
    BY <1>1, <1>4, <1>10, <2>2, <2>3, <2>4, GotoGoes DEF EnStep
<1>11. CASE EnGoto("en_end", Push(s), [n EXCEPT !.p = 0, !.i = @ + 1])
  <2>2. k \in Search
    BY <1>5, <1>6, SearchSet, Zenon
  <2>3. k.end = c /\ k.bgn = b /\ k = [n EXCEPT !.p = 0, !.i = @ + 1]
    BY <1>6 DEF Search
  <2> HIDE DEF k
  <2>4. EnReady("en_end", k)
    BY <1>5, <2>3 DEF EnReady
  <2> QED
    BY <1>1, <1>4, <1>11, <2>2, <2>3, <2>4, GotoGoes DEF EnStep
<1>12. CASE EnReturn(FALSE, Push(s))
  BY <1>1, <1>4, <1>12, ReturnGoes
<1> QED
  BY <1>7, <1>8, <1>9, <1>10, <1>11, <1>12

(* the last tap that passes,                                                  *)
LEMMA SeekRightGoes == ASSUME TypeOK, GateSearch, EnSeekRight PROVE EnGoes
<1> DEFINE s == [phy EXCEPT !.enDelay = en.d]
           t == IF en.d <= EnDelayMax THEN s ELSE phy
           c == IF en.d # 0 THEN en.end - EnTap ELSE en.end
           n == [en EXCEPT !.end = c, !.from = en.d]
           r == [en EXCEPT !.d = @ + 1, !.end = @ + EnTap]
           k == [n EXCEPT !.p = PhaseMax]
           m == [n EXCEPT !.p = en.p - 1]
<1>1. /\ step = "en_right" /\ UNCHANGED <<board, gbl, dtaps>> /\ en \in Search
      /\ phy \in Settings /\ dtaps \in Int
  BY DEF EnSeekRight, TypeOK
<1>2. en.d \in Nat /\ en.p \in 0 .. PhaseMax /\ en.bgn \in Int /\ en.end \in Int
  BY <1>1 DEF Search
<1>3. en.p >= 1 /\ en.bgn > 0
  BY <1>1 DEF GateSearch, EnReady
<1>4. OnlyGate(phy, phy)
  BY <1>1, Unmoved
<1>5. ASSUME en.d <= EnDelayMax PROVE OnlyGate(phy, s)
  <2>1. en.d \in 0 .. EnDelayMax
    BY <1>2, <1>5, Constants
  <2> QED
    BY <1>4, <2>1, TapSet, Zenon
<1>6. OnlyGate(phy, t)
  BY <1>4, <1>5, Zenon
<1>7. c \in Int /\ en.d + 1 \in Nat /\ en.end + EnTap \in Int /\ PhaseMax \in 0 .. PhaseMax
  BY <1>2, Constants
<1>8. \/ en.d <= EnDelayMax /\ EnGoto("en_right", s, r)
      \/ EnReturn(FALSE, t)
      \/ c >= en.bgn /\ EnGoto("en_repass", [Pull(t) EXCEPT !.enPhase = PhaseMax],
                               [n EXCEPT !.p = PhaseMax])
      \/ c >= en.bgn /\ en.p \notin {0, 1}
           /\ EnGoto("en_repass", [t EXCEPT !.enPhase = en.p - 1], [n EXCEPT !.p = @ - 1])
  BY Zenon DEF EnSeekRight
<1>9. n \in Search /\ n.end = c /\ n.bgn = en.bgn /\ n.p = en.p
  <2> HIDE DEF c
  <2>1. n \in Search
    BY <1>1, <1>2, <1>7, SearchSet, Zenon
  <2> QED
    BY <1>1, <2>1 DEF Search
<1> HIDE DEF c, n, t
<1>10. CASE en.d <= EnDelayMax /\ EnGoto("en_right", s, r)
  <2>1. r \in Search
    BY <1>1, <1>7, SearchSet, Zenon
  <2>2. r.p = en.p /\ r.bgn = en.bgn
    BY <1>1 DEF Search
  <2> HIDE DEF r, s
  <2>3. EnReady("en_right", r)
    BY <1>3, <2>2 DEF EnReady
  <2> QED
    BY <1>1, <1>5, <1>10, <2>1, <2>3, GotoGoes DEF EnStep
<1>11. CASE EnReturn(FALSE, t)
  BY <1>1, <1>6, <1>11, ReturnGoes
<1>12. CASE c >= en.bgn /\ EnGoto("en_repass", [Pull(t) EXCEPT !.enPhase = PhaseMax],
                                  [n EXCEPT !.p = PhaseMax])
  <2>1. k \in Search
    BY <1>7, <1>9, SearchSet, Zenon
  <2>2. k.bgn = en.bgn /\ k.end = c
    BY <1>9 DEF Search
  <2>3. OnlyGate(phy, [Pull(t) EXCEPT !.enPhase = PhaseMax])
    BY <1>6, <1>7, Pushed, PhaseSet, Zenon
  <2>4. EnGoto("en_repass", [Pull(t) EXCEPT !.enPhase = PhaseMax], k)
    BY <1>12
  <2> HIDE DEF k
  <2>5. EnReady("en_repass", k)
    BY <1>3, <1>12, <2>2 DEF EnReady
  <2> QED
    BY <1>1, <2>1, <2>3, <2>4, <2>5, GotoGoes DEF EnStep
<1>13. CASE c >= en.bgn /\ en.p \notin {0, 1}
            /\ EnGoto("en_repass", [t EXCEPT !.enPhase = en.p - 1], [n EXCEPT !.p = @ - 1])
  <2>0. en.p - 1 \in 0 .. PhaseMax
    BY <1>2, <1>13, Constants
  <2>1. m \in Search
    BY <1>9, <2>0, SearchSet, Zenon
  <2>2. m.bgn = en.bgn /\ m.end = c /\ m = [n EXCEPT !.p = @ - 1]
    BY <1>9 DEF Search
  <2>3. OnlyGate(phy, [t EXCEPT !.enPhase = en.p - 1])
    BY <1>6, <2>0, PhaseSet, Zenon
  <2> HIDE DEF m
  <2>5. EnReady("en_repass", m)
    BY <1>3, <1>13, <2>2 DEF EnReady
  <2> QED
    BY <1>1, <1>13, <2>1, <2>2, <2>3, <2>5, GotoGoes DEF EnStep
<1> QED
  BY <1>8, <1>10, <1>11, <1>12, <1>13

(* The middle of what lies after time 0 is split into a phase and a tap that  *)
(* both exist.                                                                *)
LEMMA MiddleSplit ==
  ASSUME NEW work \in 1 .. Period
  PROVE  LET p == SmallestOf({ q \in 0 .. PhaseMax + 1 : q = PhaseMax + 1 \/ q * OpaTap >= work })
             d == SmallestOf({ t \in 0 .. EnDelayMax + 1 :
                                 t = EnDelayMax + 1 \/ (p - 1) * OpaTap + t * EnTap >= work })
         IN  p \in 1 .. PhaseMax + 1 /\ d \in 0 .. EnDelayMax
<1> DEFINE S == { q \in 0 .. PhaseMax + 1 : q = PhaseMax + 1 \/ q * OpaTap >= work }
           p == SmallestOf(S)
           T == { t \in 0 .. EnDelayMax + 1 :
                    t = EnDelayMax + 1 \/ (p - 1) * OpaTap + t * EnTap >= work }
           d == SmallestOf(T)
<1>1. PhaseMax \in Nat /\ OpaTap \in Nat \ {0} /\ EnTap \in Nat \ {0} /\ EnDelayMax \in Nat
      /\ Period \in Nat /\ Period = (PhaseMax + 1) * OpaTap
  BY Constants DEF Period
<1>2. S \subseteq Nat /\ PhaseMax + 1 \in S
  BY <1>1
<1>3. p \in S
  BY <1>2, SmallestIsLeast
<1>4. work \in Nat /\ work >= 1 /\ work <= (PhaseMax + 1) * OpaTap
  BY <1>1
<1>5. p \in 0 .. PhaseMax + 1 /\ p * OpaTap >= work
  <2> HIDE DEF p
  <2>1. p \in 0 .. PhaseMax + 1 /\ (p = PhaseMax + 1 \/ p * OpaTap >= work)
    BY <1>3
  <2> QED
    BY <1>1, <1>4, <2>1
<1>6. p # 0
  <2> HIDE DEF p
  <2> QED
    BY <1>1, <1>4, <1>5
<1>7. p \in 1 .. PhaseMax + 1
  BY <1>1, <1>5, <1>6
<1> HIDE DEF p
<1>8. T \subseteq Nat /\ EnDelayMax + 1 \in T
  BY <1>1
<1>9. d \in T /\ \A t \in T : d <= t
  BY <1>8, SmallestIsLeast, Zenon
<1>10. EnDelayMax \in T
  <2>1. (p - 1) * OpaTap = p * OpaTap - OpaTap
    BY <1>1, <1>7
  <2>2. p * OpaTap \in Int
    BY <1>1, <1>7
  <2>3. EnDelayMax * EnTap \in Int /\ EnDelayMax * EnTap >= OpaTap
    BY <1>1, EnTapsAssumption
  <2>4. (p - 1) * OpaTap + EnDelayMax * EnTap >= work
    BY <1>1, <1>4, <1>5, <2>1, <2>2, <2>3
  <2> QED
    BY <1>1, <2>4
<1>11. d \in Nat /\ d <= EnDelayMax
  BY <1>8, <1>9, <1>10
<1> QED
  BY <1>1, <1>7, <1>11 DEF p

(* the middle of the window, with as many taps as fit in the chain,           *)
LEMMA CentreGoes ==
  ASSUME TypeOK, UNCHANGED <<board, gbl>>, en.bgn > 0, en.end >= en.bgn,
         NEW s, OnlyGate(phy, s), NEW perPtap \in Int, EnCentre(s, perPtap)
  PROVE  EnGoes
<1> DEFINE mid  == (en.bgn + en.end) \div 2
           work == IF mid > Period THEN ((mid - 1) % Period) + 1 ELSE mid
           p    == SmallestOf({ q \in 0 .. PhaseMax + 1 : q = PhaseMax + 1 \/ q * OpaTap >= work })
           d    == SmallestOf({ t \in 0 .. EnDelayMax + 1 :
                                 t = EnDelayMax + 1 \/ (p - 1) * OpaTap + t * EnTap >= work })
           h    == IF p = 1 THEN 1 ELSE p - 1
           k    == IF p = 1 THEN 0 ELSE d
<1>1. en.bgn \in Int /\ en.end \in Int
  BY DEF TypeOK, Search
<1>2. mid \in Nat \ {0}
  BY <1>1
<1>3. Period \in Nat \ {0}
  BY Constants, TapsType DEF Period
<1>4. work \in 1 .. Period
  <2> HIDE DEF mid
  <2>1. mid - 1 \in Nat
    BY <1>2
  <2>2. (mid - 1) % Period \in 0 .. Period - 1
    BY <1>3, <2>1
  <2> QED
    BY <1>2, <1>3, <2>2
<1>5. dtaps' = perPtap
      /\ EnGoto("en_final", [s EXCEPT !.enPhase = h, !.enDelay = k], EnIdle)
  BY Zenon DEF EnCentre
<1> HIDE DEF work
<1>6. p \in 1 .. PhaseMax + 1 /\ d \in 0 .. EnDelayMax
  BY <1>4, MiddleSplit
<1> HIDE DEF p, d
<1>7. h \in 0 .. PhaseMax /\ k \in 0 .. EnDelayMax
  BY <1>6, Constants
<1> HIDE DEF h, k
<1>8. OnlyGate(phy, [s EXCEPT !.enPhase = h])
  BY <1>7, PhaseSet, Zenon
<1>9. OnlyGate(phy, [[s EXCEPT !.enPhase = h] EXCEPT !.enDelay = k])
  BY <1>7, <1>8, TapSet, Zenon
<1>10. OnlyGate(phy, [s EXCEPT !.enPhase = h, !.enDelay = k])
  BY <1>9
<1>11. EnReady("en_final", EnIdle)
  BY DEF EnReady
<1> QED
  BY <1>5, <1>10, <1>11, SearchIdle, GotoGoes DEF EnStep

(* the two searches that measure how many taps span a phase,                  *)
LEMMA RePassGoes ==
  ASSUME TypeOK, GateSearch, EnRePass \/ EnReFail
  PROVE  EnGoes
<1> DEFINE s == [phy EXCEPT !.enDelay = en.d]
           l == [en EXCEPT !.d = @ + 1]
<1>1. /\ step \in {"en_repass", "en_refail"} /\ UNCHANGED <<board, gbl>> /\ en \in Search
      /\ phy \in Settings /\ dtaps \in Int
  BY DEF EnRePass, EnReFail, TypeOK
<1>2. en.d \in Nat /\ en.d + 1 \in Nat /\ en.d - en.from \in Int /\ DtapsPerPtap \in Int
  BY <1>1, TapsType DEF Search
<1>3. en.bgn > 0 /\ en.end >= en.bgn
  BY <1>1 DEF GateSearch, EnReady
<1>4. OnlyGate(phy, phy)
  BY <1>1, Unmoved
<1>5. ASSUME ~ (en.d > EnDelayMax) PROVE OnlyGate(phy, s)
  <2>1. en.d \in 0 .. EnDelayMax
    BY <1>2, <1>5, Constants
  <2> QED
    BY <1>4, <2>1, TapSet, Zenon
<1>6. \/ EnCentre(phy, DtapsPerPtap)
      \/ ~ (en.d > EnDelayMax) /\ EnCentre(s, en.d - en.from)
      \/ /\ ~ (en.d > EnDelayMax) /\ UNCHANGED dtaps
         /\ EnGoto("en_refail", s, l) \/ EnGoto("en_repass", s, l)
  <2>1. CASE EnRePass
    BY <2>1, Zenon DEF EnRePass
  <2>2. CASE EnReFail
    BY <2>2, Zenon DEF EnReFail
  <2> QED
    BY <2>1, <2>2
<1>7. CASE EnCentre(phy, DtapsPerPtap)
  BY <1>1, <1>2, <1>3, <1>4, <1>7, CentreGoes
<1>8. CASE ~ (en.d > EnDelayMax) /\ EnCentre(s, en.d - en.from)
  BY <1>1, <1>2, <1>3, <1>5, <1>8, CentreGoes
<1>9. CASE /\ ~ (en.d > EnDelayMax) /\ UNCHANGED dtaps
           /\ EnGoto("en_refail", s, l) \/ EnGoto("en_repass", s, l)
  <2>1. l \in Search
    BY <1>1, <1>2, SearchSet, Zenon
  <2>2. l.bgn = en.bgn /\ l.end = en.end
    BY <1>1 DEF Search
  <2> HIDE DEF l, s
  <2>3. EnReady("en_repass", l) /\ EnReady("en_refail", l)
    BY <1>3, <2>2 DEF EnReady
  <2> QED
    BY <1>1, <1>5, <1>9, <2>1, <2>3, GotoGoes DEF EnStep
<1> QED
  BY <1>6, <1>7, <1>8, <1>9

(* and the last read test, which decides.                                     *)
LEMMA FinalGoes == ASSUME TypeOK, EnFinal PROVE EnGoes
<1> DEFINE l == [en EXCEPT !.i = @ + 1]
<1>1. /\ UNCHANGED <<board, gbl, dtaps>> /\ en \in Search /\ phy \in Settings /\ dtaps \in Int
  BY DEF EnFinal, TypeOK
<1>2. en.i + 1 \in Nat
  BY <1>1 DEF Search
<1>3. OnlyGate(phy, phy) /\ OnlyGate(phy, Push(phy))
  BY <1>1, Unmoved, Pushed
<1>4. l \in Search
  BY <1>1, <1>2, SearchSet, Zenon
<1> HIDE DEF l
<1>5. \/ Passes(phy) /\ EnReturn(TRUE, phy)
      \/ EnGoto("en_final", Push(phy), l)
      \/ EnReturn(FALSE, Push(phy))
  BY Zenon DEF EnFinal, l
<1>6. CASE Passes(phy) /\ EnReturn(TRUE, phy)
  BY <1>1, <1>3, <1>6, PassingReads, ReturnGoes
<1>7. CASE EnGoto("en_final", Push(phy), l)
  <2>1. EnReady("en_final", l)
    BY DEF EnReady
  <2> QED
    BY <1>1, <1>3, <1>4, <1>7, <2>1, GotoGoes DEF EnStep
<1>8. CASE EnReturn(FALSE, Push(phy))
  BY <1>1, <1>3, <1>8, ReturnGoes
<1> QED
  BY <1>5, <1>6, <1>7, <1>8

(* So does every step of the search of the gate.                              *)
LEMMA SearchGoes ==
  ASSUME TypeOK, GateSearch, FindDqsEnPhase
  PROVE  EnGoes /\ step \in EnStep \ {"en_return"}
<1>1. EnGoes
  BY SeekFailGoes, SeekBeginGoes, SeekLeftGoes, SeekEndGoes, SeekRightGoes, RePassGoes,
     FinalGoes DEF FindDqsEnPhase
<1>2. step \in {"en_fail", "en_begin", "en_left", "en_end", "en_right", "en_repass",
                "en_refail", "en_final"}
  BY DEF FindDqsEnPhase, EnSeekFail, EnSeekBegin, EnSeekLeft, EnSeekEnd, EnSeekRight,
     EnRePass, EnReFail, EnFinal
<1> QED
  BY <1>1, <1>2 DEF EnStep

-----------------------------------------------------------------------------
(* The deskew of the read side: it moves the input side only, within its      *)
(* chains, and records an error only when it fails.                           *)
RdGoes ==
  /\ OnlyInput(phy, phy') /\ rd' \in Edges /\ gbl' \in Globals /\ result' \in BOOLEAN
  /\ step' \in RdStep /\ StrobeInChain'
  /\ UNCHANGED board
  /\ gbl'.readLat = gbl.readLat
  /\ step' \in {"rd_left", "rd_right"} => rd'.useRead = rd.useRead /\ UNCHANGED <<gbl, result>>
  /\ \/ gbl'.stage = gbl.stage
     \/ /\ step' = "rd_return" /\ ~ result' /\ gbl.stage = "NIL"
        /\ gbl'.stage = IF rd.useRead THEN "VFIFO" ELSE "VFIFO_AFTER_WRITES"

(* The deskew of the read side may set the delays of its input.               *)
LEMMA InputSet ==
  ASSUME NEW s, NEW t, OnlyInput(s, t)
  PROVE  /\ \A f \in [DQ -> Tap] : OnlyInput(s, [t EXCEPT !.dqIn = f])
         /\ \A x \in Tap : OnlyInput(s, [t EXCEPT !.dqsIn = x])
         /\ \A f \in [DQ -> Tap], x \in Tap :
              OnlyInput(s, [t EXCEPT !.dqIn = f, !.dqsIn = x])
BY DEF OnlyInput, SameMemory, SameGate, SameOutput, Settings

(* The figure of merit of the read side.                                      *)
LEMMA FomIn ==
  ASSUME NEW g \in Globals, NEW x \in Int
  PROVE  /\ [g EXCEPT !.fomIn = x] \in Globals
         /\ [g EXCEPT !.fomIn = x].stage = g.stage
         /\ [g EXCEPT !.fomIn = x].readLat = g.readLat
BY DEF Globals

(* The deskew of the read side goes on to another step,                       *)
LEMMA RdGotoGoes ==
  ASSUME TypeOK, UNCHANGED board, NEW next \in {"rd_left", "rd_right"},
         NEW s, OnlyInput(phy, s), NEW e \in Edges, e.useRead = rd.useRead,
         next = "rd_right" => e.start + e.d <= DelayMax, RdGoto(next, s, e)
  PROVE  RdGoes
<1>1. /\ step' = next /\ phy' = s /\ rd' = e /\ gbl' = gbl /\ result' = result
      /\ gbl \in Globals /\ result \in BOOLEAN
  BY DEF RdGoto, TypeOK
<1>2. StrobeInChain'
  BY <1>1 DEF StrobeInChain
<1> QED
  BY <1>1, <1>2, Zenon DEF RdGoes, RdStep

(* or returns, where it may record an error only when it failed.              *)
LEMMA RdReturnGoes ==
  ASSUME TypeOK, UNCHANGED board, NEW ok \in BOOLEAN, NEW s, OnlyInput(phy, s),
         NEW g \in Globals, g.readLat = gbl.readLat,
         \/ g.stage = gbl.stage
         \/ /\ ~ ok /\ gbl.stage = "NIL"
            /\ g.stage = IF rd.useRead THEN "VFIFO" ELSE "VFIFO_AFTER_WRITES",
         RdReturn(ok, s, g)
  PROVE  RdGoes
<1>1. step' = "rd_return" /\ phy' = s /\ rd' = RdIdle /\ gbl' = g /\ result' = ok
  BY DEF RdReturn
<1>2. StrobeInChain'
  BY <1>1 DEF StrobeInChain
<1>3. step' \notin {"rd_left", "rd_right"} /\ step' \in RdStep
  BY <1>1 DEF RdStep
<1> QED
  BY <1>1, <1>2, <1>3, NoEdges, Zenon DEF RdGoes

(* Each step keeps the delays in their chains: the search of the left edges,  *)
LEMMA RdSeekLeftGoes == ASSUME TypeOK, RdSeekLeft PROVE RdGoes
<1> DEFINE s      == [phy EXCEPT !.dqIn = [i \in DQ |-> rd.d]]
           bits   == RdBits(s)
           sticky == rd.sticky \cup bits
           stop   == bits = {} /\ sticky = DQ
           seen   == [LeftSeen(rd, bits) EXCEPT !.sticky = sticky]
           e      == LeftDone(IF stop THEN rd ELSE seen)
           both   == { i \in DQ : e.left[i] # Unseen /\ e.right[i] # Unseen }
<1>1. /\ rd \in Edges /\ phy \in Settings /\ UNCHANGED board
      /\ rd.d \in Tap /\ rd.start \in Tap /\ rd.sticky \in SUBSET DQ
      /\ DelayMax \in Nat
  BY Constants DEF TypeOK, RdSeekLeft, Edges
<1>2. [i \in DQ |-> rd.d] \in [DQ -> Tap] /\ [i \in DQ |-> 0] \in [DQ -> Tap]
  BY <1>1, Constants
<1>3. OnlyInput(phy, phy)
  BY <1>1, Unmoved
<1>4. OnlyInput(phy, s) /\ OnlyInput(phy, [s EXCEPT !.dqIn = [i \in DQ |-> 0]])
  BY <1>2, <1>3, InputSet, Zenon
<1>5. bits \in SUBSET DQ
  BY TestsType, Zenon
<1> HIDE DEF s
<1> HIDE DEF bits
<1>6. sticky \in SUBSET DQ
  BY <1>1, <1>5
<1>7. /\ LeftSeen(rd, bits) \in Edges /\ LeftSeen(rd, bits).d = rd.d
      /\ LeftSeen(rd, bits).useRead = rd.useRead
  BY <1>1, <1>5, LeftSeenType
<1>8. seen \in Edges /\ seen.d = rd.d /\ seen.useRead = rd.useRead
  <2>1. seen \in Edges
    BY <1>6, <1>7, EdgesUpdated, Zenon
  <2> HIDE DEF sticky
  <2>2. seen.d = rd.d /\ seen.useRead = rd.useRead
    BY <1>7 DEF Edges
  <2> QED
    BY <2>1, <2>2
<1>9. e \in Edges /\ e.d = 0 /\ e.useRead = rd.useRead
  BY <1>1, <1>8, LeftDoneType
<1>10. both \in SUBSET DQ
  OBVIOUS
<1>11. \/ /\ ~ stop /\ rd.d < DelayMax
          /\ RdGoto("rd_left", s, [seen EXCEPT !.d = @ + 1])
       \/ RdGoto("rd_right", [s EXCEPT !.dqIn = [i \in DQ |-> 0]], [e EXCEPT !.sticky = both])
  BY Zenon DEF RdSeekLeft, s, bits
<1> HIDE DEF sticky, stop, seen, e, both
<1>12. CASE /\ ~ stop /\ rd.d < DelayMax
            /\ RdGoto("rd_left", s, [seen EXCEPT !.d = @ + 1])
  <2> DEFINE n == rd.d + 1
             l == [seen EXCEPT !.d = n]
  <2>1. n \in Tap
    BY <1>1, <1>12 DEF Tap
  <2>2. l = [seen EXCEPT !.d = @ + 1]
    BY <1>8
  <2> HIDE DEF n
  <2>3. l \in Edges
    BY <1>8, <2>1, EdgesUpdated, Zenon
  <2>4. l.useRead = rd.useRead
    BY <1>8 DEF Edges
  <2> HIDE DEF l
  <2>5. RdGoto("rd_left", s, l)
    BY <1>12, <2>2
  <2>6. "rd_left" \in {"rd_left", "rd_right"} /\ ("rd_left" = "rd_right" => l.start + l.d <= DelayMax)
    OBVIOUS
  <2> QED
    BY <1>1, <1>4, <2>3, <2>4, <2>5, <2>6, RdGotoGoes, Zenon
<1>13. CASE RdGoto("rd_right", [s EXCEPT !.dqIn = [i \in DQ |-> 0]],
                   [e EXCEPT !.sticky = both])
  <2> DEFINE l == [e EXCEPT !.sticky = both]
  <2>1. l \in Edges
    BY <1>9, <1>10, EdgesUpdated, Zenon
  <2>2. l.useRead = rd.useRead /\ l.d = 0 /\ l.start \in Tap
    BY <1>9 DEF Edges
  <2>3. "rd_right" \in {"rd_left", "rd_right"} /\ l.start + l.d <= DelayMax
    BY <1>1, <2>2 DEF Tap
  <2> HIDE DEF l
  <2>4. RdGoto("rd_right", [s EXCEPT !.dqIn = [i \in DQ |-> 0]], l)
    BY <1>13 DEF l
  <2> QED
    BY <1>1, <1>4, <2>1, <2>2, <2>3, <2>4, RdGotoGoes, Zenon
<1> QED
  BY <1>11, <1>12, <1>13

(* the settings at the centre,                                                *)
LEMMA RdCentreGoes ==
  ASSUME TypeOK, UNCHANGED board, NEW s, OnlyInput(phy, s), NEW e \in Edges,
         e.useRead = rd.useRead, RdCentre(s, e)
  PROVE  RdGoes
<1> DEFINE missing == { i \in DQ : e.left[i] = Unseen \/ e.right[i] = Unseen }
           moved   == e.start - Clamp(e.start - MidMin(e), 0, DelayMax)
           dq      == DqMargin(e, s.dqIn, moved)
           dqs     == DqsMargin(e, s.dqIn, moved)
           stage   == IF e.useRead THEN "VFIFO" ELSE "VFIFO_AFTER_WRITES"
           at      == [i \in DQ |-> s.dqIn[i] + Shift(e, i, s.dqIn[i], moved)]
           fom     == gbl.fomIn + dq + dqs
<1>1. e.start \in Tap /\ gbl \in Globals /\ gbl.fomIn \in Int /\ s.dqIn \in [DQ -> Tap]
      /\ e.useRead \in BOOLEAN
  BY DEF OnlyInput, Edges, Settings, TypeOK, Globals
<1>2. e.start \in Int /\ 0 \in Int /\ DelayMax \in Int /\ 0 <= DelayMax
  BY <1>1, Constants DEF Tap
<1>3. e.start - MidMin(e) \in Int
  BY <1>2, MidMinType
<1>4. Clamp(e.start - MidMin(e), 0, DelayMax) \in Tap
  BY <1>2, <1>3, ClampType DEF Tap
<1>5. moved \in Int /\ e.start - moved \in Tap
  <2> DEFINE c == Clamp(e.start - MidMin(e), 0, DelayMax)
  <2>1. c \in Tap
    BY <1>4
  <2> HIDE DEF c
  <2>2. e.start - c \in Int /\ e.start - (e.start - c) = c
    BY <1>2, <2>1 DEF Tap
  <2> QED
    BY <2>1, <2>2 DEF c
<1> HIDE DEF moved
<1>6. dq \in Int /\ dqs \in Int
  BY <1>1, <1>5, MarginsType
<1> HIDE DEF dq, dqs
<1>7. fom \in Int
  BY <1>1, <1>6
<1>8. at \in [DQ -> Tap]
  BY <1>1, <1>5, ShiftInChain
<1>9. stage \in Stage /\ stage \in {"VFIFO", "VFIFO_AFTER_WRITES"}
  BY <1>1 DEF Stage
<1>10. \/ /\ missing # {}
          /\ RdReturn(FALSE, [s EXCEPT !.dqsIn = e.start],
                      SetFailing(gbl, SmallestOf(missing), stage, "VFIFO_CENTER"))
       \/ RdReturn(dq >= 0 /\ dqs >= 0, [s EXCEPT !.dqIn = at, !.dqsIn = e.start - moved],
                   IF e.useRead THEN gbl ELSE [gbl EXCEPT !.fomIn = fom])
  <2> HIDE DEF missing, stage, at, fom
  <2>1. /\ missing = { i \in DQ : e.left[i] = Unseen \/ e.right[i] = Unseen }
        /\ at = [i \in DQ |-> s.dqIn[i] + Shift(e, i, s.dqIn[i], moved)]
        /\ fom = gbl.fomIn + dq + dqs
        /\ stage = IF e.useRead THEN "VFIFO" ELSE "VFIFO_AFTER_WRITES"
    BY DEF missing, at, fom, stage
  <2> QED
    BY <2>1, Zenon DEF RdCentre, moved, dq, dqs
<1>11. CASE /\ missing # {}
            /\ RdReturn(FALSE, [s EXCEPT !.dqsIn = e.start],
                        SetFailing(gbl, SmallestOf(missing), stage, "VFIFO_CENTER"))
  <2> DEFINE g == SetFailing(gbl, SmallestOf(missing), stage, "VFIFO_CENTER")
             t == [s EXCEPT !.dqsIn = e.start]
  <2>1. SmallestOf(missing) \in Int
    <3>1. missing \in SUBSET DQ
      OBVIOUS
    <3> QED
      BY <1>11, <3>1, FirstMissing
  <2> DEFINE bit == SmallestOf(missing)
  <2> HIDE DEF missing, bit
  <2> HIDE DEF stage
  <2>2. bit \in Int
    BY <2>1 DEF bit
  <2>3. "VFIFO_CENTER" \in Substage
    BY DEF Substage
  <2>4. /\ SetFailing(gbl, bit, stage, "VFIFO_CENTER") \in Globals
        /\ SetFailing(gbl, bit, stage, "VFIFO_CENTER").readLat = gbl.readLat
        /\ SetFailing(gbl, bit, stage, "VFIFO_CENTER").stage
             = IF gbl.stage = "NIL" THEN stage ELSE gbl.stage
    BY <1>1, <1>9, <2>2, <2>3, SetFailingType
  <2>5. /\ g \in Globals /\ g.readLat = gbl.readLat
        /\ g.stage = IF gbl.stage = "NIL" THEN stage ELSE gbl.stage
    BY <2>4 DEF bit
  <2>6. OnlyInput(phy, t)
    BY <1>1, InputSet, Zenon
  <2>7. RdReturn(FALSE, t, g)
    BY <1>11
  <2> HIDE DEF g, t
  <2>8. \/ g.stage = gbl.stage
        \/ /\ ~ FALSE /\ gbl.stage = "NIL"
           /\ g.stage = IF rd.useRead THEN "VFIFO" ELSE "VFIFO_AFTER_WRITES"
    BY <2>5 DEF stage
  <2>9. FALSE \in BOOLEAN
    OBVIOUS
  <2> QED
    BY <2>5, <2>6, <2>7, <2>8, <2>9, RdReturnGoes, Zenon
<1>12. CASE RdReturn(dq >= 0 /\ dqs >= 0, [s EXCEPT !.dqIn = at, !.dqsIn = e.start - moved],
                     IF e.useRead THEN gbl ELSE [gbl EXCEPT !.fomIn = fom])
  <2> DEFINE g == IF e.useRead THEN gbl ELSE [gbl EXCEPT !.fomIn = fom]
             x == e.start - moved
             t == [s EXCEPT !.dqIn = at, !.dqsIn = x]
             ok == dq >= 0 /\ dqs >= 0
  <2>1. x \in Tap /\ ok \in BOOLEAN
    BY <1>5
  <2> HIDE DEF x, at, fom, ok
  <2>2. OnlyInput(phy, t)
    BY <1>8, <2>1, InputSet, Zenon
  <2>3. /\ [gbl EXCEPT !.fomIn = fom] \in Globals
        /\ [gbl EXCEPT !.fomIn = fom].stage = gbl.stage
        /\ [gbl EXCEPT !.fomIn = fom].readLat = gbl.readLat
    BY <1>1, <1>7, FomIn, Zenon DEF fom
  <2>4. g \in Globals /\ g.stage = gbl.stage /\ g.readLat = gbl.readLat
    BY <1>1, <2>3, Zenon
  <2>5. RdReturn(ok, t, g)
    BY <1>12, Zenon DEF ok, x
  <2> HIDE DEF g, t
  <2> QED
    BY <2>1, <2>2, <2>4, <2>5, RdReturnGoes, Zenon
<1> QED
  BY <1>10, <1>11, <1>12

(* and the search of the right edges.                                         *)
LEMMA RdSeekRightGoes == ASSUME TypeOK, StrobeInChain, RdSeekRight PROVE RdGoes
<1> DEFINE s      == [phy EXCEPT !.dqsIn = rd.start + rd.d]
           bits   == RdBits(s)
           sticky == rd.sticky \cup bits
           stop   == bits = {} /\ sticky = DQ
           seen   == [RightSeen(rd, bits) EXCEPT !.sticky = sticky]
           e      == IF stop THEN rd ELSE seen
<1>1. /\ rd \in Edges /\ phy \in Settings /\ UNCHANGED board
      /\ rd.d \in Tap /\ rd.start \in Tap /\ rd.sticky \in SUBSET DQ
      /\ DelayMax \in Nat
  BY Constants DEF TypeOK, RdSeekRight, Edges
<1>2. rd.start + rd.d \in Tap
  BY <1>1 DEF RdSeekRight, StrobeInChain, Tap
<1>3. OnlyInput(phy, phy)
  BY <1>1, Unmoved
<1>4. OnlyInput(phy, s)
  BY <1>2, <1>3, InputSet, Zenon
<1>5. bits \in SUBSET DQ
  BY TestsType, Zenon
<1> HIDE DEF s
<1> HIDE DEF bits
<1>6. sticky \in SUBSET DQ
  BY <1>1, <1>5
<1>7. /\ RightSeen(rd, bits) \in Edges /\ RightSeen(rd, bits).d = rd.d
      /\ RightSeen(rd, bits).start = rd.start
      /\ RightSeen(rd, bits).useRead = rd.useRead
  BY <1>1, <1>5, RightSeenType
<1>8. seen \in Edges /\ seen.d = rd.d /\ seen.start = rd.start /\ seen.useRead = rd.useRead
  <2>1. seen \in Edges
    BY <1>6, <1>7, EdgesUpdated, Zenon
  <2> HIDE DEF sticky
  <2>2. seen.d = rd.d /\ seen.start = rd.start /\ seen.useRead = rd.useRead
    BY <1>7 DEF Edges
  <2> QED
    BY <2>1, <2>2
<1>9. e \in Edges /\ e.useRead = rd.useRead
  BY <1>1, <1>8
<1>10. \/ /\ ~ stop /\ rd.d < DelayMax - rd.start
          /\ RdGoto("rd_right", s, [seen EXCEPT !.d = @ + 1])
       \/ RdCentre(s, e)
  BY Zenon DEF RdSeekRight, s, bits
<1> HIDE DEF sticky, stop, seen, e
<1>11. CASE /\ ~ stop /\ rd.d < DelayMax - rd.start
            /\ RdGoto("rd_right", s, [seen EXCEPT !.d = @ + 1])
  <2> DEFINE n == rd.d + 1
             l == [seen EXCEPT !.d = n]
  <2>1. n \in Tap /\ rd.start + n <= DelayMax
    BY <1>1, <1>11 DEF Tap
  <2>2. l = [seen EXCEPT !.d = @ + 1]
    BY <1>8
  <2> HIDE DEF n
  <2>3. l \in Edges
    BY <1>8, <2>1, EdgesUpdated, Zenon
  <2>4. l.useRead = rd.useRead /\ l.d = n /\ l.start = rd.start
    BY <1>8 DEF Edges
  <2> HIDE DEF l
  <2>5. RdGoto("rd_right", s, l)
    BY <1>11, <2>2
  <2>6. "rd_right" \in {"rd_left", "rd_right"} /\ ("rd_right" = "rd_right" => l.start + l.d <= DelayMax)
    BY <2>1, <2>4
  <2> QED
    BY <1>1, <1>4, <2>3, <2>4, <2>5, <2>6, RdGotoGoes, Zenon
<1>12. CASE RdCentre(s, e)
  BY <1>1, <1>4, <1>9, <1>12, RdCentreGoes, Zenon
<1> QED
  BY <1>10, <1>11, <1>12

(* So does every step of the deskew of the read side.                         *)
LEMMA DeskewGoes ==
  ASSUME TypeOK, StrobeInChain, VfifoCenter
  PROVE  RdGoes /\ step \in {"rd_left", "rd_right"}
BY RdSeekLeftGoes, RdSeekRightGoes DEF VfifoCenter, RdSeekLeft, RdSeekRight

-----------------------------------------------------------------------------
(* What the edges say while the read side is searched for the first time: a   *)
(* bit has a left edge exactly when one of the delays tried captures it, and  *)
(* a right edge exactly when one of all delays of the bits or one of those of *)
(* the strobe does.                                                           *)
LEMMA ReadsShow ==
  ASSUME NEW s, Reads(s)
  PROVE  ReadBits(s) = { i \in DQ : s.dqIn[i] - s.dqsIn \in board.read[i] }
BY DEF Reads, ReadBits, Captured, Aligned

(* Delays of the input alone do not close the gate.                           *)
LEMMA InputReads ==
  ASSUME NEW s, NEW t, OnlyInput(s, t), Reads(s)
  PROVE  Reads(t)
BY DEF OnlyInput, SameMemory, SameGate, Reads, GateOpen, GateTime

(* One more delay captures a bit when one before it did or it does,           *)
LEMMA OneMore ==
  ASSUME NEW i \in DQ, NEW start \in Tap, NEW d \in Tap
  PROVE  /\ Delayed(i, start, 0, d)
              <=> Delayed(i, start, 0, d - 1) \/ d - start \in board.read[i]
         /\ Advanced(i, start, 0, d)
              <=> Advanced(i, start, 0, d - 1) \/ 0 - (start + d) \in board.read[i]
<1>1. d \in Nat /\ 0 .. d = (0 .. d - 1) \cup {d}
  BY Constants DEF Tap
<1> QED
  BY <1>1 DEF Delayed, Advanced

(* more delays capture more bits,                                             *)
LEMMA FewerReach ==
  ASSUME NEW i \in DQ, NEW start \in Tap, NEW d \in Int, NEW most \in Int, d <= most
  PROVE  /\ Delayed(i, start, 0, d) => Delayed(i, start, 0, most)
         /\ Advanced(i, start, 0, d) => Advanced(i, start, 0, most)
<1>1. 0 .. d \subseteq 0 .. most
  OBVIOUS
<1> QED
  BY <1>1 DEF Delayed, Advanced

(* and no delay captures none.                                                *)
LEMMA NothingBefore ==
  ASSUME NEW i \in DQ, NEW start \in Tap
  PROVE  ~ Delayed(i, start, 0, 0 - 1) /\ ~ Advanced(i, start, 0, 0 - 1)
BY DEF Delayed, Advanced

(* The bits whose left edge is known are those that passed, now or before.    *)
LEMMA LeftShown ==
  ASSUME NEW e \in Edges, NEW bits \in SUBSET DQ, NEW i \in DQ
  PROVE  LeftSeen(e, bits).left[i] # Unseen <=> i \in bits \/ e.left[i] # Unseen
<1>1. e.d \in Tap /\ e.d # Unseen
  BY Constants DEF Edges
<1>2. LeftSeen(e, bits).left[i] = IF i \in bits THEN e.d ELSE e.left[i]
  BY DEF LeftSeen, Edges
<1> QED
  BY <1>1, <1>2

(* At the end of the left search a bit without a left edge has no right edge  *)
(* either.                                                                    *)
LEMMA LeftDoneShown ==
  ASSUME NEW e \in Edges, NEW i \in DQ
  PROVE  /\ LeftDone(e).left[i] = e.left[i]
         /\ e.left[i] = Unseen => LeftDone(e).right[i] = Unseen
BY DEF LeftDone, Edges

(* The bits whose right edge is known, where the first delay of the search    *)
(* only confirms the left edges.                                              *)
LEMMA RightShown ==
  ASSUME NEW e \in Edges, NEW bits \in SUBSET DQ, NEW i \in DQ
  PROVE  /\ e.d = 0 /\ (i \in bits => e.left[i] # Unseen)
              /\ (e.left[i] = Unseen => e.right[i] = Unseen) =>
              /\ RightSeen(e, bits).left[i] # Unseen
              /\ RightSeen(e, bits).right[i] # Unseen <=> e.left[i] # Unseen
         /\ e.d # 0 /\ e.left[i] # Unseen =>
              /\ RightSeen(e, bits).left[i] # Unseen
              /\ RightSeen(e, bits).right[i] # Unseen <=> i \in bits \/ e.right[i] # Unseen
<1>1. /\ e.d \in Tap /\ e.d # Unseen /\ -1 # Unseen /\ - (e.d + 1) # Unseen
      /\ e.left[i] \in Int /\ e.right[i] \in Int
  BY Constants DEF Edges, Tap
<1>2. /\ RightSeen(e, bits).right[i]
           = IF i \in bits THEN e.d
             ELSE IF e.d = 0 /\ e.right[i] = Unseen /\ e.left[i] # Unseen THEN -1
             ELSE e.right[i]
      /\ RightSeen(e, bits).left[i]
           = IF i \notin bits /\ e.right[i] = Unseen /\ (e.d # 0 \/ e.left[i] = Unseen)
             THEN - (e.d + 1) ELSE e.left[i]
  BY DEF RightSeen, Edges
<1> QED
  BY <1>1, <1>2

(* Which bits a read test shows in the left search: those that this delay     *)
(* captures.                                                                  *)
LEMMA LeftBits ==
  ASSUME TypeOK, EdgesSeen, rd.useRead, step = "rd_left",
         NEW s, s = [phy EXCEPT !.dqIn = [i \in DQ |-> rd.d]]
  PROVE  Reads(s) /\ RdBits(s) = { i \in DQ : rd.d - rd.start \in board.read[i] }
<1>1. phy \in Settings /\ rd.d \in Tap /\ Reads(phy) /\ phy.dqsIn = rd.start
  BY DEF TypeOK, EdgesSeen, Edges
<1>2. OnlyInput(phy, phy) /\ [i \in DQ |-> rd.d] \in [DQ -> Tap]
  BY <1>1, Unmoved
<1>3. OnlyInput(phy, s)
  BY <1>2, InputSet, Zenon
<1>4. Reads(s)
  BY <1>1, <1>3, InputReads, Zenon
<1>5. s.dqsIn = rd.start /\ s.dqIn = [i \in DQ |-> rd.d]
  BY <1>1 DEF Settings
<1>6. ReadBits(s) = { i \in DQ : s.dqIn[i] - s.dqsIn \in board.read[i] }
  BY <1>4, ReadsShow
<1>7. \A i \in DQ : s.dqIn[i] - s.dqsIn = rd.d - rd.start
  BY <1>5
<1> QED
  BY <1>4, <1>6, <1>7 DEF RdBits

(* Which bits it shows in the right search.                                   *)
LEMMA RightBits ==
  ASSUME TypeOK, StrobeInChain, EdgesSeen, rd.useRead, step = "rd_right",
         NEW s, s = [phy EXCEPT !.dqsIn = rd.start + rd.d]
  PROVE  Reads(s) /\ RdBits(s) = { i \in DQ : 0 - (rd.start + rd.d) \in board.read[i] }
<1>1. phy \in Settings /\ rd.d \in Tap /\ rd.start \in Tap /\ Reads(phy)
      /\ phy.dqIn = [i \in DQ |-> 0]
  BY DEF TypeOK, EdgesSeen, Edges
<1>2. OnlyInput(phy, phy) /\ rd.start + rd.d \in Tap
  BY <1>1, Unmoved, Constants DEF StrobeInChain, Tap
<1>3. OnlyInput(phy, s)
  BY <1>2, InputSet, Zenon
<1>4. Reads(s)
  BY <1>1, <1>3, InputReads, Zenon
<1>5. s.dqsIn = rd.start + rd.d /\ s.dqIn = [i \in DQ |-> 0]
  BY <1>1 DEF Settings
<1>6. ReadBits(s) = { i \in DQ : s.dqIn[i] - s.dqsIn \in board.read[i] }
  BY <1>4, ReadsShow
<1>7. \A i \in DQ : s.dqIn[i] - s.dqsIn = 0 - (rd.start + rd.d)
  BY <1>5
<1> QED
  BY <1>4, <1>6, <1>7 DEF RdBits

(* What the edges are at the next step, in terms of the present board.        *)
LEMMA EdgesNext ==
  ASSUME UNCHANGED <<board, vf>>, NEW next \in {"rd_left", "rd_right"}, NEW s, NEW e,
         RdGoto(next, s, e), Reads(s), e.start = vf.orig,
         next = "rd_left" => s.dqsIn = e.start /\ LeftsTried(e),
         next = "rd_right" => /\ s.dqIn = [i \in DQ |-> 0] /\ BothSeen(e)
                              /\ IF e.d = 0 THEN LeftsKnown(e) ELSE RightsTried(e)
  PROVE  EdgesSeen'
<1>1. step' = next /\ phy' = s /\ rd' = e /\ board' = board /\ vf' = vf
  BY DEF RdGoto
<1>2. Reads(phy)'
  BY <1>1 DEF Reads, GateOpen, GateTime
<1>3. (step = "rd_left" => phy.dqsIn = rd.start /\ LeftsTried(rd))'
  BY <1>1 DEF LeftsTried, Delayed
<1>4. (step = "rd_right" => BothSeen(rd))'
  BY <1>1 DEF BothSeen
<1>5. (step = "rd_right" => phy.dqIn = [i \in DQ |-> 0])'
  BY <1>1
<1>6. (step = "rd_right" => IF rd.d = 0 THEN LeftsKnown(rd) ELSE RightsTried(rd))'
  BY <1>1 DEF LeftsKnown, RightsTried, Delayed, Advanced
<1>7. rd'.start = vf'.orig
  BY <1>1
<1> QED
  BY <1>2, <1>3, <1>4, <1>5, <1>6, <1>7 DEF EdgesSeen

(* The left search keeps the relation of the edges to the board.              *)
LEMMA LeftSearched ==
  ASSUME TypeOK, EdgesSeen, rd.useRead, RdSeekLeft, UNCHANGED vf
  PROVE  EdgesSeen'
<1> DEFINE s      == [phy EXCEPT !.dqIn = [i \in DQ |-> rd.d]]
           bits   == RdBits(s)
           sticky == rd.sticky \cup bits
           stop   == bits = {} /\ sticky = DQ
           shown  == LeftSeen(rd, bits)
           seen   == [shown EXCEPT !.sticky = sticky]
           f      == IF stop THEN rd ELSE seen
           e      == LeftDone(f)
           both   == { i \in DQ : e.left[i] # Unseen /\ e.right[i] # Unseen }
<1>1. /\ rd \in Edges /\ phy \in Settings /\ UNCHANGED board /\ step = "rd_left"
      /\ rd.d \in Tap /\ rd.start \in Tap /\ rd.sticky \in SUBSET DQ
      /\ DelayMax \in Nat /\ rd.start = vf.orig /\ LeftsTried(rd)
      /\ phy.dqsIn = rd.start
  BY Constants DEF TypeOK, RdSeekLeft, Edges, EdgesSeen
<1>2. Reads(s) /\ bits = { i \in DQ : rd.d - rd.start \in board.read[i] }
  BY <1>1, LeftBits
<1>3. s.dqsIn = rd.start /\ s \in Settings
  BY <1>1 DEF Settings
<1>4. bits \in SUBSET DQ
  BY TestsType, Zenon
<1>5. \/ /\ ~ stop /\ rd.d < DelayMax
         /\ RdGoto("rd_left", s, [seen EXCEPT !.d = @ + 1])
      \/ /\ stop \/ ~ (rd.d < DelayMax)
         /\ RdGoto("rd_right", [s EXCEPT !.dqIn = [i \in DQ |-> 0]], [e EXCEPT !.sticky = both])
  BY Zenon DEF RdSeekLeft
<1> HIDE DEF s
<1> HIDE DEF bits
<1>6. shown \in Edges /\ shown.d = rd.d /\ shown.start = rd.start /\ shown.sticky = rd.sticky
  BY <1>1, <1>4, LeftSeenType
<1>7. \A i \in DQ : shown.left[i] # Unseen <=> i \in bits \/ rd.left[i] # Unseen
  BY <1>1, <1>4, LeftShown
<1> HIDE DEF shown
<1>8. \A i \in DQ : shown.left[i] # Unseen <=> Delayed(i, rd.start, 0, rd.d)
  BY <1>1, <1>2, <1>7, OneMore DEF LeftsTried
<1>9. \A i \in sticky : shown.left[i] # Unseen
  BY <1>1, <1>4, <1>7 DEF LeftsTried
<1>10. sticky \in SUBSET DQ
  BY <1>1, <1>4
<1>11. stop => \A i \in DQ : rd.left[i] # Unseen
  BY <1>1 DEF LeftsTried
<1> HIDE DEF sticky
<1>12. /\ seen \in Edges /\ seen.d = rd.d /\ seen.start = rd.start /\ seen.left = shown.left
       /\ seen.sticky = sticky
  BY <1>6, <1>10 DEF Edges
<1>13. CASE /\ ~ stop /\ rd.d < DelayMax
            /\ RdGoto("rd_left", s, [seen EXCEPT !.d = @ + 1])
  <2> DEFINE l == [seen EXCEPT !.d = @ + 1]
  <2>1. l.d = rd.d + 1 /\ l.start = rd.start /\ l.left = shown.left /\ l.sticky = sticky
    BY <1>12 DEF Edges
  <2>2. l.d - 1 = rd.d
    BY <1>1, <2>1 DEF Tap
  <2> HIDE DEF l
  <2>3. LeftsTried(l)
    BY <1>8, <1>9, <2>1, <2>2 DEF LeftsTried
  <2>4. RdGoto("rd_left", s, l)
    BY <1>13 DEF l
  <2>5. "rd_left" \in {"rd_left", "rd_right"} /\ "rd_left" # "rd_right"
    OBVIOUS
  <2> QED
    BY <1>1, <1>2, <1>3, <2>1, <2>3, <2>4, <2>5, EdgesNext, Zenon
<1>14. CASE /\ stop \/ ~ (rd.d < DelayMax)
            /\ RdGoto("rd_right", [s EXCEPT !.dqIn = [i \in DQ |-> 0]],
                      [e EXCEPT !.sticky = both])
  <2> DEFINE l == [e EXCEPT !.sticky = both]
             t == [s EXCEPT !.dqIn = [i \in DQ |-> 0]]
  <2>1. \A i \in DQ : f.left[i] # Unseen <=> Delayed(i, rd.start, 0, DelayMax)
    <3>1. CASE stop
      <4>1. \A i \in DQ : Delayed(i, rd.start, 0, rd.d - 1)
        BY <1>1, <1>11, <3>1 DEF LeftsTried
      <4>2. rd.d - 1 \in Int /\ DelayMax \in Int /\ rd.d - 1 <= DelayMax
        BY <1>1 DEF Tap
      <4>3. \A i \in DQ : Delayed(i, rd.start, 0, DelayMax)
        BY <1>1, <4>1, <4>2, FewerReach
      <4>4. f = rd
        BY <3>1
      <4> QED
        BY <1>11, <3>1, <4>3, <4>4
    <3>2. CASE ~ stop
      <4>1. f = seen
        BY <3>2
      <4>2. rd.d = DelayMax
        BY <1>1, <1>14, <3>2 DEF Tap
      <4> QED
        BY <1>8, <1>12, <4>1, <4>2
    <3> QED
      BY <3>1, <3>2
  <2>2. f \in Edges /\ f.start = rd.start
    BY <1>1, <1>12
  <2> HIDE DEF f
  <2>3. e \in Edges /\ e.d = 0 /\ e.start = rd.start
    BY <2>2, LeftDoneType
  <2>4. \A i \in DQ : e.left[i] = f.left[i] /\ (e.left[i] = Unseen => e.right[i] = Unseen)
    BY <2>2, LeftDoneShown
  <2> HIDE DEF e
  <2>5. both \in SUBSET DQ
    OBVIOUS
  <2>6. l.d = 0 /\ l.start = rd.start /\ l.left = e.left /\ l.right = e.right /\ l.sticky = both
    BY <2>3, <2>5 DEF Edges
  <2> HIDE DEF l
  <2>7. BothSeen(l)
    BY <2>6 DEF BothSeen
  <2>8. LeftsKnown(l)
    BY <2>1, <2>4, <2>6 DEF LeftsKnown
  <2>9. Reads(t) /\ t.dqIn = [i \in DQ |-> 0]
    <3>1. OnlyInput(s, s) /\ [i \in DQ |-> 0] \in [DQ -> Tap]
      BY <1>3, Unmoved, Constants
    <3>2. OnlyInput(s, t)
      BY <3>1, InputSet, Zenon
    <3>3. Reads(t)
      BY <1>2, <3>2, InputReads, Zenon
    <3> QED
      BY <1>3, <3>3 DEF Settings
  <2> HIDE DEF t
  <2>10. RdGoto("rd_right", t, l)
    BY <1>14 DEF t, l
  <2>11. "rd_right" \in {"rd_left", "rd_right"} /\ "rd_left" # "rd_right"
    OBVIOUS
  <2>12. IF l.d = 0 THEN LeftsKnown(l) ELSE RightsTried(l)
    BY <2>6, <2>8
  <2> QED
    BY <1>1, <2>6, <2>7, <2>9, <2>10, <2>11, <2>12, EdgesNext, Zenon
<1> QED
  BY <1>5, <1>13, <1>14

(* What the search has found when it returns.                                 *)
RdFound ==
  step' = "rd_return" =>
    /\ (\E i \in DQ : ~ Reached(i, vf.orig)) => phy'.dqsIn = vf.orig /\ ~ result'
    /\ gbl'.stage # gbl.stage => \E i \in DQ : ~ Reached(i, vf.orig)

(* The deskew passes exactly when every bit has a delay that captures it.     *)
LEMMA CentreFinds ==
  ASSUME NEW s, s \in Settings, NEW e \in Edges, e.start = vf.orig, e.useRead, gbl \in Globals,
         \A i \in DQ : e.left[i] # Unseen /\ e.right[i] # Unseen <=> Reached(i, vf.orig),
         RdCentre(s, e)
  PROVE  RdFound
<1> DEFINE missing == { i \in DQ : e.left[i] = Unseen \/ e.right[i] = Unseen }
           moved   == e.start - Clamp(e.start - MidMin(e), 0, DelayMax)
           dq      == DqMargin(e, s.dqIn, moved)
           dqs     == DqsMargin(e, s.dqIn, moved)
           at      == [i \in DQ |-> s.dqIn[i] + Shift(e, i, s.dqIn[i], moved)]
           t       == [s EXCEPT !.dqIn = at, !.dqsIn = e.start - moved]
           g       == SetFailing(gbl, SmallestOf(missing), "VFIFO", "VFIFO_CENTER")
<1>1. missing # {} <=> \E i \in DQ : ~ Reached(i, vf.orig)
  OBVIOUS
<1>2. \/ missing # {} /\ RdReturn(FALSE, [s EXCEPT !.dqsIn = e.start], g)
      \/ missing = {} /\ RdReturn(dq >= 0 /\ dqs >= 0, t, gbl)
  BY Zenon DEF RdCentre
<1> HIDE DEF g, dq, dqs, t
<1> HIDE DEF missing
<1>3. CASE missing # {} /\ RdReturn(FALSE, [s EXCEPT !.dqsIn = e.start], g)
  <2>1. phy'.dqsIn = vf.orig /\ ~ result'
    BY <1>3 DEF RdReturn, Settings
  <2> QED
    BY <1>1, <1>3, <2>1 DEF RdFound
<1>4. CASE missing = {} /\ RdReturn(dq >= 0 /\ dqs >= 0, t, gbl)
  <2>1. gbl' = gbl
    BY <1>4 DEF RdReturn
  <2> QED
    BY <1>1, <1>4, <2>1 DEF RdFound
<1> QED
  BY <1>2, <1>3, <1>4

(* The right search keeps the relation of the edges to the board, and ends    *)
(* with a verdict that agrees with it.                                        *)
LEMMA RightSearched ==
  ASSUME TypeOK, StrobeInChain, EdgesSeen, rd.useRead, RdSeekRight, UNCHANGED vf
  PROVE  EdgesSeen' /\ RdFound
<1> DEFINE s      == [phy EXCEPT !.dqsIn = rd.start + rd.d]
           bits   == RdBits(s)
           sticky == rd.sticky \cup bits
           stop   == bits = {} /\ sticky = DQ
           shown  == RightSeen(rd, bits)
           seen   == [shown EXCEPT !.sticky = sticky]
           e      == IF stop THEN rd ELSE seen
<1>1. /\ rd \in Edges /\ phy \in Settings /\ UNCHANGED board /\ step = "rd_right"
      /\ rd.d \in Tap /\ rd.start \in Tap /\ rd.sticky \in SUBSET DQ
      /\ DelayMax \in Nat /\ rd.start = vf.orig
      /\ phy.dqIn = [i \in DQ |-> 0] /\ gbl \in Globals
      /\ rd.start + rd.d <= DelayMax /\ BothSeen(rd)
      /\ IF rd.d = 0 THEN LeftsKnown(rd) ELSE RightsTried(rd)
  BY Constants DEF TypeOK, RdSeekRight, Edges, EdgesSeen, StrobeInChain
<1>2. Reads(s) /\ bits = { i \in DQ : 0 - (rd.start + rd.d) \in board.read[i] }
  BY <1>1, RightBits
<1>3. s \in Settings /\ s.dqIn = [i \in DQ |-> 0]
  BY <1>1 DEF Settings, Tap
<1>4. bits \in SUBSET DQ
  BY TestsType, Zenon
<1>5. \/ /\ ~ stop /\ rd.d < DelayMax - rd.start
         /\ RdGoto("rd_right", s, [seen EXCEPT !.d = @ + 1])
      \/ /\ stop \/ ~ (rd.d < DelayMax - rd.start)
         /\ RdCentre(s, e)
  BY Zenon DEF RdSeekRight
<1> HIDE DEF s
<1> HIDE DEF bits
<1>6. /\ shown \in Edges /\ shown.d = rd.d /\ shown.start = rd.start
      /\ shown.sticky = rd.sticky /\ shown.useRead = rd.useRead
  BY <1>1, <1>4, RightSeenType
<1>7. \A i \in DQ : /\ shown.left[i] # Unseen
                    /\ shown.right[i] # Unseen <=> \/ Delayed(i, rd.start, 0, DelayMax)
                                                   \/ Advanced(i, rd.start, 0, rd.d)
  <2>1. ASSUME NEW i \in DQ
        PROVE  Advanced(i, rd.start, 0, rd.d) <=> \/ Advanced(i, rd.start, 0, rd.d - 1)
                                                  \/ i \in bits
    BY <1>1, <1>2, <2>1, OneMore
  <2>2. CASE rd.d = 0
    <3> SUFFICES ASSUME NEW i \in DQ
                 PROVE  /\ shown.left[i] # Unseen
                        /\ shown.right[i] # Unseen <=> \/ Delayed(i, rd.start, 0, DelayMax)
                                                       \/ Advanced(i, rd.start, 0, rd.d)
      OBVIOUS
    <3>1. /\ rd.left[i] # Unseen <=> Delayed(i, rd.start, 0, DelayMax)
          /\ rd.left[i] = Unseen => rd.right[i] = Unseen
      BY <1>1, <2>2 DEF LeftsKnown
    <3>2. i \in bits => Delayed(i, rd.start, 0, DelayMax)
      <4>1. i \in bits => 0 - rd.start \in board.read[i]
        BY <1>1, <1>2, <2>2 DEF Tap
      <4>2. 0 \in 0 .. DelayMax
        BY <1>1
      <4> QED
        BY <4>1, <4>2 DEF Delayed
    <3>3. Advanced(i, rd.start, 0, rd.d) => i \in bits
      BY <1>1, <2>1, <2>2, NothingBefore
    <3>4. /\ shown.left[i] # Unseen
          /\ shown.right[i] # Unseen <=> rd.left[i] # Unseen
      BY <1>1, <1>4, <2>2, <3>1, <3>2, RightShown
    <3> QED
      BY <2>1, <3>1, <3>2, <3>3, <3>4
  <2>3. CASE rd.d # 0
    <3>1. \A i \in DQ : /\ shown.left[i] # Unseen
                        /\ shown.right[i] # Unseen <=> i \in bits \/ rd.right[i] # Unseen
      BY <1>1, <1>4, <2>3, RightShown DEF RightsTried
    <3> QED
      BY <1>1, <2>1, <2>3, <3>1 DEF RightsTried
  <2> QED
    BY <2>2, <2>3
<1>8. \A i \in sticky : shown.left[i] # Unseen /\ shown.right[i] # Unseen
  <2>1. ASSUME NEW i \in bits PROVE shown.right[i] # Unseen
    <3>1. Advanced(i, rd.start, 0, rd.d)
      BY <1>1, <1>2, OneMore
    <3> QED
      BY <1>4, <1>7, <3>1
  <2>2. ASSUME NEW i \in rd.sticky PROVE shown.right[i] # Unseen
    <3>1. i \in DQ /\ rd.left[i] # Unseen /\ rd.right[i] # Unseen
      BY <1>1 DEF BothSeen
    <3>2. CASE rd.d = 0
      BY <1>1, <1>7, <3>1, <3>2 DEF LeftsKnown
    <3>3. CASE rd.d # 0
      <4>1. rd.d - 1 \in Int /\ rd.d \in Int /\ rd.d - 1 <= rd.d
        BY <1>1 DEF Tap
      <4> QED
        BY <1>1, <1>7, <3>1, <3>3, <4>1, FewerReach DEF RightsTried
    <3> QED
      BY <3>2, <3>3
  <2> QED
    BY <1>1, <1>4, <1>7, <2>1, <2>2
<1>9. sticky \in SUBSET DQ
  BY <1>1, <1>4
<1>10. stop => \A i \in DQ : rd.left[i] # Unseen /\ rd.right[i] # Unseen
  BY <1>1 DEF BothSeen
<1> HIDE DEF shown
<1> HIDE DEF sticky
<1>11. /\ seen \in Edges /\ seen.d = rd.d /\ seen.start = rd.start /\ seen.left = shown.left
       /\ seen.right = shown.right /\ seen.sticky = sticky /\ seen.useRead = rd.useRead
  BY <1>6, <1>9 DEF Edges
<1>12. CASE /\ ~ stop /\ rd.d < DelayMax - rd.start
            /\ RdGoto("rd_right", s, [seen EXCEPT !.d = @ + 1])
  <2> DEFINE l == [seen EXCEPT !.d = @ + 1]
  <2>1. /\ l.d = rd.d + 1 /\ l.start = rd.start /\ l.left = shown.left
        /\ l.right = shown.right /\ l.sticky = sticky
    BY <1>11 DEF Edges
  <2>2. l.d - 1 = rd.d /\ l.d # 0
    BY <1>1, <2>1 DEF Tap
  <2> HIDE DEF l
  <2>3. RightsTried(l) /\ BothSeen(l)
    BY <1>7, <1>8, <2>1, <2>2 DEF RightsTried, BothSeen
  <2>4. RdGoto("rd_right", s, l)
    BY <1>12 DEF l
  <2>5. "rd_right" \in {"rd_left", "rd_right"} /\ "rd_left" # "rd_right"
    OBVIOUS
  <2>6. IF l.d = 0 THEN LeftsKnown(l) ELSE RightsTried(l)
    BY <2>2, <2>3
  <2>7. EdgesSeen'
    BY <1>1, <1>2, <1>3, <2>1, <2>3, <2>4, <2>5, <2>6, EdgesNext, Zenon
  <2>8. step' # "rd_return"
    BY <2>4 DEF RdGoto
  <2> QED
    BY <2>7, <2>8 DEF RdFound
<1>13. CASE /\ stop \/ ~ (rd.d < DelayMax - rd.start)
            /\ RdCentre(s, e)
  <2>1. \A i \in DQ : e.left[i] # Unseen /\ e.right[i] # Unseen <=> Reached(i, rd.start)
    <3>1. CASE stop
      <4>1. e = rd
        BY <3>1
      <4>2. \A i \in DQ : Reached(i, rd.start)
        <5>1. CASE rd.d = 0
          BY <1>1, <1>10, <3>1, <5>1 DEF LeftsKnown, Reached
        <5>2. CASE rd.d # 0
          <6>1. /\ rd.d - 1 \in Int /\ DelayMax - rd.start \in Int
                /\ rd.d - 1 <= DelayMax - rd.start
            BY <1>1 DEF Tap
          <6>2. ASSUME NEW i \in DQ PROVE Reached(i, rd.start)
            <7>1. \/ Delayed(i, rd.start, 0, DelayMax)
                  \/ Advanced(i, rd.start, 0, rd.d - 1)
              BY <1>1, <1>10, <3>1, <5>2 DEF RightsTried
            <7>2. Advanced(i, rd.start, 0, rd.d - 1) => Advanced(i, rd.start, 0, DelayMax - rd.start)
              BY <1>1, <6>1, FewerReach
            <7> QED
              BY <7>1, <7>2 DEF Reached
          <6> QED
            BY <6>2
        <5> QED
          BY <5>1, <5>2
      <4> QED
        BY <1>10, <3>1, <4>1, <4>2
    <3>2. CASE ~ stop
      <4>1. e = seen
        BY <3>2
      <4>2. rd.d = DelayMax - rd.start
        BY <1>1, <1>13, <3>2 DEF Tap
      <4> QED
        BY <1>7, <1>11, <4>1, <4>2 DEF Reached
    <3> QED
      BY <3>1, <3>2
  <2>2. e \in Edges /\ e.start = vf.orig /\ e.useRead
    BY <1>1, <1>11
  <2> HIDE DEF e
  <2>3. RdFound
    BY <1>1, <1>3, <1>13, <2>1, <2>2, CentreFinds
  <2>4. step' = "rd_return"
    BY <1>13 DEF RdCentre, RdReturn
  <2> QED
    BY <2>3, <2>4 DEF EdgesSeen
<1> QED
  BY <1>5, <1>12, <1>13

-----------------------------------------------------------------------------
(* The deskew of the write side: it moves the output side only, within its    *)
(* chains; it passes only when the mask ends where it was seen to pass.       *)
WrGoes ==
  /\ OnlyOutput(phy, phy') /\ wr' \in Mask /\ gbl' \in Globals /\ result' \in BOOLEAN
  /\ step' \in WrStep /\ StrobeInChain' /\ MaskWindows'
  /\ UNCHANGED <<board, rd>>
  /\ gbl'.readLat = gbl.readLat
  /\ step' # "wr_return" => gbl'.stage = gbl.stage
  /\ step' = "wr_return" =>
       IF result' THEN gbl'.stage = gbl.stage /\ Masked(phy')
       ELSE gbl'.stage \in {gbl.stage, "WRITES"}

(* The deskew of the write side may set the delays of its output.             *)
LEMMA OutputSet ==
  ASSUME NEW s, NEW t, OnlyOutput(s, t)
  PROVE  /\ \A f \in [DQ -> Tap] : OnlyOutput(s, [t EXCEPT !.dqOut = f])
         /\ \A x \in Tap : OnlyOutput(s, [t EXCEPT !.dqsOut = x])
         /\ \A x \in Tap : OnlyOutput(s, [t EXCEPT !.dmOut = x])
         /\ \A f \in [DQ -> Tap], x \in Tap :
              OnlyOutput(s, [t EXCEPT !.dqOut = f, !.dqsOut = x])
         /\ \A x \in Tap, y \in Tap :
              OnlyOutput(s, [t EXCEPT !.dqsOut = x, !.dmOut = y])
BY DEF OnlyOutput, SameMemory, SameGate, SameInput, Settings

(* The figure of merit of the write side.                                     *)
LEMMA FomOut ==
  ASSUME NEW g \in Globals, NEW x \in Int
  PROVE  /\ [g EXCEPT !.fomOut = x] \in Globals
         /\ [g EXCEPT !.fomOut = x].stage = g.stage
         /\ [g EXCEPT !.fomOut = x].readLat = g.readLat
BY DEF Globals

(* The locals of the deskew of the write side: the delay that is tried,       *)
LEMMA MaskSet ==
  ASSUME NEW w \in Mask
  PROVE  /\ \A e \in Edges : [w EXCEPT !.edges = e] \in Mask
         /\ \A d \in Tap : [w EXCEPT !.edges.d = d] \in Mask
<1>1. \A e \in Edges : [w EXCEPT !.edges = e] \in Mask
  BY DEF Mask
<1>2. ASSUME NEW d \in Tap PROVE [w EXCEPT !.edges.d = d] \in Mask
  <2> DEFINE e == [w.edges EXCEPT !.d = d]
  <2>1. w.edges \in Edges
    BY DEF Mask
  <2>2. e \in Edges
    BY <2>1, EdgesUpdated, Zenon
  <2>3. [w EXCEPT !.edges.d = d] = [w EXCEPT !.edges = e]
    BY DEF Mask
  <2> HIDE DEF e
  <2> QED
    BY <1>1, <2>2, <2>3, Zenon
<1> QED
  BY <1>1, <1>2

(* and those with which it begins.                                            *)
LEMMA NoMask ==
  /\ WrIdle \in Mask
  /\ \A e \in Edges : [WrIdle EXCEPT !.edges = e] \in Mask
  /\ \A e \in Edges, m \in Int :
       [WrIdle EXCEPT !.edges = e, !.bgn = Unseen, !.end = Unseen,
                      !.bestBgn = Unseen, !.bestEnd = Unseen, !.margin = m] \in Mask
<1>1. 0 \in Place /\ Unseen \in Place
  BY Constants DEF Place
<1>2. RdIdle \in Edges
  BY NoEdges
<1>3. WrIdle \in Mask
  BY <1>1, <1>2 DEF WrIdle, Mask
<1> QED
  BY <1>1, <1>3 DEF Mask

(* The smaller of two margins.                                                *)
LEMMA SmallerOfTwo ==
  ASSUME NEW a \in Int, NEW b \in Int
  PROVE  SmallestOf({a, b}) \in Int /\ SmallestOf({a, b}) = IF a <= b THEN a ELSE b
<1>1. \E x \in {a, b} : \A y \in {a, b} : x <= y
  OBVIOUS
<1>2. SmallestOf({a, b}) \in {a, b} /\ \A y \in {a, b} : SmallestOf({a, b}) <= y
  BY <1>1 DEF SmallestOf
<1> QED
  BY <1>2

(* The deskew of the write side goes on to another step,                      *)
LEMMA WrGotoGoes ==
  ASSUME TypeOK, UNCHANGED <<board, rd>>, NEW next \in WrStep \ {"wr_return"},
         NEW s, OnlyOutput(phy, s), NEW w \in Mask, WrGoto(next, s, w),
         next \in {"wr_right", "wr_mask_dqs"} => w.edges.start + w.edges.d <= DelayMax,
         next \notin {"wr_mask", "wr_mask_dqs"} \/ MaskWindows',
         gbl' \in Globals, gbl'.stage = gbl.stage, gbl'.readLat = gbl.readLat,
         UNCHANGED result
  PROVE  WrGoes
<1>1. step' = next /\ phy' = s /\ wr' = w /\ result' \in BOOLEAN /\ next # "wr_return"
  BY DEF WrGoto, TypeOK
<1>2. StrobeInChain'
  BY <1>1 DEF StrobeInChain, WrStep
<1>3. MaskWindows'
  BY <1>1 DEF MaskWindows
<1> QED
  BY <1>1, <1>2, <1>3, Zenon DEF WrGoes

(* or returns, where it may say that it passed only with the mask in its      *)
(* window and no new error.                                                   *)
LEMMA WrReturnGoes ==
  ASSUME TypeOK, UNCHANGED <<board, rd>>, NEW ok \in BOOLEAN, NEW s, OnlyOutput(phy, s),
         NEW g \in Globals, g.readLat = gbl.readLat, WrReturn(ok, s, g),
         IF ok THEN g.stage = gbl.stage /\ Masked(s) ELSE g.stage \in {gbl.stage, "WRITES"}
  PROVE  WrGoes
<1>1. step' = "wr_return" /\ phy' = s /\ wr' = WrIdle /\ gbl' = g /\ result' = ok
  BY DEF WrReturn
<1>2. StrobeInChain' /\ MaskWindows'
  BY <1>1 DEF StrobeInChain, MaskWindows
<1>3. step' \in WrStep
  BY <1>1 DEF WrStep
<1> QED
  BY <1>1, <1>2, <1>3, NoMask, Zenon DEF WrGoes

(* Each step keeps the delays in their chains: the search of the left edges,  *)
LEMMA WrSeekLeftGoes == ASSUME TypeOK, WrSeekLeft PROVE WrGoes
<1> DEFINE was    == wr.edges
           s      == [phy EXCEPT !.dqOut = [i \in DQ |-> was.d]]
           bits   == WriteBits(s)
           sticky == was.sticky \cup bits
           stop   == bits = {} /\ sticky = DQ
           seen   == [LeftSeen(was, bits) EXCEPT !.sticky = sticky]
           f      == IF stop THEN was ELSE seen
           e      == LeftDone(f)
           some   == { i \in DQ : e.left[i] # Unseen }
<1>1. /\ wr \in Mask /\ phy \in Settings /\ UNCHANGED <<board, gbl, result, rd>>
      /\ was \in Edges /\ was.d \in Tap /\ was.start \in Tap /\ was.sticky \in SUBSET DQ
      /\ DelayMax \in Nat /\ gbl \in Globals
  BY Constants DEF TypeOK, WrSeekLeft, Edges, Mask
<1>2. [i \in DQ |-> was.d] \in [DQ -> Tap] /\ [i \in DQ |-> 0] \in [DQ -> Tap]
  BY <1>1, Constants
<1>3. OnlyOutput(phy, phy)
  BY <1>1, Unmoved
<1>4. OnlyOutput(phy, s) /\ OnlyOutput(phy, [s EXCEPT !.dqOut = [i \in DQ |-> 0]])
  BY <1>2, <1>3, OutputSet, Zenon
<1>5. bits \in SUBSET DQ
  BY TestsType, Zenon
<1>6. \/ /\ ~ stop /\ was.d < DelayMax
         /\ WrGoto("wr_left", s, [wr EXCEPT !.edges = [seen EXCEPT !.d = @ + 1]])
      \/ WrGoto("wr_right", [s EXCEPT !.dqOut = [i \in DQ |-> 0]],
                [wr EXCEPT !.edges = [e EXCEPT !.sticky = some]])
  BY Zenon DEF WrSeekLeft
<1> HIDE DEF s
<1> HIDE DEF bits
<1>7. sticky \in SUBSET DQ
  BY <1>1, <1>5
<1>8. LeftSeen(was, bits) \in Edges /\ LeftSeen(was, bits).d = was.d
  BY <1>1, <1>5, LeftSeenType
<1>9. seen \in Edges /\ seen.d = was.d
  <2> HIDE DEF was
  <2>1. seen \in Edges
    BY <1>7, <1>8, EdgesUpdated, Zenon
  <2> HIDE DEF sticky
  <2>2. seen.d = was.d
    BY <1>8 DEF Edges
  <2> QED
    BY <2>1, <2>2
<1> HIDE DEF was
<1>10. f \in Edges
  BY <1>1, <1>9
<1> HIDE DEF f
<1>11. e \in Edges /\ e.d = 0
  BY <1>10, LeftDoneType
<1>12. some \in SUBSET DQ
  OBVIOUS
<1> HIDE DEF sticky, stop, seen, e, some
<1>13. CASE /\ ~ stop /\ was.d < DelayMax
            /\ WrGoto("wr_left", s, [wr EXCEPT !.edges = [seen EXCEPT !.d = @ + 1]])
  <2> DEFINE n == was.d + 1
             l == [seen EXCEPT !.d = n]
             w == [wr EXCEPT !.edges = l]
  <2>1. n \in Tap
    BY <1>1, <1>13 DEF Tap
  <2>2. l = [seen EXCEPT !.d = @ + 1]
    BY <1>9
  <2> HIDE DEF n
  <2>3. l \in Edges
    BY <1>9, <2>1, EdgesUpdated, Zenon
  <2> HIDE DEF l
  <2>4. w \in Mask
    BY <1>1, <2>3, MaskSet, Zenon
  <2>5. WrGoto("wr_left", s, w)
    BY <1>13, <2>2
  <2> HIDE DEF w
  <2>6. /\ "wr_left" \in WrStep \ {"wr_return"} /\ "wr_left" \notin {"wr_right", "wr_mask_dqs"}
        /\ "wr_left" \notin {"wr_mask", "wr_mask_dqs"}
    BY DEF WrStep
  <2>7. gbl' \in Globals /\ gbl'.stage = gbl.stage /\ gbl'.readLat = gbl.readLat
        /\ UNCHANGED <<board, rd>> /\ UNCHANGED result
    BY <1>1
  <2> QED
    BY <1>4, <2>4, <2>5, <2>6, <2>7, WrGotoGoes, Zenon
<1>14. CASE WrGoto("wr_right", [s EXCEPT !.dqOut = [i \in DQ |-> 0]],
                   [wr EXCEPT !.edges = [e EXCEPT !.sticky = some]])
  <2> DEFINE l == [e EXCEPT !.sticky = some]
             w == [wr EXCEPT !.edges = l]
  <2>1. l \in Edges
    BY <1>11, <1>12, EdgesUpdated, Zenon
  <2>2. l.d = 0 /\ l.start \in Tap
    BY <1>11 DEF Edges
  <2> HIDE DEF l
  <2>3. w \in Mask
    BY <1>1, <2>1, MaskSet, Zenon
  <2>4. w.edges.start + w.edges.d <= DelayMax
    BY <1>1, <2>2 DEF Mask, Tap
  <2>5. WrGoto("wr_right", [s EXCEPT !.dqOut = [i \in DQ |-> 0]], w)
    BY <1>14 DEF l
  <2> HIDE DEF w
  <2>6. "wr_right" \in WrStep \ {"wr_return"} /\ "wr_right" \notin {"wr_mask", "wr_mask_dqs"}
    BY DEF WrStep
  <2>7. gbl' \in Globals /\ gbl'.stage = gbl.stage /\ gbl'.readLat = gbl.readLat
        /\ UNCHANGED <<board, rd>> /\ UNCHANGED result
    BY <1>1
  <2> QED
    BY <1>4, <2>3, <2>4, <2>5, <2>6, <2>7, WrGotoGoes, Zenon
<1> QED
  BY <1>6, <1>13, <1>14

(* the settings at the centre,                                                *)
LEMMA WrCentreGoes ==
  ASSUME TypeOK, UNCHANGED <<board, rd>>, NEW s, OnlyOutput(phy, s), NEW e \in Edges,
         WrCentre(s, e)
  PROVE  WrGoes
<1> DEFINE missing == { i \in DQ : e.left[i] = Unseen \/ e.right[i] = Unseen }
           dq   == DqMargin(e, s.dqOut, 0)
           dqs  == DqsMargin(e, s.dqOut, 0)
           at   == [i \in DQ |-> s.dqOut[i] + Shift(e, i, s.dqOut[i], 0)]
           fom  == gbl.fomOut + dq + dqs
           least == SmallestOf({dq, dqs})
           l    == [RdIdle EXCEPT !.d = DelayMax, !.start = e.start]
           w    == [WrIdle EXCEPT !.edges = l, !.bgn = Unseen, !.end = Unseen,
                                  !.bestBgn = Unseen, !.bestEnd = Unseen, !.margin = least]
           t    == [s EXCEPT !.dqOut = at, !.dqsOut = e.start]
           g    == [gbl EXCEPT !.fomOut = fom]
<1>1. e.start \in Tap /\ gbl \in Globals /\ gbl.fomOut \in Int /\ s.dqOut \in [DQ -> Tap]
      /\ 0 \in Int /\ DelayMax \in Tap
  BY Constants DEF OnlyOutput, Edges, Settings, TypeOK, Globals, Tap
<1>2. dq \in Int /\ dqs \in Int
  BY <1>1, MarginsType
<1>3. at \in [DQ -> Tap]
  BY <1>1, ShiftInChain
<1>4. \/ /\ missing # {}
         /\ WrReturn(FALSE, s, SetFailing(gbl, SmallestOf(missing), "WRITES", "WRITES_CENTER"))
      \/ WrGoto("wr_mask", t, w) /\ gbl' = [gbl EXCEPT !.fomOut = @ + dq + dqs]
           /\ UNCHANGED result
  BY Zenon DEF WrCentre
<1> HIDE DEF dq, dqs, at
<1>5. fom \in Int /\ least \in Int
  BY <1>1, <1>2, SmallerOfTwo
<1>6. [gbl EXCEPT !.fomOut = @ + dq + dqs] = g
  BY <1>1
<1> HIDE DEF fom, least
<1>7. /\ g \in Globals /\ g.stage = gbl.stage /\ g.readLat = gbl.readLat
  BY <1>1, <1>5, FomOut, Zenon
<1> HIDE DEF g
<1>8. CASE /\ missing # {}
           /\ WrReturn(FALSE, s, SetFailing(gbl, SmallestOf(missing), "WRITES", "WRITES_CENTER"))
  <2> DEFINE bit == SmallestOf(missing)
             h == SetFailing(gbl, bit, "WRITES", "WRITES_CENTER")
  <2>1. bit \in Int
    <3>1. missing \in SUBSET DQ
      OBVIOUS
    <3> QED
      BY <1>8, <3>1, FirstMissing
  <2>2. WrReturn(FALSE, s, h)
    BY <1>8
  <2> HIDE DEF missing, bit
  <2>3. "WRITES_CENTER" \in Substage /\ "WRITES" \in Stage
    BY DEF Substage, Stage
  <2>4. /\ h \in Globals /\ h.readLat = gbl.readLat
        /\ h.stage = IF gbl.stage = "NIL" THEN "WRITES" ELSE gbl.stage
    BY <1>1, <2>1, <2>3, SetFailingType
  <2> HIDE DEF h
  <2>5. /\ FALSE \in BOOLEAN
        /\ IF FALSE THEN h.stage = gbl.stage /\ Masked(s) ELSE h.stage \in {gbl.stage, "WRITES"}
    BY <2>4
  <2> QED
    BY <2>2, <2>4, <2>5, WrReturnGoes, Zenon
<1>9. CASE WrGoto("wr_mask", t, w) /\ gbl' = [gbl EXCEPT !.fomOut = @ + dq + dqs]
           /\ UNCHANGED result
  <2>1. OnlyOutput(phy, t)
    BY <1>1, <1>3, OutputSet, Zenon
  <2>2. t.dqsOut = e.start
    BY DEF OnlyOutput, Settings
  <2> HIDE DEF t
  <2>3. l \in Edges /\ l.start = e.start
    <3>1. RdIdle \in Edges
      BY NoEdges
    <3> QED
      BY <1>1, <3>1 DEF Edges
  <2> HIDE DEF l
  <2>4. w \in Mask
    BY <1>5, <2>3, NoMask, Zenon
  <2>5. w.bgn = Unseen /\ w.best = 0 /\ w.edges.start = e.start
    BY <2>3 DEF WrIdle
  <2> HIDE DEF w
  <2>6. step' = "wr_mask" /\ phy' = t /\ wr' = w
    BY <1>9 DEF WrGoto
  <2>7. MaskWindows'
    BY <2>2, <2>5, <2>6 DEF MaskWindows, WindowsPass
  <2>8. "wr_mask" \in WrStep \ {"wr_return"} /\ "wr_mask" \notin {"wr_right", "wr_mask_dqs"}
    BY DEF WrStep
  <2>9. gbl' = g /\ UNCHANGED result
    BY <1>6, <1>9
  <2>10. gbl' \in Globals /\ gbl'.stage = gbl.stage /\ gbl'.readLat = gbl.readLat
    BY <1>7, <2>9
  <2>11. WrGoto("wr_mask", t, w)
    BY <1>9
  <2> QED
    BY <2>1, <2>4, <2>7, <2>8, <2>9, <2>10, <2>11, WrGotoGoes, Zenon
<1> QED
  BY <1>4, <1>8, <1>9

(* the search of the right edges,                                             *)
LEMMA WrSeekRightGoes == ASSUME TypeOK, StrobeInChain, WrSeekRight PROVE WrGoes
<1> DEFINE was    == wr.edges
           s      == [phy EXCEPT !.dqsOut = was.start + was.d]
           bits   == WriteBits(s)
           sticky == was.sticky \cup bits
           stop   == bits = {} /\ sticky = DQ
           seen   == [RightSeen(was, bits) EXCEPT !.sticky = sticky]
           e      == IF stop THEN Marginal(was) ELSE seen
<1>1. /\ wr \in Mask /\ phy \in Settings /\ UNCHANGED <<board, rd>>
      /\ was \in Edges /\ was.d \in Tap /\ was.start \in Tap /\ was.sticky \in SUBSET DQ
      /\ DelayMax \in Nat /\ gbl \in Globals /\ was.start + was.d <= DelayMax
  BY Constants DEF TypeOK, WrSeekRight, Edges, Mask, StrobeInChain
<1>2. was.start + was.d \in Tap
  BY <1>1 DEF Tap
<1>3. OnlyOutput(phy, phy)
  BY <1>1, Unmoved
<1>4. OnlyOutput(phy, s)
  BY <1>2, <1>3, OutputSet, Zenon
<1>5. bits \in SUBSET DQ
  BY TestsType, Zenon
<1>6. \/ /\ ~ stop /\ was.d < DelayMax - was.start
         /\ WrGoto("wr_right", s, [wr EXCEPT !.edges = [seen EXCEPT !.d = @ + 1]])
         /\ UNCHANGED <<gbl, result>>
      \/ WrCentre(s, e)
  BY Zenon DEF WrSeekRight
<1> HIDE DEF s
<1> HIDE DEF bits
<1>7. sticky \in SUBSET DQ
  BY <1>1, <1>5
<1>8. /\ RightSeen(was, bits) \in Edges /\ RightSeen(was, bits).d = was.d
      /\ RightSeen(was, bits).start = was.start
  BY <1>1, <1>5, RightSeenType
<1>9. seen \in Edges /\ seen.d = was.d /\ seen.start = was.start
  <2> HIDE DEF was
  <2>1. seen \in Edges
    BY <1>7, <1>8, EdgesUpdated, Zenon
  <2> HIDE DEF sticky
  <2>2. seen.d = was.d /\ seen.start = was.start
    BY <1>8 DEF Edges
  <2> QED
    BY <2>1, <2>2
<1> HIDE DEF was
<1>10. e \in Edges
  BY <1>1, <1>9, MarginalType
<1> HIDE DEF sticky, stop, seen, e
<1>11. CASE /\ ~ stop /\ was.d < DelayMax - was.start
            /\ WrGoto("wr_right", s, [wr EXCEPT !.edges = [seen EXCEPT !.d = @ + 1]])
            /\ UNCHANGED <<gbl, result>>
  <2> DEFINE n == was.d + 1
             l == [seen EXCEPT !.d = n]
             w == [wr EXCEPT !.edges = l]
  <2>1. n \in Tap /\ was.start + n <= DelayMax
    BY <1>1, <1>11 DEF Tap
  <2>2. l = [seen EXCEPT !.d = @ + 1]
    BY <1>9
  <2> HIDE DEF n
  <2>3. l \in Edges
    BY <1>9, <2>1, EdgesUpdated, Zenon
  <2>4. l.d = n /\ l.start = was.start
    BY <1>9 DEF Edges
  <2> HIDE DEF l
  <2>5. w \in Mask
    BY <1>1, <2>3, MaskSet, Zenon
  <2>6. w.edges.start + w.edges.d <= DelayMax
    BY <1>1, <2>1, <2>4 DEF Mask
  <2>7. WrGoto("wr_right", s, w)
    BY <1>11, <2>2
  <2> HIDE DEF w
  <2>8. "wr_right" \in WrStep \ {"wr_return"} /\ "wr_right" \notin {"wr_mask", "wr_mask_dqs"}
    BY DEF WrStep
  <2>9. gbl' \in Globals /\ gbl'.stage = gbl.stage /\ gbl'.readLat = gbl.readLat
        /\ UNCHANGED <<board, rd>> /\ UNCHANGED result
    BY <1>1, <1>11
  <2> QED
    BY <1>4, <2>5, <2>6, <2>7, <2>8, <2>9, WrGotoGoes, Zenon
<1>12. CASE WrCentre(s, e)
  BY <1>1, <1>4, <1>10, <1>12, WrCentreGoes, Zenon
<1> QED
  BY <1>6, <1>11, <1>12

(* One more place of the mask: both windows still hold only places at which   *)
(* it passes.                                                                 *)
LEMMA Extended ==
  ASSUME NEW w \in Mask, NEW at \in Place, WindowsPass(w), at # Unseen,
         w.bgn # Unseen => w.end \in {at - 1, at},
         0 - (at + w.edges.start) \in board.mask
  PROVE  /\ Extend(w, at) \in Mask /\ WindowsPass(Extend(w, at))
         /\ Extend(w, at).edges = w.edges /\ Extend(w, at).end = at
         /\ Extend(w, at).margin = w.margin
<1> DEFINE bgn  == IF w.bgn = Unseen THEN at ELSE w.bgn
           size == at - bgn + 1
           more == size > w.best
           best == IF more THEN size ELSE w.best
           bestBgn == IF more THEN bgn ELSE w.bestBgn
           bestEnd == IF more THEN at ELSE w.bestEnd
           x == Extend(w, at)
<1>1. /\ at \in Int /\ w.bgn \in Int /\ w.end \in Int /\ w.best \in Nat
      /\ w.bgn \in Place /\ w.bestBgn \in Place /\ w.bestEnd \in Place
      /\ w.edges \in Edges
  BY Constants DEF Mask, Place
<1>2. bgn \in Place /\ bgn \in Int /\ bgn # Unseen /\ bgn <= at
  BY <1>1 DEF WindowsPass, MaskOpen
<1>3. \A y \in bgn .. at : 0 - (y + w.edges.start) \in board.mask
  <2>1. CASE w.bgn = Unseen
    <3>1. \A y \in bgn .. at : y = at
      BY <1>1, <2>1
    <3> QED
      BY <3>1
  <2>2. CASE w.bgn # Unseen
    <3>1. \A y \in bgn .. at : y = at \/ y \in w.bgn .. w.end
      BY <1>1, <2>2
    <3> QED
      BY <2>2, <3>1 DEF WindowsPass, MaskOpen
  <2> QED
    BY <2>1, <2>2
<1>4. MaskOpen(w.edges.start, bgn, at)
  BY <1>2, <1>3 DEF MaskOpen
<1>5. size \in Int /\ best \in Nat /\ bestBgn \in Place /\ bestEnd \in Place
  BY <1>1, <1>2
<1>6. best > 0 => MaskOpen(w.edges.start, bestBgn, bestEnd)
  BY <1>4 DEF WindowsPass
<1>7. x = [w EXCEPT !.bgn = bgn, !.end = at, !.best = best,
                    !.bestBgn = bestBgn, !.bestEnd = bestEnd]
  BY Zenon DEF Extend, Mask
<1> HIDE DEF bgn, best, bestBgn, bestEnd, x
<1>8. x \in Mask
  BY <1>2, <1>5, <1>7 DEF Mask
<1>9. /\ x.edges = w.edges /\ x.end = at /\ x.bgn = bgn /\ x.best = best
      /\ x.bestBgn = bestBgn /\ x.bestEnd = bestEnd /\ x.margin = w.margin
  BY <1>7 DEF Mask
<1>10. WindowsPass(x)
  BY <1>4, <1>6, <1>9 DEF WindowsPass
<1> QED
  BY <1>8, <1>9, <1>10 DEF x

(* A window of the mask that ends is kept when it is the largest.             *)
LEMMA BrokenOff ==
  ASSUME NEW w \in Mask, WindowsPass(w)
  PROVE  /\ Broken(w) \in Mask /\ WindowsPass(Broken(w))
         /\ Broken(w).edges = w.edges /\ Broken(w).bgn = Unseen
         /\ Broken(w).margin = w.margin
<1>1. Unseen \in Place
  BY Constants DEF Place
<1> QED
  BY <1>1 DEF Broken, Mask, WindowsPass

(* What of the windows of the mask has to be shown of a step that goes on.    *)
LEMMA MaskNext ==
  ASSUME UNCHANGED board, NEW next \in {"wr_mask", "wr_mask_dqs"}, NEW s, NEW w,
         WrGoto(next, s, w), WindowsPass(w),
         next = "wr_mask" => s.dqsOut = w.edges.start
                             /\ (w.bgn # Unseen => w.end = - (w.edges.d + 1)),
         next = "wr_mask_dqs" => s.dmOut = 0
                                 /\ (w.bgn # Unseen => w.end \in {w.edges.d - 1, w.edges.d})
  PROVE  MaskWindows'
<1>1. step' = next /\ phy' = s /\ wr' = w /\ board' = board
  BY DEF WrGoto
<1>2. WindowsPass(wr)'
  BY <1>1 DEF WindowsPass, MaskOpen
<1> QED
  BY <1>1, <1>2 DEF MaskWindows

(* The place at which a setting puts the mask.                                *)
LEMMA PassesAt ==
  ASSUME NEW s \in Settings, MaskPasses(s)
  PROVE  0 - ((s.dqsOut - s.dmOut)) \in board.mask
<1>1. s.dmOut \in Int /\ s.dqsOut \in Int /\ s.dmOut - s.dqsOut \in board.mask
  BY DEF Settings, MaskPasses, Masked, Tap
<1>2. 0 - (s.dqsOut - s.dmOut) = s.dmOut - s.dqsOut
  BY <1>1
<1> QED
  BY <1>1, <1>2

(* The mask is delayed as long as there is chain,                             *)
LEMMA WrSeekMaskGoes == ASSUME TypeOK, MaskWindows, WrSeekMask PROVE WrGoes
<1> DEFINE d == wr.edges.d
           s == [phy EXCEPT !.dmOut = d]
           w == IF MaskPasses(s) THEN Extend(wr, - d) ELSE Broken(wr)
           t == [s EXCEPT !.dmOut = 0]
           l == IF w.end # 0 THEN Broken(w) ELSE w
           n == d - 1
           m == [w EXCEPT !.edges.d = n]
<1>1. /\ wr \in Mask /\ phy \in Settings /\ UNCHANGED <<board, gbl, result, rd>>
      /\ wr.edges \in Edges /\ d \in Tap /\ wr.edges.start \in Tap /\ gbl \in Globals
      /\ DelayMax \in Nat /\ 0 \in Tap /\ step = "wr_mask"
  BY Constants DEF TypeOK, WrSeekMask, Mask, Edges
<1>2. /\ WindowsPass(wr) /\ phy.dqsOut = wr.edges.start
      /\ wr.bgn # Unseen => wr.end = - (d + 1)
  BY <1>1 DEF MaskWindows
<1>3. OnlyOutput(phy, s) /\ OnlyOutput(phy, t)
  <2>1. OnlyOutput(phy, phy)
    BY <1>1, Unmoved
  <2>2. OnlyOutput(phy, s)
    BY <1>1, <2>1, OutputSet, Zenon
  <2> QED
    BY <1>1, <2>2, OutputSet, Zenon
<1>4. s \in Settings /\ s.dmOut = d /\ s.dqsOut = wr.edges.start
      /\ t.dmOut = 0
  BY <1>1, <1>2 DEF Settings
<1>5. \/ d > 0 /\ WrGoto("wr_mask", s, m)
      \/ ~ (d > 0) /\ WrGoto("wr_mask_dqs", t, l)
  BY Zenon DEF WrSeekMask
<1> HIDE DEF s
<1>6. - d \in Place /\ - d # Unseen /\ - d \in Int /\ - (d + 1) = - d - 1
  BY <1>1, Constants DEF Place, Tap
<1>7. MaskPasses(s) => 0 - (- d + wr.edges.start) \in board.mask
  <2>1. wr.edges.start - d = - d + wr.edges.start
    BY <1>1 DEF Tap
  <2> QED
    BY <1>4, <2>1, PassesAt
<1>8. w \in Mask /\ WindowsPass(w) /\ w.edges = wr.edges /\ (w.bgn # Unseen => w.end = - d)
  <2>1. CASE MaskPasses(s)
    <3>1. wr.bgn # Unseen => wr.end \in {- d - 1, - d}
      BY <1>2, <1>6
    <3> DEFINE at == - d
    <3>2. /\ at \in Place /\ at # Unseen /\ 0 - (at + wr.edges.start) \in board.mask
          /\ (wr.bgn # Unseen => wr.end \in {at - 1, at})
      BY <1>6, <1>7, <2>1, <3>1
    <3> HIDE DEF at
    <3>3. /\ Extend(wr, at) \in Mask /\ WindowsPass(Extend(wr, at))
          /\ Extend(wr, at).edges = wr.edges /\ Extend(wr, at).end = at
      BY <1>1, <1>2, <3>2, Extended
    <3>4. w = Extend(wr, at)
      BY <2>1 DEF at
    <3> QED
      BY <3>3, <3>4 DEF at
  <2>2. CASE ~ MaskPasses(s)
    <3>1. /\ Broken(wr) \in Mask /\ WindowsPass(Broken(wr))
          /\ Broken(wr).edges = wr.edges /\ Broken(wr).bgn = Unseen
      BY <1>1, <1>2, BrokenOff
    <3>2. w = Broken(wr)
      BY <2>2
    <3> QED
      BY <3>1, <3>2
  <2> QED
    BY <2>1, <2>2
<1> HIDE DEF w
<1>9. gbl' \in Globals /\ gbl'.stage = gbl.stage /\ gbl'.readLat = gbl.readLat
      /\ UNCHANGED <<board, rd>> /\ UNCHANGED result /\ UNCHANGED board
  BY <1>1
<1>10. CASE d > 0 /\ WrGoto("wr_mask", s, m)
  <2>1. n \in Tap /\ - d = - (n + 1)
    BY <1>1, <1>10 DEF Tap
  <2> HIDE DEF n
  <2>2. m \in Mask
    BY <1>8, <2>1, MaskSet, Zenon
  <2>3. /\ m.edges.start = wr.edges.start /\ m.edges.d = n /\ m.bgn = w.bgn /\ m.end = w.end
        /\ m.best = w.best /\ m.bestBgn = w.bestBgn /\ m.bestEnd = w.bestEnd
    BY <1>1, <1>8 DEF Mask, Edges
  <2> HIDE DEF m
  <2>4. WindowsPass(m)
    BY <1>8, <2>3 DEF WindowsPass
  <2>5. /\ "wr_mask" \in WrStep \ {"wr_return"} /\ "wr_mask" \notin {"wr_right", "wr_mask_dqs"}
        /\ "wr_mask" \in {"wr_mask", "wr_mask_dqs"} /\ "wr_mask" # "wr_mask_dqs"
    BY DEF WrStep
  <2>6. s.dqsOut = m.edges.start /\ (m.bgn # Unseen => m.end = - (m.edges.d + 1))
    BY <1>4, <1>8, <2>1, <2>3
  <2>7. MaskWindows'
    BY <1>9, <1>10, <2>4, <2>5, <2>6, MaskNext, Zenon
  <2> QED
    BY <1>3, <1>9, <1>10, <2>2, <2>5, <2>7, WrGotoGoes, Zenon
<1>11. CASE ~ (d > 0) /\ WrGoto("wr_mask_dqs", t, l)
  <2>1. d = 0
    BY <1>1, <1>11 DEF Tap
  <2>2. /\ l \in Mask /\ WindowsPass(l) /\ l.edges = wr.edges
        /\ l.bgn # Unseen => l.end = 0
    BY <1>8, BrokenOff
  <2> HIDE DEF l, t
  <2>3. l.edges.start + l.edges.d <= DelayMax
    BY <1>1, <2>1, <2>2 DEF Tap
  <2>4. /\ "wr_mask_dqs" \in WrStep \ {"wr_return"}
        /\ "wr_mask_dqs" \in {"wr_mask", "wr_mask_dqs"} /\ "wr_mask_dqs" # "wr_mask"
    BY DEF WrStep
  <2>5. t.dmOut = 0 /\ (l.bgn # Unseen => l.end \in {l.edges.d - 1, l.edges.d})
    BY <1>4, <2>1, <2>2
  <2>6. MaskWindows'
    BY <1>9, <1>11, <2>2, <2>4, <2>5, MaskNext, Zenon
  <2> QED
    BY <1>3, <1>9, <1>11, <2>2, <2>3, <2>4, <2>6, WrGotoGoes, Zenon
<1> QED
  BY <1>5, <1>10, <1>11

(* The middle of the window lies in it, and in the chain of the mask.         *)
LEMMA MaskCentreGoes ==
  ASSUME TypeOK, UNCHANGED <<board, rd>>, NEW s, OnlyOutput(phy, s), NEW w \in Mask,
         WindowsPass(w), WrMaskCentre(s, w)
  PROVE  WrGoes
<1> DEFINE sum    == - w.bestBgn - w.bestEnd
           mid    == Half(sum)
           centre == IF mid < 0 THEN 0 ELSE mid
           margin == IF w.best = 0 THEN -1 ELSE - w.bestBgn - centre
           start  == w.edges.start
           ok     == w.margin >= 0 /\ margin >= 0
           t      == [s EXCEPT !.dqsOut = start, !.dmOut = centre]
<1>1. /\ w.bestBgn \in Place /\ w.bestEnd \in Place /\ w.bestBgn \in Int /\ w.bestEnd \in Int
      /\ w.best \in Nat /\ start \in Tap /\ start \in Int /\ gbl \in Globals
      /\ DelayMax \in Nat
      /\ s \in Settings
  BY Constants DEF Mask, Place, Edges, Tap, TypeOK, OnlyOutput
<1>2. WrReturn(ok, t, gbl)
  BY Zenon DEF WrMaskCentre
<1>3. sum \in Int /\ sum <= 2 * DelayMax
  BY <1>1, Constants DEF Place
<1>4. sum = - w.bestBgn - w.bestEnd
  OBVIOUS
<1> HIDE DEF sum
<1>5. mid \in Int /\ (sum >= 0 => 2 * mid <= sum /\ sum <= 2 * mid + 1)
                  /\ (sum < 0 => 2 * mid >= sum /\ sum >= 2 * mid - 1)
  BY <1>3, HalfType, HalfBounds
<1>6. mid >= 0 => sum >= -1
  BY <1>3, <1>5
<1>7. sum < 0 => mid <= 0
  BY <1>3, <1>5
<1> HIDE DEF mid
<1>8. centre \in Tap /\ centre \in Int /\ centre >= 0
  BY <1>1, <1>3, <1>5, <1>7 DEF Tap
<1>9. ok => Masked(t)
  <2> SUFFICES ASSUME ok PROVE Masked(t)
    OBVIOUS
  <2>1. w.best > 0 /\ - w.bestBgn - centre >= 0
    BY <1>1
  <2>2. /\ w.bestBgn <= w.bestEnd
        /\ \A x \in w.bestBgn .. w.bestEnd : 0 - (x + start) \in board.mask
    BY <2>1 DEF WindowsPass, MaskOpen
  <2>3. - centre <= w.bestEnd
    BY <1>1, <1>3, <1>4, <1>5, <1>6, <2>2
  <2>4. - centre \in w.bestBgn .. w.bestEnd
    BY <1>1, <1>8, <2>1, <2>3
  <2>5. 0 - (- centre + start) \in board.mask
    BY <2>2, <2>4
  <2>6. 0 - (- centre + start) = centre - start
    BY <1>1, <1>8
  <2>7. t.dmOut = centre /\ t.dqsOut = start
    <3> HIDE DEF centre, start
    <3> QED
      BY <1>1 DEF Settings
  <2> QED
    BY <2>5, <2>6, <2>7 DEF Masked
<1>10. ok \in BOOLEAN
  OBVIOUS
<1>11. OnlyOutput(phy, t)
  <2> HIDE DEF centre, start
  <2> QED
    BY <1>1, <1>8, OutputSet, Zenon
<1> HIDE DEF ok, t
<1>12. /\ gbl.readLat = gbl.readLat
       /\ IF ok THEN gbl.stage = gbl.stage /\ Masked(t) ELSE gbl.stage \in {gbl.stage, "WRITES"}
  BY <1>9
<1> QED
  BY <1>1, <1>2, <1>10, <1>11, <1>12, WrReturnGoes, Zenon

(* and the strobe, and the middle of the largest window is a place where the  *)
(* mask passes.                                                               *)
LEMMA WrSeekMaskDqsGoes ==
  ASSUME TypeOK, StrobeInChain, MaskWindows, WrSeekMaskDqs PROVE WrGoes
<1> DEFINE d    == wr.edges.d
           room == DelayMax - wr.edges.start - d
           s    == [phy EXCEPT !.dqsOut = wr.edges.start + d]
           good == MaskPasses(s)
           w    == IF good THEN Extend(wr, d) ELSE Broken(wr)
           n    == d + 1
           m    == [w EXCEPT !.edges.d = n]
<1>1. /\ wr \in Mask /\ phy \in Settings /\ UNCHANGED <<board, rd>>
      /\ wr.edges \in Edges /\ d \in Tap /\ wr.edges.start \in Tap /\ gbl \in Globals
      /\ DelayMax \in Nat /\ 0 \in Tap /\ step = "wr_mask_dqs"
  BY Constants DEF TypeOK, WrSeekMaskDqs, Mask, Edges
<1>2. /\ WindowsPass(wr) /\ phy.dmOut = 0 /\ wr.edges.start + d \in Tap
      /\ wr.bgn # Unseen => wr.end \in {d - 1, d}
  BY <1>1 DEF MaskWindows, StrobeInChain, Tap
<1>3. OnlyOutput(phy, s)
  <2>1. OnlyOutput(phy, phy)
    BY <1>1, Unmoved
  <2> QED
    BY <1>2, <2>1, OutputSet, Zenon
<1>4. s \in Settings /\ s.dmOut = 0 /\ s.dqsOut = wr.edges.start + d
  BY <1>1, <1>2 DEF Settings
<1>5. \/ /\ room > 0 /\ WrGoto("wr_mask_dqs", s, m)
         /\ UNCHANGED <<gbl, result>>
      \/ WrMaskCentre(s, w)
  BY Zenon DEF WrSeekMaskDqs
<1> HIDE DEF s
<1>6. d \in Place /\ d # Unseen /\ d \in Int
  BY <1>1, Constants DEF Place, Tap
<1>7. good => 0 - (d + wr.edges.start) \in board.mask
  <2>1. (wr.edges.start + d) - 0 = d + wr.edges.start
    BY <1>1 DEF Tap
  <2> QED
    BY <1>4, <2>1, PassesAt
<1>8. /\ w \in Mask /\ WindowsPass(w) /\ w.edges = wr.edges
      /\ w.bgn # Unseen => w.end = d
  <2>1. CASE good
    <3>1. /\ Extend(wr, d) \in Mask /\ WindowsPass(Extend(wr, d))
          /\ Extend(wr, d).edges = wr.edges /\ Extend(wr, d).end = d
      BY <1>1, <1>2, <1>6, <1>7, <2>1, Extended
    <3>2. w = Extend(wr, d)
      BY <2>1
    <3> QED
      BY <3>1, <3>2
  <2>2. CASE ~ good
    <3>1. /\ Broken(wr) \in Mask /\ WindowsPass(Broken(wr))
          /\ Broken(wr).edges = wr.edges /\ Broken(wr).bgn = Unseen
      BY <1>1, <1>2, BrokenOff
    <3>2. w = Broken(wr)
      BY <2>2
    <3> QED
      BY <3>1, <3>2
  <2> QED
    BY <2>1, <2>2
<1> HIDE DEF w
<1>9. CASE /\ room > 0 /\ WrGoto("wr_mask_dqs", s, m)
           /\ UNCHANGED <<gbl, result>>
  <2>1. n \in Tap /\ wr.edges.start + n <= DelayMax /\ n - 1 = d
    BY <1>1, <1>9 DEF Tap
  <2> HIDE DEF n
  <2>2. m \in Mask
    BY <1>8, <2>1, MaskSet, Zenon
  <2>3. /\ m.edges.start = wr.edges.start /\ m.edges.d = n /\ m.bgn = w.bgn /\ m.end = w.end
        /\ m.best = w.best /\ m.bestBgn = w.bestBgn /\ m.bestEnd = w.bestEnd
    BY <1>1, <1>8 DEF Mask, Edges
  <2> HIDE DEF m
  <2>4. WindowsPass(m)
    BY <1>8, <2>3 DEF WindowsPass
  <2>5. m.edges.start + m.edges.d <= DelayMax
    BY <2>1, <2>3
  <2>6. /\ "wr_mask_dqs" \in WrStep \ {"wr_return"}
        /\ "wr_mask_dqs" \in {"wr_mask", "wr_mask_dqs"} /\ "wr_mask_dqs" # "wr_mask"
    BY DEF WrStep
  <2>7. s.dmOut = 0 /\ (m.bgn # Unseen => m.end \in {m.edges.d - 1, m.edges.d})
    BY <1>4, <1>8, <2>1, <2>3
  <2>8. gbl' \in Globals /\ gbl'.stage = gbl.stage /\ gbl'.readLat = gbl.readLat
        /\ UNCHANGED <<board, rd>> /\ UNCHANGED result /\ UNCHANGED board
    BY <1>1, <1>9
  <2>9. MaskWindows'
    BY <1>9, <2>4, <2>6, <2>7, <2>8, MaskNext, Zenon
  <2> QED
    BY <1>3, <1>9, <2>2, <2>5, <2>6, <2>8, <2>9, WrGotoGoes, Zenon
<1>10. CASE WrMaskCentre(s, w)
  BY <1>1, <1>3, <1>8, <1>10, MaskCentreGoes, Zenon
<1> QED
  BY <1>5, <1>9, <1>10

(* So does every step of the deskew of the write side.                        *)
LEMMA WritesGoes ==
  ASSUME TypeOK, StrobeInChain, MaskWindows, WritesCenter
  PROVE  WrGoes /\ step \in WrStep \ {"wr_return"}
<1>1. WrGoes
  BY WrSeekLeftGoes, WrSeekRightGoes, WrSeekMaskGoes, WrSeekMaskDqsGoes DEF WritesCenter
<1> QED
  BY <1>1 DEF WritesCenter, WrSeekLeft, WrSeekRight, WrSeekMask, WrSeekMaskDqs, WrStep

-----------------------------------------------------------------------------
(* A step of each of the three parts keeps the invariant.                     *)
LEMMA ReachKept ==
  ASSUME UNCHANGED board, vf'.orig = vf.orig
  PROVE  \A i \in DQ : Reached(i, vf.orig)' <=> Reached(i, vf.orig)
BY DEF Reached, Delayed, Advanced

(* The test of a state is the test of its settings on its board.              *)
LEMMA ReadsKept ==
  ASSUME UNCHANGED board
  PROVE  Reads(phy)' <=> Reads(phy')
BY DEF Reads, GateOpen, GateTime

(* The search of the gate keeps the invariant.                                *)
LEMMA SearchKeeps ==
  ASSUME IInv, FindDqsEnPhase, UNCHANGED <<rd, wr, vf, reg, saved>>
  PROVE  IInv'
<1>1. EnGoes /\ step \in EnStep
  BY SearchGoes DEF IInv
<1>2. /\ TypeOK /\ Control /\ ErrorOfStage /\ RetriesReachLess /\ LatencyComesDown
      /\ UNCHANGED <<board, gbl, rd, wr, vf, reg, saved>>
      /\ step' \in EnStep /\ OnlyGate(phy, phy') /\ phy'.dqsIn = phy.dqsIn /\ phy'.mem = phy.mem
  BY <1>1 DEF IInv, EnGoes, OnlyGate, SameInput, SameMemory
<1>3. /\ step' \notin RdStep \cup WrStep \cup After \cup Before
      /\ step' \notin {"vfifo", "vfifo_try", "lfifo"}
      /\ step \notin RdStep \cup WrStep \cup After \cup Before
      /\ step \notin {"vfifo", "vfifo_try", "lfifo"}
      /\ step' \in Step
  BY <1>1, <1>2 DEF EnStep, RdStep, WrStep, After, Before, Step
<1>4. TypeOK'
  BY <1>1, <1>2, <1>3 DEF TypeOK, EnGoes, OnlyGate
<1>5. GateSearch'
  BY <1>1 DEF EnGoes
<1>6. StrobeInChain' /\ EdgesSeen' /\ MaskWindows' /\ MaskCentred' /\ SettingsWork'
  BY <1>3 DEF StrobeInChain, EdgesSeen, MaskWindows, MaskCentred, SettingsWork,
     RdStep, WrStep, After
<1>7. Control'
  BY <1>1, <1>2, <1>3 DEF Control, After, RdStep, Before
<1>8. ErrorOfStage'
  BY <1>1, <1>2, <1>3 DEF ErrorOfStage, RdStep, WrStep
<1>9. RetriesReachLess'
  <2>1. \A i \in DQ : Reached(i, vf.orig)' <=> Reached(i, vf.orig)
    BY <1>2, ReachKept
  <2>2. step' = "en_return" /\ result' => Reads(phy)'
    BY <1>1, <1>2, ReadsKept DEF EnGoes
  <2>3. reg.stage = "VFIFO" /\ vf.dqsIn >= vf.orig /\ phy.dqsIn = vf.dqsIn
    BY <1>1, <1>2 DEF RetriesReachLess, Control
  <2>4. gbl.stage # "NIL" => \E i \in DQ : ~ Reached(i, vf.orig)
    BY <1>1, <1>2, <2>3 DEF RetriesReachLess
  <2> QED
    BY <1>2, <1>3, <2>1, <2>2, <2>3, <2>4 DEF RetriesReachLess, RdStep
<1>10. LatencyComesDown'
  BY <1>1, <1>2, <1>3 DEF LatencyComesDown, InitialLatency
<1> QED
  BY <1>4, <1>5, <1>6, <1>7, <1>8, <1>9, <1>10 DEF IInv

(* Every step of the deskew of the read side ends, if it ends, with a verdict *)
(* that agrees with the board.                                                *)
LEMMA DeskewFinds ==
  ASSUME TypeOK, StrobeInChain, EdgesSeen, rd.useRead, VfifoCenter, UNCHANGED vf
  PROVE  EdgesSeen' /\ RdFound
<1>1. CASE RdSeekLeft
  <2>1. EdgesSeen'
    BY <1>1, LeftSearched
  <2>2. step' # "rd_return"
    BY <1>1 DEF RdSeekLeft, RdGoto
  <2> QED
    BY <2>1, <2>2 DEF RdFound
<1>2. CASE RdSeekRight
  BY <1>2, RightSearched
<1> QED
  BY <1>1, <1>2 DEF VfifoCenter

(* The deskew of the read side keeps the invariant.                           *)
LEMMA DeskewKeeps ==
  ASSUME IInv, VfifoCenter, UNCHANGED <<en, wr, dtaps, vf, reg, saved>>
  PROVE  IInv'
<1>1. RdGoes /\ step \in {"rd_left", "rd_right"}
  BY DeskewGoes DEF IInv
<1>2. /\ TypeOK /\ StrobeInChain /\ Control /\ ErrorOfStage /\ EdgesSeen
      /\ RetriesReachLess /\ MaskCentred /\ LatencyComesDown
      /\ UNCHANGED <<board, en, wr, dtaps, vf, reg, saved>>
      /\ step' \in RdStep /\ OnlyInput(phy, phy') /\ phy'.mem = phy.mem
      /\ phy'.dmOut = phy.dmOut /\ phy'.dqsOut = phy.dqsOut
      /\ step \in RdStep
  BY <1>1 DEF IInv, RdGoes, OnlyInput, SameMemory, SameOutput, RdStep
<1>3. /\ step' \notin EnStep \cup WrStep \cup After \cup Before
      /\ step' \notin {"vfifo", "vfifo_try", "lfifo", "wr_return", "en_return", "calibrate"}
      /\ step \notin EnStep \cup WrStep \cup After \cup Before
      /\ step \notin {"vfifo", "vfifo_try", "lfifo"}
      /\ step' \in Step
  BY <1>1, <1>2 DEF EnStep, RdStep, WrStep, After, Before, Step
<1>4. reg.stage = "VFIFO" <=> rd.useRead
  BY <1>1, <1>2 DEF Control
<1>5. TypeOK'
  BY <1>1, <1>2, <1>3 DEF TypeOK, RdGoes, OnlyInput
<1>6. StrobeInChain'
  BY <1>1 DEF RdGoes
<1>7. GateSearch' /\ MaskWindows' /\ SettingsWork'
  BY <1>3 DEF GateSearch, EnReady, MaskWindows, SettingsWork, EnStep, WrStep, After
<1>8. Control'
  <2>1. reg.stage \in {"VFIFO", "VFIFO_AFTER_WRITES"} /\ phy.mem = "open" /\ reg.mux # 2
        /\ reg.status = "RESET"
    BY <1>2, <1>3 DEF Control, After
  <2>2. step' \in {"rd_left", "rd_right"} => rd'.useRead = rd.useRead
    BY <1>1 DEF RdGoes
  <2> QED
    BY <1>2, <1>3, <1>4, <2>1, <2>2 DEF Control, After
<1>9. EdgesSeen' /\ (rd.useRead => RdFound)
  <2>1. CASE rd.useRead
    BY <1>2, <2>1, DeskewFinds
  <2>2. CASE ~ rd.useRead
    BY <1>1, <2>2 DEF EdgesSeen, RdGoes
  <2> QED
    BY <2>1, <2>2
<1>10. ErrorOfStage'
  <2>1. gbl.stage \in {"NIL", reg.stage} /\ (reg.stage = "VFIFO_AFTER_WRITES" => gbl.stage = "NIL")
    BY <1>1, <1>2, <1>3 DEF ErrorOfStage
  <2>2. reg.stage \in {"VFIFO", "VFIFO_AFTER_WRITES"}
    BY <1>2 DEF Control
  <2>3. \/ gbl'.stage = gbl.stage
        \/ step' = "rd_return" /\ ~ result' /\ gbl'.stage = reg.stage
    BY <1>1, <1>4, <2>2 DEF RdGoes
  <2> QED
    BY <1>2, <1>3, <2>1, <2>3 DEF ErrorOfStage, WrStep, After
<1>11. RetriesReachLess'
  <2>1. CASE rd.useRead
    <3>1. reg.stage = "VFIFO" /\ vf.dqsIn >= vf.orig /\ vf.orig \in Tap
          /\ (gbl.stage # "NIL" => \E i \in DQ : ~ Reached(i, vf.orig))
      BY <1>2, <1>4, <2>1 DEF RetriesReachLess, TypeOK, Locals
    <3>2. RdFound
      BY <1>9, <2>1
    <3>3. \A i \in DQ : Reached(i, vf.orig)' <=> Reached(i, vf.orig)
      BY <1>2, ReachKept
    <3>4. gbl'.stage # "NIL" => \E i \in DQ : ~ Reached(i, vf.orig)
      <4>1. step' # "rd_return" => gbl'.stage = gbl.stage
        BY <1>1 DEF RdGoes
      <4> QED
        BY <3>1, <3>2, <4>1 DEF RdFound
    <3>5. vf.orig >= vf.orig
      BY <3>1, Constants DEF Tap
    <3>6. step' = "rd_return" =>
            ((\E i \in DQ : ~ Reached(i, vf.orig)) => phy'.dqsIn = vf.orig /\ ~ result')
      BY <3>2 DEF RdFound
    <3>7. vf' = vf /\ reg' = reg
      BY <1>2
    <3> HIDE DEF RdFound
    <3> QED
      BY <1>3, <3>1, <3>3, <3>4, <3>5, <3>6, <3>7 DEF RetriesReachLess
  <2>2. CASE ~ rd.useRead
    BY <1>2, <1>3, <1>4, <2>2 DEF RetriesReachLess
  <2> QED
    BY <2>1, <2>2
<1>12. MaskCentred'
  BY <1>2, <1>3 DEF MaskCentred, Masked
<1>13. LatencyComesDown'
  <2>1. gbl'.readLat = gbl.readLat
    BY <1>1 DEF RdGoes
  <2> QED
    BY <1>2, <1>3, <2>1 DEF LatencyComesDown, InitialLatency
<1> QED
  BY <1>5, <1>6, <1>7, <1>8, <1>9, <1>10, <1>11, <1>12, <1>13 DEF IInv

(* The deskew of the write side keeps the invariant.                          *)
LEMMA WritesKeep ==
  ASSUME IInv, WritesCenter, UNCHANGED <<en, dtaps, vf, reg, saved>>
  PROVE  IInv'
<1>1. WrGoes /\ step \in WrStep \ {"wr_return"}
  BY WritesGoes DEF IInv
<1>2. /\ TypeOK /\ Control /\ ErrorOfStage /\ LatencyComesDown
      /\ UNCHANGED <<board, en, rd, dtaps, vf, reg, saved>>
      /\ step' \in WrStep /\ OnlyOutput(phy, phy') /\ phy'.mem = phy.mem /\ step \in WrStep
  BY <1>1 DEF IInv, WrGoes, OnlyOutput, SameMemory
<1>3. /\ step' \notin EnStep \cup RdStep \cup After \cup Before
      /\ step' \notin {"vfifo", "vfifo_try", "lfifo", "en_return", "calibrate"}
      /\ step \notin EnStep \cup RdStep \cup After \cup Before
      /\ step \notin {"vfifo", "vfifo_try", "lfifo"}
      /\ step' \in Step
  BY <1>2 DEF EnStep, RdStep, WrStep, After, Before, Step
<1>4. TypeOK'
  BY <1>1, <1>2, <1>3 DEF TypeOK, WrGoes, OnlyOutput
<1>5. StrobeInChain' /\ MaskWindows'
  BY <1>1 DEF WrGoes
<1>6. GateSearch' /\ EdgesSeen' /\ SettingsWork' /\ RetriesReachLess'
  BY <1>3 DEF GateSearch, EnReady, EdgesSeen, SettingsWork, RetriesReachLess,
     EnStep, RdStep, After
<1>7. Control'
  <2>1. reg.stage = "WRITES" /\ phy.mem = "open" /\ reg.mux # 2 /\ reg.status = "RESET"
    BY <1>2, <1>3 DEF Control, After
  <2> QED
    BY <1>2, <1>3, <2>1 DEF Control, After, RdStep
<1>8. ErrorOfStage' /\ MaskCentred'
  <2>1. gbl.stage = "NIL" /\ reg.stage = "WRITES"
    BY <1>1, <1>2 DEF ErrorOfStage, Control
  <2>2. step' # "wr_return" \/ result' => gbl'.stage = "NIL"
    BY <1>1, <2>1 DEF WrGoes
  <2>3. gbl'.stage \in {"NIL", "WRITES"}
    BY <1>1, <2>1 DEF WrGoes
  <2>4. ErrorOfStage'
    BY <1>2, <1>3, <2>1, <2>2, <2>3 DEF ErrorOfStage
  <2>5. step' = "wr_return" /\ result' => Masked(phy')
    BY <1>1 DEF WrGoes
  <2>6. MaskCentred'
    BY <1>2, <1>3, <2>5 DEF MaskCentred, Masked
  <2> QED
    BY <2>4, <2>6
<1>9. LatencyComesDown'
  <2>1. gbl'.readLat = gbl.readLat
    BY <1>1 DEF WrGoes
  <2> QED
    BY <1>2, <1>3, <2>1 DEF LatencyComesDown, InitialLatency
<1> QED
  BY <1>4, <1>5, <1>6, <1>7, <1>8, <1>9 DEF IInv

-----------------------------------------------------------------------------
(* A step of the sequencer itself keeps the invariant: one lemma for each.    *)
LEMMA Latencies ==
  ASSUME board \in Boards
  PROVE  /\ InitialLatency \in 1 .. LatencyMax /\ LatencyMax \in Nat \ {0, 1}
         /\ board.latency \in Nat
<1>1. /\ LatencyMax \in Nat \ {0, 1} /\ LatencyMargin \in Nat \ {0}
      /\ board.latency \in Nat /\ board.declared \in Nat
  BY LatencyAssumption
<1>2. board.declared + LatencyMargin \in Int /\ LatencyMax \in Int
      /\ board.declared + LatencyMargin >= 1 /\ LatencyMax >= 1
  BY <1>1
<1> DEFINE first == board.declared + LatencyMargin
<1>3. first \in Int /\ first >= 1
  BY <1>2
<1>4. InitialLatency = SmallestOf({first, LatencyMax})
  BY DEF InitialLatency
<1> HIDE DEF first
<1>5. InitialLatency = IF first <= LatencyMax THEN first ELSE LatencyMax
  BY <1>2, <1>3, <1>4, SmallerOfTwo
<1> QED
  BY <1>1, <1>2, <1>3, <1>5

(* The steps of each class, to see which parts of the invariant a step is     *)
(* about.                                                                     *)
LEMMA Classes ==
  /\ \A s \in Before : /\ s \in Step /\ s \notin EnStep \cup RdStep \cup WrStep \cup After
                       /\ s \notin {"vfifo", "vfifo_try", "lfifo"}
  /\ \A s \in After : /\ s \in Step /\ s \notin EnStep \cup RdStep \cup WrStep \cup Before
                      /\ s \notin {"vfifo", "vfifo_try", "lfifo"}
  /\ \A s \in {"vfifo", "vfifo_try", "lfifo"} :
       s \in Step /\ s \notin EnStep \cup RdStep \cup WrStep \cup Before \cup After
  /\ \A s \in EnStep : /\ s \in Step /\ s \notin RdStep \cup WrStep \cup Before \cup After
                       /\ s \notin {"vfifo", "vfifo_try", "lfifo"}
  /\ \A s \in RdStep : /\ s \in Step /\ s \notin EnStep \cup WrStep \cup Before \cup After
                       /\ s \notin {"vfifo", "vfifo_try", "lfifo"}
  /\ \A s \in WrStep : /\ s \in Step /\ s \notin EnStep \cup RdStep \cup Before \cup After
                       /\ s \notin {"vfifo", "vfifo_try", "lfifo"}
BY DEF Before, After, EnStep, RdStep, WrStep, Step

(* Most parts of the invariant say nothing of the steps between the           *)
(* searches.                                                                  *)
LEMMA NoSearch ==
  ASSUME step' \in Before \cup After \cup {"vfifo", "vfifo_try", "lfifo"}
  PROVE  GateSearch' /\ StrobeInChain' /\ EdgesSeen' /\ MaskWindows'
<1>1. step' \notin EnStep \cup RdStep \cup WrStep
  BY Classes
<1> QED
  BY <1>1 DEF GateSearch, EnReady, StrobeInChain, EdgesSeen, MaskWindows,
     EnStep, RdStep, WrStep

(* What may be written into the registers that the program shares,            *)
LEMMA RegistersSet ==
  ASSUME NEW r \in Registers
  PROVE  /\ \A x \in {"RESET", "SUCCESS", "FAIL"}, b \in BOOLEAN, m \in {0, 2, 3} :
              [r EXCEPT !.status = x, !.tracking = b, !.mux = m] \in Registers
         /\ \A m \in {0, 2, 3} : [r EXCEPT !.mux = m] \in Registers
         /\ \A b \in BOOLEAN : [r EXCEPT !.tracking = b] \in Registers
         /\ \A t \in Stage : [r EXCEPT !.stage = t] \in Registers
         /\ \A x \in {"RESET", "SUCCESS", "FAIL"}, f \in Int \X Int :
              [r EXCEPT !.status = x, !.fom = f] \in Registers
         /\ \A x \in {"RESET", "SUCCESS", "FAIL"}, f \in Failure :
              [r EXCEPT !.status = x, !.failing = f] \in Registers
BY DEF Registers

(* and into the settings.                                                     *)
LEMMA SettingsSet ==
  ASSUME NEW s \in Settings
  PROVE  /\ \A m \in {"reset", "closed", "open", "user"} : [s EXCEPT !.mem = m] \in Settings
         /\ \A b \in BOOLEAN : [s EXCEPT !.loaded = b] \in Settings
         /\ \A p \in 0 .. PhaseMax : [s EXCEPT !.enPhase = p] \in Settings
         /\ \A x \in Tap : [s EXCEPT !.dqsOut = x] \in Settings
         /\ \A n \in 0 .. LatencyMax : [s EXCEPT !.readLat = n] \in Settings
         /\ \A f \in [DQ -> Tap] : [s EXCEPT !.dqIn = f] \in Settings
         /\ \A x \in Tap : [s EXCEPT !.dqsIn = x] \in Settings
BY DEF Settings

(* initialize_reg_file keeps the invariant,                                   *)
LEMMA InitializeRegistersKeeps ==
  ASSUME IInv, InitializeRegisters PROVE IInv'
<1>1. /\ TypeOK /\ Control
      /\ step = "boot" /\ step' = "run" /\ dtaps' = DtapsPerPtap
      /\ UNCHANGED <<board, phy, gbl, result, en, rd, wr, vf, reg, saved>>
      /\ step \in Before /\ step' \in Before
  BY DEF IInv, InitializeRegisters, idle, Before
<1>2. TypeOK'
  <2>1. DtapsPerPtap \in Int
    BY PhaseInTaps
  <2> QED
    BY <1>1, <2>1, Classes DEF TypeOK
<1>3. Control'
  BY <1>1, Classes DEF Control
<1>4. /\ ErrorOfStage' /\ RetriesReachLess' /\ MaskCentred' /\ LatencyComesDown'
      /\ SettingsWork'
  BY <1>1, Classes DEF ErrorOfStage, RetriesReachLess, MaskCentred, LatencyComesDown,
     SettingsWork, WrStep, EnStep
<1> QED
  BY <1>1, <1>2, <1>3, <1>4, NoSearch DEF IInv

(* the step that takes the PHY from the controller,                           *)
LEMMA TakePhyKeeps ==
  ASSUME IInv, TakePhy PROVE IInv'
<1>1. /\ TypeOK /\ Control
      /\ step = "run" /\ step' = "calibrate" /\ saved' = reg.tracking
      /\ reg' = [reg EXCEPT !.status = "RESET", !.tracking = FALSE, !.mux = 3]
      /\ phy' = [phy EXCEPT !.mem = "closed"]
      /\ UNCHANGED <<board, gbl, result, en, rd, wr, vf, dtaps>>
      /\ step \in Before /\ step' \in Before
  BY DEF IInv, TakePhy, idle, Before, Initialized
<1>2. reg' \in Registers /\ phy' \in Settings /\ saved' \in BOOLEAN
  <2>1. reg \in Registers /\ phy \in Settings
    BY <1>1 DEF TypeOK
  <2>2. /\ "RESET" \in {"RESET", "SUCCESS", "FAIL"} /\ FALSE \in BOOLEAN /\ 3 \in {0, 2, 3}
        /\ "closed" \in {"reset", "closed", "open", "user"}
    OBVIOUS
  <2>3. reg' \in Registers
    BY <1>1, <2>1, <2>2, RegistersSet, Zenon
  <2>4. phy' \in Settings
    BY <1>1, <2>1, <2>2, SettingsSet, Zenon
  <2> QED
    BY <1>1, <2>1, <2>3, <2>4 DEF Registers
<1>3. TypeOK'
  BY <1>1, <1>2, Classes DEF TypeOK
<1>4. Control'
  <2>1. reg'.mux = 3 /\ reg'.status = "RESET" /\ phy'.mem = "closed"
    BY <1>1 DEF TypeOK, Registers, Settings
  <2> QED
    BY <1>1, <2>1, Classes DEF Control
<1>5. /\ ErrorOfStage' /\ RetriesReachLess' /\ MaskCentred' /\ LatencyComesDown'
      /\ SettingsWork'
  BY <1>1, Classes DEF ErrorOfStage, RetriesReachLess, MaskCentred, LatencyComesDown,
     SettingsWork, WrStep, EnStep
<1> QED
  BY <1>1, <1>3, <1>4, <1>5, NoSearch DEF IInv

(* and the start of mem_calibrate.                                            *)
LEMMA MemCalibrateKeeps ==
  ASSUME IInv, MemCalibrate PROVE IInv'
<1>1. /\ TypeOK /\ Control
      /\ step = "calibrate" /\ step' = "vfifo"
      /\ gbl' = [stage |-> "NIL", substage |-> "NIL", group |-> 255,
                 fomIn |-> 0, fomOut |-> 0, readLat |-> InitialLatency]
      /\ phy' = [Chains(phy.vfifo) EXCEPT !.readLat = InitialLatency,
                                          !.mem = RowsOpened(phy).mem]
      /\ vf' = [NoLocals EXCEPT !.failed = "GUARANTEED_READ"]
      /\ reg' = [reg EXCEPT !.stage = "VFIFO"]
      /\ UNCHANGED <<board, result, en, rd, wr, dtaps, saved>>
      /\ step \in Before /\ phy \in Settings /\ board \in Boards /\ phy.mem = "closed"
  BY DEF IInv, MemCalibrate, idle, Before, Control, TypeOK
<1>2. InitialLatency \in 1 .. LatencyMax /\ LatencyMax \in Nat \ {0, 1}
  BY <1>1, Latencies
<1>3. RowsOpened(phy).mem = "open"
  BY <1>1 DEF RowsOpened, Settings
<1>4. phy' \in Settings /\ phy'.mem = "open"
  <2> DEFINE z == [i \in DQ |-> 0]
  <2>1. z \in [DQ -> Tap] /\ 0 \in 0 .. PhaseMax /\ 0 \in 0 .. EnDelayMax /\ 0 \in Tap
        /\ 0 \in 0 .. LatencyMax /\ DqsInReserve \in Tap /\ DqsOutReserve \in Tap
        /\ InitialLatency \in 0 .. LatencyMax
    BY <1>2, Constants
  <2>2. phy.vfifo \in 0 .. VfifoSize - 1
    BY <1>1 DEF Settings
  <2>3. phy' = [ vfifo |-> phy.vfifo, enPhase |-> 0, enDelay |-> 0,
                 dqsIn |-> DqsInReserve, dqIn |-> z, dqsOut |-> DqsOutReserve, dqOut |-> z,
                 dmOut |-> 0, readLat |-> InitialLatency, loaded |-> FALSE, mem |-> "open" ]
    BY <1>1, <1>3 DEF Chains
  <2> HIDE DEF z
  <2> QED
    BY <2>1, <2>2, <2>3 DEF Settings
<1>5. gbl' \in Globals /\ vf' \in Locals /\ reg' \in Registers /\ gbl'.stage = "NIL"
      /\ gbl'.readLat = InitialLatency /\ reg'.stage = "VFIFO"
      /\ reg'.mux = reg.mux /\ reg'.status = reg.status
  <2>1. /\ "NIL" \in Stage /\ "VFIFO" \in Stage /\ "NIL" \in Substage
        /\ "GUARANTEED_READ" \in Substage
    BY DEF Stage, Substage
  <2>2. gbl' \in Globals
    <3>1. InitialLatency \in 0 .. LatencyMax + 1
      BY <1>2
    <3> QED
      BY <1>1, <2>1, <3>1 DEF Globals
  <2>3. 0 \in 0 .. DtapsPerPtap /\ 0 \in Tap
    BY PhaseInTaps, Constants
  <2>4. vf' = [d |-> 0, orig |-> 0, dqsIn |-> 0, failed |-> "GUARANTEED_READ"]
    BY <1>1 DEF NoLocals
  <2>5. vf' \in Locals
    BY <2>1, <2>3, <2>4 DEF Locals
  <2>6. reg \in Registers
    BY <1>1 DEF TypeOK
  <2>7. reg' \in Registers
    BY <1>1, <2>1, <2>6, RegistersSet, Zenon
  <2>8. reg'.stage = "VFIFO" /\ reg'.mux = reg.mux /\ reg'.status = reg.status
    BY <1>1, <2>6 DEF Registers
  <2> QED
    BY <1>1, <2>2, <2>5, <2>7, <2>8
<1>6. TypeOK'
  BY <1>1, <1>4, <1>5, Classes DEF TypeOK
<1>7. Control'
  <2>1. reg.mux # 2 /\ reg.status = "RESET"
    BY <1>1, Classes DEF Control
  <2> QED
    BY <1>1, <1>4, <1>5, <2>1, Classes DEF Control
<1>8. ErrorOfStage' /\ RetriesReachLess' /\ MaskCentred' /\ SettingsWork'
  BY <1>1, <1>5, Classes DEF ErrorOfStage, RetriesReachLess, MaskCentred,
     SettingsWork, WrStep, EnStep
<1>9. LatencyComesDown'
  BY <1>1, <1>5 DEF LatencyComesDown, InitialLatency
<1>10. step' \in Before \cup After \cup {"vfifo", "vfifo_try", "lfifo"}
  BY <1>1
<1> QED
  BY <1>6, <1>7, <1>8, <1>9, <1>10, NoSearch DEF IInv

(* The further the strobe is at the start, the less a deskew reaches: what it *)
(* reaches is a delay of the bit less that of the strobe from - DelayMax to   *)
(* DelayMax less the start.                                                   *)
LEMMA LaterReachesLess ==
  ASSUME NEW i \in DQ, NEW early \in Tap, NEW late \in Tap, early <= late, Reached(i, late)
  PROVE  Reached(i, early)
<1>1. early \in Int /\ late \in Int /\ early >= 0 /\ late <= DelayMax /\ DelayMax \in Nat
  BY Constants DEF Tap
<1>2. CASE Delayed(i, late, 0, DelayMax)
  <2>1. PICK x \in 0 .. DelayMax : x - late \in board.read[i]
    BY <1>2 DEF Delayed
  <2>2. CASE x - late >= - early
    <3>1. x - late + early \in 0 .. DelayMax /\ (x - late + early) - early = x - late
      BY <1>1, <2>1, <2>2
    <3> QED
      BY <2>1, <3>1 DEF Reached, Delayed
  <2>3. CASE x - late < - early
    <3>1. late - x - early \in 0 .. DelayMax - early
          /\ 0 - (early + (late - x - early)) = x - late
      BY <1>1, <2>1, <2>3
    <3> QED
      BY <2>1, <3>1 DEF Reached, Advanced
  <2> QED
    BY <1>1, <2>1, <2>2, <2>3
<1>3. CASE Advanced(i, late, 0, DelayMax - late)
  <2>1. PICK x \in 0 .. DelayMax - late : 0 - (late + x) \in board.read[i]
    BY <1>3 DEF Advanced
  <2>2. late + x - early \in 0 .. DelayMax - early
        /\ 0 - (early + (late + x - early)) = 0 - (late + x)
    BY <1>1, <2>1
  <2> QED
    BY <2>1, <2>2 DEF Reached, Advanced
<1> QED
  BY <1>2, <1>3 DEF Reached

(* The locals of the loops around the read side before they start,            *)
LEMMA LocalsIdle == NoLocals \in Locals
<1>1. 0 \in 0 .. DtapsPerPtap /\ 0 \in Tap /\ "NIL" \in Substage
  BY PhaseInTaps, Constants DEF Substage
<1> QED
  BY <1>1 DEF NoLocals, Locals

(* and what is written to them.                                               *)
LEMMA LocalsSet ==
  ASSUME NEW l \in Locals
  PROVE  /\ \A n \in 0 .. DtapsPerPtap, t \in Substage :
              /\ [l EXCEPT !.d = n, !.failed = t] \in Locals
              /\ [l EXCEPT !.d = n, !.failed = t].orig = l.orig
         /\ \A x \in Tap, y \in Tap :
              /\ [l EXCEPT !.orig = x, !.dqsIn = y] \in Locals
              /\ [l EXCEPT !.orig = x, !.dqsIn = y].orig = x
              /\ [l EXCEPT !.orig = x, !.dqsIn = y].dqsIn = y
         /\ \A y \in Tap, t \in Substage :
              /\ [l EXCEPT !.dqsIn = y, !.failed = t] \in Locals
              /\ [l EXCEPT !.dqsIn = y, !.failed = t].orig = l.orig
              /\ [l EXCEPT !.dqsIn = y, !.failed = t].dqsIn = y
BY DEF Locals

(* Output delays move only the output, and stay in their chains.              *)
LEMMA OutDelayType ==
  ASSUME NEW s \in Settings, NEW d \in 0 .. DtapsPerPtap
  PROVE  /\ OutDelay(s, d) \in Settings
         /\ OutDelay(s, d).dqsIn = s.dqsIn /\ OutDelay(s, d).mem = s.mem
<1> DEFINE x == IF d > OutDelayMax THEN d - OutDelayMax ELSE s.dqsOut
<1>1. s.dqsOut \in Tap /\ DtapsPerPtap \in Nat
  BY PhaseInTaps DEF Settings
<1>2. x \in Tap
  BY <1>1, OutDelayAssumption, Constants DEF Tap
<1>3. OutDelay(s, d) = [s EXCEPT !.dqsOut = x]
  BY DEF OutDelay
<1> HIDE DEF x
<1>4. [s EXCEPT !.dqsOut = x] \in Settings
  BY <1>2, SettingsSet, Zenon
<1> QED
  BY <1>3, <1>4 DEF Settings

(* Giving up leaves the stage of the step in the error.                       *)
LEMMA GivenUp ==
  ASSUME TypeOK, Control, UNCHANGED <<board, dtaps, reg, saved>>,
         en' \in Search, rd' \in Edges, wr' \in Mask, vf' \in Locals,
         step \in {"vfifo", "lfifo"} \cup EnStep \cup RdStep \cup WrStep,
         gbl.stage \in {"NIL", reg.stage}, reg.stage # "NIL",
         NEW grp \in Int, NEW sub \in Substage,
         gbl' = SetFailing(gbl, grp, reg.stage, sub),
         phy' \in Settings, phy'.mem = "open", Finish(FALSE)
  PROVE  IInv'
<1>1. step' = "handoff" /\ step' \in After /\ result' = FALSE
      /\ board' \in Boards /\ board' = board /\ dtaps' \in Int
      /\ reg' \in Registers /\ reg' = reg /\ saved' \in BOOLEAN
      /\ gbl \in Globals /\ reg.stage \in Stage
  BY DEF Finish, After, TypeOK, Registers
<1>2. gbl' \in Globals /\ gbl'.stage = reg.stage
  BY <1>1, SetFailingType
<1>3. step \notin After \cup Before
  BY Classes
<1>4. TypeOK'
  BY <1>1, <1>2, Classes DEF TypeOK
<1>5. Control'
  <2>1. reg.mux # 2 /\ reg.status = "RESET"
    BY <1>3 DEF Control, After
  <2> QED
    BY <1>1, <2>1, Classes DEF Control
<1>6. /\ ErrorOfStage' /\ RetriesReachLess' /\ MaskCentred' /\ LatencyComesDown'
      /\ SettingsWork'
  BY <1>1, <1>2, Classes DEF ErrorOfStage, RetriesReachLess, MaskCentred, LatencyComesDown,
     SettingsWork, WrStep, EnStep
<1> QED
  BY <1>1, <1>4, <1>5, <1>6, NoSearch DEF IInv

(* The outer loop of rw_mgr_mem_calibrate_vfifo goes on to the next output    *)
(* delay, or gives up.                                                        *)
LEMMA NextOutDelayKeeps ==
  ASSUME IInv, UNCHANGED <<board, dtaps, reg, saved>>,
         en' \in Search, rd' \in Edges, wr' \in Mask,
         step \in {"vfifo"} \cup EnStep \cup RdStep, reg.stage = "VFIFO",
         NEW s \in Settings, s.mem = "open", NEW failed \in Substage,
         gbl.stage # "NIL" => s.dqsIn >= vf.orig,
         NextOutDelay(s, gbl, failed)
  PROVE  IInv'
<1>1. /\ TypeOK /\ Control /\ ErrorOfStage /\ RetriesReachLess /\ LatencyComesDown
      /\ vf \in Locals /\ vf.d \in 0 .. DtapsPerPtap /\ gbl \in Globals /\ result \in BOOLEAN
      /\ reg' = reg /\ board' = board /\ dtaps' \in Int /\ saved' \in BOOLEAN
      /\ board' \in Boards /\ reg' \in Registers
  BY DEF IInv, TypeOK, Locals
<1>2. step \notin Before \cup After /\ step \notin WrStep /\ step # "lfifo"
  BY Classes
<1>3. gbl.stage \in {"NIL", reg.stage}
  BY <1>1, <1>2 DEF ErrorOfStage
<1>4. CASE vf.d + 2 <= DtapsPerPtap
  <2> DEFINE n == vf.d + 2
  <2>1. n \in 0 .. DtapsPerPtap
    BY <1>1, <1>4, PhaseInTaps
  <2>2. /\ vf' = [vf EXCEPT !.d = n, !.failed = failed]
        /\ phy' = OutDelay(s, n)
        /\ step' = "vfifo" /\ gbl' = gbl /\ result' = result
    BY <1>1, <1>4 DEF NextOutDelay
  <2> HIDE DEF n
  <2>3. vf' \in Locals /\ vf'.orig = vf.orig
    <3>1. vf \in Locals
      BY <1>1
    <3>2. [vf EXCEPT !.d = n, !.failed = failed] \in Locals
      BY <2>1, <3>1, LocalsSet
    <3>3. [vf EXCEPT !.d = n, !.failed = failed].orig = vf.orig
      BY <3>1 DEF Locals
    <3> QED
      BY <2>2, <3>2, <3>3
  <2>4. phy' \in Settings /\ phy'.dqsIn = s.dqsIn /\ phy'.mem = "open"
    BY <2>1, <2>2, OutDelayType
  <2>5. TypeOK'
    BY <1>1, <2>2, <2>3, <2>4, Classes DEF TypeOK
  <2>6. Control'
    <3>1. reg.mux # 2 /\ reg.status = "RESET"
      BY <1>1, <1>2 DEF Control, After
    <3> QED
      BY <1>1, <2>2, <2>4, <3>1, Classes DEF Control
  <2>7. ErrorOfStage' /\ MaskCentred' /\ SettingsWork'
    BY <1>1, <1>3, <2>2, Classes DEF ErrorOfStage, MaskCentred, SettingsWork, WrStep
  <2>8. RetriesReachLess'
    <3>1. \A i \in DQ : Reached(i, vf.orig)' <=> Reached(i, vf.orig)
      BY <1>1, <2>3, ReachKept
    <3>2. gbl.stage # "NIL" => \E i \in DQ : ~ Reached(i, vf.orig)
      BY <1>1 DEF RetriesReachLess
    <3> QED
      BY <1>1, <2>2, <2>3, <2>4, <3>1, <3>2, Classes DEF RetriesReachLess, EnStep, RdStep
  <2>9. LatencyComesDown'
    <3>1. gbl.readLat = InitialLatency
      BY <1>1 DEF LatencyComesDown
    <3> QED
      BY <1>1, <2>2, <3>1 DEF LatencyComesDown, InitialLatency
  <2>10. step' \in Before \cup After \cup {"vfifo", "vfifo_try", "lfifo"}
    BY <2>2
  <2> QED
    BY <2>5, <2>6, <2>7, <2>8, <2>9, <2>10, NoSearch DEF IInv
<1>5. CASE ~ (vf.d + 2 <= DtapsPerPtap)
  <2>1. /\ vf' = NoLocals /\ phy' = s /\ gbl' = SetFailing(gbl, 0, "VFIFO", failed)
        /\ Finish(FALSE)
    BY <1>5 DEF NextOutDelay
  <2>2. vf' \in Locals /\ 0 \in Int
    BY <2>1, LocalsIdle
  <2> QED
    BY <1>1, <1>3, <2>1, <2>2, GivenUp
<1> QED
  BY <1>4, <1>5

(* The next strobe delay to try, further on.                                  *)
LEMMA TryKeeps ==
  ASSUME IInv, UNCHANGED <<board, dtaps, reg, saved, gbl, result>>,
         en' \in Search, rd' \in Edges, wr' \in Mask,
         step \in {"vfifo"} \cup EnStep \cup RdStep, reg.stage = "VFIFO",
         phy' \in Settings, phy'.mem = "open", vf' \in Locals,
         vf'.dqsIn >= vf'.orig,
         gbl.stage # "NIL" => vf'.orig >= vf.orig,
         step' = "vfifo_try"
  PROVE  IInv'
<1>1. /\ TypeOK /\ Control /\ ErrorOfStage /\ RetriesReachLess /\ LatencyComesDown
      /\ gbl \in Globals /\ result \in BOOLEAN /\ vf \in Locals
      /\ reg' = reg /\ board' = board /\ dtaps' \in Int /\ saved' \in BOOLEAN
      /\ board' \in Boards /\ reg' \in Registers
  BY DEF IInv, TypeOK
<1>2. step \notin Before \cup After /\ step \notin WrStep /\ step # "lfifo"
  BY Classes
<1>3. gbl.stage \in {"NIL", reg.stage}
  BY <1>1, <1>2 DEF ErrorOfStage
<1>4. TypeOK'
  BY <1>1, Classes DEF TypeOK
<1>5. Control'
  <2>1. reg.mux # 2 /\ reg.status = "RESET"
    BY <1>1, <1>2 DEF Control, After
  <2> QED
    BY <1>1, <2>1, Classes DEF Control
<1>6. ErrorOfStage' /\ MaskCentred' /\ SettingsWork'
  BY <1>1, <1>3, Classes DEF ErrorOfStage, MaskCentred, SettingsWork, WrStep
<1>7. RetriesReachLess'
  <2>1. ASSUME gbl.stage # "NIL", NEW i \in DQ, ~ Reached(i, vf.orig) PROVE ~ Reached(i, vf.orig)'
    <3>1. vf.orig \in Tap /\ vf'.orig \in Tap /\ vf.orig <= vf'.orig
      BY <1>1, <2>1 DEF Locals, Tap
    <3>2. ~ Reached(i, vf'.orig)
      BY <2>1, <3>1, LaterReachesLess
    <3> QED
      BY <1>1, <3>2 DEF Reached, Delayed, Advanced
  <2>2. gbl.stage # "NIL" => \E i \in DQ : ~ Reached(i, vf.orig)
    BY <1>1 DEF RetriesReachLess
  <2> QED
    BY <1>1, <2>1, <2>2, Classes DEF RetriesReachLess, EnStep, RdStep
<1>8. LatencyComesDown'
  <2>1. gbl.readLat = InitialLatency
    BY <1>1 DEF LatencyComesDown
  <2> QED
    BY <1>1, <2>1 DEF LatencyComesDown, InitialLatency
<1>9. step' \in Before \cup After \cup {"vfifo", "vfifo_try", "lfifo"}
  OBVIOUS
<1> QED
  BY <1>4, <1>5, <1>6, <1>7, <1>8, <1>9, NoSearch DEF IInv

(* The guaranteed read keeps the invariant,                                   *)
LEMMA GuaranteedReadKeeps ==
  ASSUME IInv, GuaranteedRead PROVE IInv'
<1> DEFINE s == LoadPatterns(phy, phy.dqsOut \in board.pattern)
           t == [s EXCEPT !.enPhase = PhaseMax]
<1>1. /\ TypeOK /\ Control /\ RetriesReachLess
      /\ step = "vfifo" /\ step \in {"vfifo"} \cup EnStep \cup RdStep
      /\ UNCHANGED <<board, en, rd, wr, dtaps, reg, saved>>
      /\ UNCHANGED <<board, dtaps, reg, saved>>
      /\ phy \in Settings /\ vf \in Locals /\ vf.failed \in Substage
      /\ en' \in Search /\ rd' \in Edges /\ wr' \in Mask /\ phy.dqsIn \in Tap
  BY DEF IInv, TypeOK, GuaranteedRead, idle, Settings, Locals
<1>2. reg.stage = "VFIFO" /\ phy.mem = "open"
  BY <1>1, Classes DEF Control
<1>3. gbl.stage # "NIL" => phy.dqsIn >= vf.orig
  BY <1>1, <1>2 DEF RetriesReachLess
<1>4. \/ NextOutDelay(t, gbl, vf.failed)
      \/ \E p \in PhasesRead :
           /\ phy' = [s EXCEPT !.enPhase = p]
           /\ vf' = [vf EXCEPT !.orig = phy.dqsIn, !.dqsIn = phy.dqsIn]
           /\ step' = "vfifo_try" /\ UNCHANGED <<gbl, result>>
  BY Zenon DEF GuaranteedRead
<1>5. s \in Settings
  <2> DEFINE b == (phy.dqsOut \in board.pattern) /\ phy.mem = "open"
  <2>1. b \in BOOLEAN
    OBVIOUS
  <2>2. s = [phy EXCEPT !.loaded = b]
    BY DEF LoadPatterns
  <2> HIDE DEF b
  <2> QED
    BY <1>1, <2>1, <2>2, SettingsSet, Zenon
<1>6. s.dqsIn = phy.dqsIn /\ s.mem = "open" /\ s.enPhase = phy.enPhase
  BY <1>1, <1>2 DEF LoadPatterns, Settings
<1> HIDE DEF s
<1>7. PhaseMax \in 0 .. PhaseMax /\ PhasesRead \subseteq 0 .. PhaseMax
  BY <1>1, Constants DEF PhasesRead, Settings
<1>8. \A p \in 0 .. PhaseMax : /\ [s EXCEPT !.enPhase = p] \in Settings
                               /\ [s EXCEPT !.enPhase = p].dqsIn = phy.dqsIn
                               /\ [s EXCEPT !.enPhase = p].mem = "open"
  BY <1>5, <1>6 DEF Settings
<1>9. CASE NextOutDelay(t, gbl, vf.failed)
  <2>1. t \in Settings /\ t.mem = "open" /\ t.dqsIn = phy.dqsIn
    BY <1>7, <1>8
  <2> HIDE DEF t
  <2> QED
    BY <1>1, <1>2, <1>3, <1>9, <2>1, NextOutDelayKeeps
<1>10. CASE \E p \in PhasesRead :
             /\ phy' = [s EXCEPT !.enPhase = p]
             /\ vf' = [vf EXCEPT !.orig = phy.dqsIn, !.dqsIn = phy.dqsIn]
             /\ step' = "vfifo_try" /\ UNCHANGED <<gbl, result>>
  <2>1. phy' \in Settings /\ phy'.mem = "open"
    BY <1>7, <1>8, <1>10
  <2>2. /\ vf' = [vf EXCEPT !.orig = phy.dqsIn, !.dqsIn = phy.dqsIn]
        /\ step' = "vfifo_try" /\ UNCHANGED <<gbl, result>>
    BY <1>10
  <2>3. vf' \in Locals /\ vf'.orig = phy.dqsIn /\ vf'.dqsIn = phy.dqsIn
    BY <1>1, <2>2 DEF Locals
  <2>4. vf'.dqsIn >= vf'.orig
    BY <1>1, <2>3, Constants DEF Tap
  <2> QED
    BY <1>1, <1>2, <1>3, <2>1, <2>2, <2>3, <2>4, TryKeeps
<1> QED
  BY <1>4, <1>9, <1>10

(* The bits are spread over their chains, the last at most at its end.        *)
LEMMA SpreadInChain == [i \in DQ |-> i * DelayStep] \in [DQ -> Tap]
<1> DEFINE n == Cardinality(DQ) - 1
           q == DelayMax \div n
<1>1. n \in Nat \ {0} /\ DQ = 0 .. n /\ DelayMax \in Nat
  BY DelaysAssumption
<1>2. DelayStep = q
  BY DEF DelayStep
<1> HIDE DEF n
<1>3. q \in Nat /\ n * q <= DelayMax
  BY <1>1
<1> HIDE DEF q
<1>4. ASSUME NEW i \in DQ PROVE i * q \in Tap
  <2>1. i \in Nat /\ n - i \in Nat
    BY <1>1
  <2> DEFINE a == i * q
             b == (n - i) * q
             c == n * q
  <2>2. a \in Nat /\ b \in Nat /\ c \in Nat
    BY <1>1, <1>3, <2>1
  <2>3. a + b = c
    BY <1>1, <1>3, <2>1
  <2>4. c <= DelayMax
    BY <1>3
  <2> HIDE DEF a, b, c
  <2>5. a \in Tap
    BY <1>1, <2>2, <2>3, <2>4 DEF Tap
  <2> QED
    BY <2>5 DEF a
<1> QED
  BY <1>2, <1>4

(* and the sweep of the input delays.                                         *)
LEMMA SweepDqInKeeps ==
  ASSUME IInv, SweepDqIn PROVE IInv'
<1> DEFINE f == [i \in DQ |-> i * DelayStep]
           s == [phy EXCEPT !.dqsIn = vf.dqsIn, !.dqIn = f]
<1>1. /\ TypeOK /\ Control /\ ErrorOfStage /\ RetriesReachLess /\ LatencyComesDown
      /\ step = "vfifo_try" /\ step' = "en_fail"
      /\ phy' = [s EXCEPT !.enDelay = 0, !.enPhase = 1] /\ en' = EnIdle
      /\ UNCHANGED <<board, gbl, result, rd, wr, dtaps, vf, reg, saved>>
      /\ phy \in Settings /\ vf \in Locals /\ vf.dqsIn \in Tap
  BY DEF IInv, TypeOK, SweepDqIn, EnEnter, Locals
<1>2. reg.stage = "VFIFO" /\ phy.mem = "open" /\ reg.mux # 2 /\ reg.status = "RESET"
  BY <1>1, Classes DEF Control, After
<1>3. phy' \in Settings /\ phy'.dqsIn = vf.dqsIn /\ phy'.mem = "open"
  <2>1. f \in [DQ -> Tap]
    BY SpreadInChain
  <2>2. 0 \in 0 .. EnDelayMax /\ 1 \in 0 .. PhaseMax
    BY Constants
  <2> HIDE DEF f
  <2>3. s \in Settings /\ s.dqsIn = vf.dqsIn /\ s.mem = "open"
    BY <1>1, <1>2, <2>1 DEF Settings
  <2> HIDE DEF s
  <2> QED
    BY <1>1, <2>2, <2>3 DEF Settings
<1>4. step' \in EnStep
  BY <1>1 DEF EnStep
<1>5. TypeOK'
  BY <1>1, <1>3, <1>4, SearchIdle, Classes DEF TypeOK
<1>6. Control'
  BY <1>1, <1>2, <1>3, <1>4, Classes DEF Control
<1>7. GateSearch' /\ StrobeInChain' /\ EdgesSeen' /\ MaskWindows'
  BY <1>1 DEF GateSearch, EnReady, StrobeInChain, EdgesSeen, MaskWindows
<1>8. ErrorOfStage'
  <2>1. gbl.stage \in {"NIL", reg.stage}
    BY <1>1, Classes DEF ErrorOfStage
  <2> QED
    BY <1>1, <1>4, <2>1, Classes DEF ErrorOfStage, WrStep
<1>9. RetriesReachLess'
  <2>1. vf.dqsIn >= vf.orig
    BY <1>1, <1>2 DEF RetriesReachLess
  <2>2. gbl.stage # "NIL" => \E i \in DQ : ~ Reached(i, vf.orig)
    BY <1>1, <1>2 DEF RetriesReachLess
  <2>3. \A i \in DQ : Reached(i, vf.orig)' <=> Reached(i, vf.orig)
    BY <1>1, ReachKept
  <2> QED
    BY <1>1, <1>3, <1>4, <2>1, <2>2, <2>3 DEF RetriesReachLess
<1>10. MaskCentred' /\ SettingsWork'
  BY <1>1, <1>4, Classes DEF MaskCentred, SettingsWork
<1>11. LatencyComesDown'
  <2>1. gbl.readLat = InitialLatency
    BY <1>1 DEF LatencyComesDown
  <2> QED
    BY <1>1, <2>1 DEF LatencyComesDown, InitialLatency
<1> QED
  BY <1>5, <1>6, <1>7, <1>8, <1>9, <1>10, <1>11 DEF IInv

(* A deskew starts without any edge.                                          *)
LEMMA DeskewEnters ==
  ASSUME NEW s \in Settings, NEW useRead \in BOOLEAN, RdEnter(s, useRead)
  PROVE  /\ step' = "rd_left" /\ phy' = s /\ rd' \in Edges
         /\ rd'.start = s.dqsIn /\ rd'.useRead = useRead /\ LeftsTried(rd')
<1> DEFINE f == [i \in DQ |-> Unseen]
           e == [RdIdle EXCEPT !.left = f, !.right = f, !.start = s.dqsIn, !.useRead = useRead]
<1>1. f \in [DQ -> Int] /\ s.dqsIn \in Tap
  BY Constants DEF Settings
<1>2. step' = "rd_left" /\ phy' = s /\ rd' = e
  BY DEF RdEnter
<1>3. \A i \in DQ : f[i] = Unseen
  OBVIOUS
<1> HIDE DEF f
<1>4. e \in Edges
  BY <1>1, NoEdges, Zenon
<1>5. e.start = s.dqsIn /\ e.useRead = useRead /\ e.left = f /\ e.d = 0 /\ e.sticky = {}
  BY DEF RdIdle
<1> HIDE DEF e
<1>6. \A i \in DQ : ~ Delayed(i, s.dqsIn, 0, 0 - 1)
  BY <1>1, NothingBefore
<1>7. LeftsTried(e)
  BY <1>3, <1>5, <1>6 DEF LeftsTried
<1> QED
  BY <1>2, <1>4, <1>5, <1>7

(* A failed read side is tried again, or with another output delay.           *)
LEMMA NextStrobeDelayKeeps ==
  ASSUME IInv, UNCHANGED <<board, dtaps, reg, saved>>,
         en' \in Search, rd' \in Edges, wr' \in Mask,
         step \in EnStep \cup RdStep, reg.stage = "VFIFO",
         NEW s \in Settings, s.mem = "open", NEW failed \in Substage,
         gbl.stage # "NIL" => s.dqsIn >= vf.orig,
         NextStrobeDelay(s, failed)
  PROVE  IInv'
<1>1. /\ TypeOK /\ RetriesReachLess /\ vf \in Locals /\ vf.dqsIn \in Tap /\ vf.orig \in Tap
      /\ step \in {"vfifo"} \cup EnStep \cup RdStep
  BY DEF IInv, TypeOK, Locals
<1>2. vf.dqsIn >= vf.orig
  BY <1>1 DEF RetriesReachLess
<1>3. CASE vf.dqsIn < DelayMax
  <2> DEFINE x == vf.dqsIn + 1
  <2>1. x \in Tap /\ x >= vf.orig /\ vf.orig >= vf.orig
    BY <1>1, <1>2, <1>3, Constants DEF Tap
  <2>2. /\ vf' = [vf EXCEPT !.dqsIn = x, !.failed = failed]
        /\ phy' = s /\ step' = "vfifo_try" /\ UNCHANGED <<gbl, result>>
    BY <1>1, <1>3 DEF NextStrobeDelay
  <2> HIDE DEF x
  <2>3. vf' \in Locals /\ vf'.orig = vf.orig /\ vf'.dqsIn = x
    BY <1>1, <2>1, <2>2 DEF Locals
  <2> QED
    BY <1>1, <2>1, <2>2, <2>3, TryKeeps
<1>4. CASE ~ (vf.dqsIn < DelayMax)
  BY <1>1, <1>4, NextOutDelayKeeps DEF NextStrobeDelay
<1> QED
  BY <1>3, <1>4

(* What follows the search of the gate keeps the invariant,                   *)
LEMMA GateSearchedKeeps ==
  ASSUME IInv, GateSearched PROVE IInv'
<1> DEFINE s == [phy EXCEPT !.dqIn = [i \in DQ |-> 0]]
           t == [s EXCEPT !.dqsIn = vf.orig]
<1>1. /\ TypeOK /\ Control /\ ErrorOfStage /\ RetriesReachLess /\ LatencyComesDown
      /\ step = "en_return"
      /\ UNCHANGED <<board, en, wr, dtaps, reg, saved>> /\ UNCHANGED <<board, dtaps, reg, saved>>
      /\ phy \in Settings /\ vf \in Locals /\ vf.orig \in Tap /\ vf.dqsIn \in Tap
      /\ en' \in Search /\ wr' \in Mask /\ result \in BOOLEAN
  BY DEF IInv, TypeOK, GateSearched, Locals
<1>2. step \in EnStep /\ step \in EnStep \cup RdStep
  BY <1>1 DEF EnStep
<1>3. reg.stage = "VFIFO" /\ phy.mem = "open" /\ reg.mux # 2 /\ reg.status = "RESET"
  BY <1>1, <1>2, Classes DEF Control, After
<1>4. vf.dqsIn >= vf.orig /\ phy.dqsIn = vf.dqsIn /\ (result => Reads(phy))
  BY <1>1, <1>2, <1>3 DEF RetriesReachLess
<1>5. OnlyInput(phy, s) /\ OnlyInput(phy, t)
  <2>1. OnlyInput(phy, phy) /\ [i \in DQ |-> 0] \in [DQ -> Tap]
    BY <1>1, Unmoved, Constants
  <2>2. OnlyInput(phy, s)
    BY <2>1, InputSet, Zenon
  <2> QED
    BY <1>1, <2>2, InputSet, Zenon
<1>6. s.dqsIn = phy.dqsIn /\ s.mem = "open" /\ s \in Settings
      /\ t.dqsIn = vf.orig /\ t.mem = "open" /\ t \in Settings
  BY <1>1, <1>3, <1>5 DEF OnlyInput, SameMemory, Settings
<1>7. \/ result /\ RdEnter(t, TRUE) /\ UNCHANGED <<gbl, result, vf>>
      \/ ~ result /\ NextStrobeDelay(s, "DQS_EN_PHASE") /\ UNCHANGED rd
  BY <1>1 DEF GateSearched
<1> HIDE DEF s, t
<1>8. CASE result /\ RdEnter(t, TRUE) /\ UNCHANGED <<gbl, result, vf>>
  <2>1. /\ step' = "rd_left" /\ phy' = t /\ rd' \in Edges
        /\ rd'.start = vf.orig /\ rd'.useRead /\ LeftsTried(rd')
    BY <1>6, <1>8, DeskewEnters
  <2>2. step' \in RdStep
    BY <2>1 DEF RdStep
  <2>3. TypeOK'
    BY <1>1, <1>6, <1>8, <2>1, <2>2, Classes DEF TypeOK
  <2>4. Control'
    BY <1>1, <1>3, <1>6, <1>8, <2>1, <2>2, Classes DEF Control
  <2>5. GateSearch' /\ StrobeInChain' /\ MaskWindows'
    BY <2>1 DEF GateSearch, EnReady, StrobeInChain, MaskWindows
  <2>6. EdgesSeen'
    <3>1. Reads(t)
      BY <1>4, <1>5, <1>8, InputReads
    <3>2. Reads(phy)'
      BY <1>1, <2>1, <3>1, ReadsKept
    <3>3. LeftsTried(rd)'
      BY <1>1, <2>1 DEF LeftsTried, Delayed
    <3>4. phy'.dqsIn = rd'.start /\ rd'.start = vf'.orig
      BY <1>6, <1>8, <2>1
    <3> QED
      BY <2>1, <3>2, <3>3, <3>4 DEF EdgesSeen
  <2>7. ErrorOfStage'
    <3>1. gbl.stage \in {"NIL", reg.stage}
      BY <1>1, <1>2, Classes DEF ErrorOfStage
    <3> QED
      BY <1>1, <1>3, <1>8, <2>1, <2>2, <3>1, Classes DEF ErrorOfStage, WrStep
  <2>8. RetriesReachLess'
    <3>1. gbl.stage # "NIL" => \E i \in DQ : ~ Reached(i, vf.orig)
      BY <1>1, <1>2, <1>3 DEF RetriesReachLess
    <3>2. \A i \in DQ : Reached(i, vf.orig)' <=> Reached(i, vf.orig)
      BY <1>1, <1>8, ReachKept
    <3> QED
      BY <1>1, <1>4, <1>8, <2>1, <2>2, <3>1, <3>2, Classes DEF RetriesReachLess
  <2>9. MaskCentred' /\ SettingsWork'
    BY <1>1, <1>3, <2>1, <2>2, Classes DEF MaskCentred, SettingsWork
  <2>10. LatencyComesDown'
    <3>1. gbl.readLat = InitialLatency
      BY <1>1, <1>2 DEF LatencyComesDown
    <3> QED
      BY <1>1, <1>8, <2>1, <3>1 DEF LatencyComesDown, InitialLatency
  <2> QED
    BY <2>3, <2>4, <2>5, <2>6, <2>7, <2>8, <2>9, <2>10 DEF IInv
<1>9. CASE ~ result /\ NextStrobeDelay(s, "DQS_EN_PHASE") /\ UNCHANGED rd
  <2>1. rd' \in Edges /\ "DQS_EN_PHASE" \in Substage
    BY <1>1, <1>9 DEF TypeOK, Substage
  <2>2. gbl.stage # "NIL" => s.dqsIn >= vf.orig
    BY <1>4, <1>6
  <2> QED
    BY <1>1, <1>2, <1>3, <1>6, <1>9, <2>1, <2>2, NextStrobeDelayKeeps
<1> QED
  BY <1>7, <1>8, <1>9

(* what follows the first deskew of the read side,                            *)
LEMMA ReadSideDoneKeeps ==
  ASSUME IInv, ReadSideDone PROVE IInv'
<1> DEFINE s == IF vf.d > 0 THEN ZeroOut(phy) ELSE phy
<1>1. /\ TypeOK /\ Control /\ ErrorOfStage /\ RetriesReachLess /\ LatencyComesDown
      /\ step = "rd_return" /\ reg.stage = "VFIFO"
      /\ UNCHANGED <<board, en, rd, dtaps, saved>>
      /\ phy \in Settings /\ vf \in Locals /\ reg \in Registers
      /\ en' \in Search /\ rd' \in Edges /\ result \in BOOLEAN
  BY DEF IInv, TypeOK, ReadSideDone
<1>2. step \in RdStep /\ step \in EnStep \cup RdStep
  BY <1>1 DEF RdStep
<1>3. phy.mem = "open" /\ reg.mux # 2 /\ reg.status = "RESET"
  BY <1>1, <1>2, Classes DEF Control, After
<1>4. \/ /\ result /\ WrEnter(s) /\ vf' = NoLocals /\ reg' = [reg EXCEPT !.stage = "WRITES"]
         /\ UNCHANGED <<gbl, result>>
      \/ ~ result /\ NextStrobeDelay(phy, "VFIFO_CENTER") /\ UNCHANGED <<wr, reg>>
  BY <1>1 DEF ReadSideDone
<1>5. s \in Settings /\ s.mem = "open"
  <2> DEFINE z == [i \in DQ |-> 0]
  <2>1. z \in [DQ -> Tap] /\ 0 \in Tap /\ DqsOutReserve \in Tap
    BY Constants
  <2>2. ZeroOut(phy) = [phy EXCEPT !.dqsOut = DqsOutReserve, !.dqOut = z, !.dmOut = 0]
    BY DEF ZeroOut
  <2> HIDE DEF z
  <2>3. ZeroOut(phy) \in Settings /\ ZeroOut(phy).mem = "open"
    BY <1>1, <1>3, <2>1, <2>2 DEF Settings
  <2> QED
    BY <1>1, <1>3, <2>3
<1> HIDE DEF s
<1>6. CASE /\ result /\ WrEnter(s) /\ vf' = NoLocals /\ reg' = [reg EXCEPT !.stage = "WRITES"]
           /\ UNCHANGED <<gbl, result>>
  <2>1. /\ step' = "wr_left" /\ phy' = s /\ gbl' = gbl /\ result' = result
    BY <1>6 DEF WrEnter
  <2>2. step' \in WrStep
    BY <2>1 DEF WrStep
  <2>3. wr' \in Mask
    <3> DEFINE f == [i \in DQ |-> Unseen]
               e == [RdIdle EXCEPT !.left = f, !.right = f, !.start = s.dqsOut]
    <3>1. f \in [DQ -> Int] /\ s.dqsOut \in Tap
      BY <1>5, Constants DEF Settings
    <3>2. wr' = [WrIdle EXCEPT !.edges = e]
      BY <1>6 DEF WrEnter
    <3> HIDE DEF f
    <3>3. RdIdle \in Edges
      BY NoEdges
    <3>4. e \in Edges
      BY <3>1, <3>3 DEF Edges
    <3> HIDE DEF e
    <3> QED
      BY <3>2, <3>4, NoMask, Zenon
  <2>4. reg' \in Registers /\ reg'.stage = "WRITES" /\ reg'.mux = reg.mux
        /\ reg'.status = reg.status
    <3>1. "WRITES" \in Stage
      BY DEF Stage
    <3> QED
      BY <1>1, <1>6, <3>1 DEF Registers
  <2>5. vf' \in Locals
    BY <1>6, LocalsIdle
  <2>6. TypeOK'
    BY <1>1, <1>5, <2>1, <2>2, <2>3, <2>4, <2>5, Classes DEF TypeOK
  <2>7. Control'
    BY <1>1, <1>3, <1>5, <2>1, <2>2, <2>4, Classes DEF Control
  <2>8. gbl.stage = "NIL"
    BY <1>1, <1>2, <1>6 DEF RetriesReachLess
  <2>9. ErrorOfStage' /\ RetriesReachLess'
    BY <2>1, <2>2, <2>4, <2>8, Classes DEF ErrorOfStage, RetriesReachLess
  <2>10. GateSearch' /\ StrobeInChain' /\ EdgesSeen' /\ MaskWindows'
    BY <2>1 DEF GateSearch, EnReady, StrobeInChain, EdgesSeen, MaskWindows
  <2>11. MaskCentred' /\ SettingsWork'
    BY <2>1, <2>2, Classes DEF MaskCentred, SettingsWork
  <2>12. LatencyComesDown'
    <3>1. gbl.readLat = InitialLatency
      BY <1>1, <1>2 DEF LatencyComesDown
    <3> QED
      BY <1>1, <2>1, <3>1 DEF LatencyComesDown, InitialLatency
  <2> QED
    BY <2>6, <2>7, <2>9, <2>10, <2>11, <2>12 DEF IInv
<1>7. CASE ~ result /\ NextStrobeDelay(phy, "VFIFO_CENTER") /\ UNCHANGED <<wr, reg>>
  <2>1. wr' \in Mask /\ "VFIFO_CENTER" \in Substage /\ UNCHANGED <<board, dtaps, reg, saved>>
    BY <1>1, <1>7 DEF TypeOK, Substage
  <2>2. gbl.stage # "NIL" => phy.dqsIn >= vf.orig
    BY <1>1, <1>2 DEF RetriesReachLess
  <2> QED
    BY <1>1, <1>2, <1>3, <1>7, <2>1, <2>2, NextStrobeDelayKeeps
<1> QED
  BY <1>4, <1>6, <1>7

(* the deskew of the write side                                               *)
LEMMA WriteSideDoneKeeps ==
  ASSUME IInv, WriteSideDone PROVE IInv'
<1>1. /\ TypeOK /\ Control /\ ErrorOfStage /\ MaskCentred /\ LatencyComesDown
      /\ step = "wr_return" /\ UNCHANGED <<board, en, wr, dtaps, vf, saved>>
      /\ phy \in Settings /\ reg \in Registers /\ result \in BOOLEAN
      /\ en' \in Search /\ wr' \in Mask /\ vf' \in Locals
  BY DEF IInv, TypeOK, WriteSideDone
<1>2. step \in WrStep
  BY <1>1 DEF WrStep
<1>3. reg.stage = "WRITES" /\ phy.mem = "open" /\ reg.mux # 2 /\ reg.status = "RESET"
  BY <1>1, <1>2, Classes DEF Control, After
<1>4. \/ /\ result /\ RdEnter(phy, FALSE) /\ reg' = [reg EXCEPT !.stage = "VFIFO_AFTER_WRITES"]
         /\ UNCHANGED <<gbl, result>>
      \/ /\ ~ result /\ gbl' = SetFailing(gbl, 0, "WRITES", "WRITES_CENTER") /\ Finish(FALSE)
         /\ UNCHANGED <<phy, rd, reg>>
  BY <1>1 DEF WriteSideDone
<1>5. CASE /\ result /\ RdEnter(phy, FALSE)
           /\ reg' = [reg EXCEPT !.stage = "VFIFO_AFTER_WRITES"] /\ UNCHANGED <<gbl, result>>
  <2>1. /\ step' = "rd_left" /\ phy' = phy /\ rd' \in Edges /\ ~ rd'.useRead
        /\ gbl' = gbl /\ result' = result
    BY <1>1, <1>5, DeskewEnters
  <2>2. step' \in RdStep
    BY <2>1 DEF RdStep
  <2>3. reg' \in Registers /\ reg'.stage = "VFIFO_AFTER_WRITES" /\ reg'.mux = reg.mux
        /\ reg'.status = reg.status
    <3>1. "VFIFO_AFTER_WRITES" \in Stage
      BY DEF Stage
    <3> QED
      BY <1>1, <1>5, <3>1 DEF Registers
  <2>4. TypeOK'
    BY <1>1, <2>1, <2>2, <2>3, Classes DEF TypeOK
  <2>5. Control'
    BY <1>1, <1>3, <2>1, <2>2, <2>3, Classes DEF Control
  <2>6. gbl.stage = "NIL" /\ Masked(phy)
    BY <1>1, <1>5 DEF ErrorOfStage, MaskCentred
  <2>7. ErrorOfStage' /\ RetriesReachLess'
    BY <2>1, <2>2, <2>3, <2>6, Classes DEF ErrorOfStage, RetriesReachLess
  <2>8. GateSearch' /\ StrobeInChain' /\ EdgesSeen' /\ MaskWindows'
    BY <2>1 DEF GateSearch, EnReady, StrobeInChain, EdgesSeen, MaskWindows
  <2>9. MaskCentred' /\ SettingsWork'
    BY <1>1, <2>1, <2>2, <2>6, Classes DEF MaskCentred, SettingsWork, Masked
  <2>10. LatencyComesDown'
    <3>1. gbl.readLat = InitialLatency
      BY <1>1, <1>2 DEF LatencyComesDown
    <3> QED
      BY <1>1, <2>1, <3>1 DEF LatencyComesDown, InitialLatency
  <2> QED
    BY <2>4, <2>5, <2>7, <2>8, <2>9, <2>10 DEF IInv
<1>6. CASE /\ ~ result /\ gbl' = SetFailing(gbl, 0, "WRITES", "WRITES_CENTER") /\ Finish(FALSE)
           /\ UNCHANGED <<phy, rd, reg>>
  <2>1. gbl.stage \in {"NIL", reg.stage} /\ reg.stage # "NIL"
    BY <1>1, <1>2, <1>3, Classes DEF ErrorOfStage
  <2>2. rd' \in Edges /\ phy' \in Settings /\ phy'.mem = "open"
        /\ UNCHANGED <<board, dtaps, reg, saved>> /\ "WRITES_CENTER" \in Substage /\ 0 \in Int
    BY <1>1, <1>3, <1>6 DEF TypeOK, Substage
  <2> QED
    BY <1>1, <1>2, <1>3, <1>6, <2>1, <2>2, GivenUp
<1> QED
  BY <1>4, <1>5, <1>6

(* and the second deskew of the read side.                                    *)
LEMMA ReadSideDoneAgainKeeps ==
  ASSUME IInv, ReadSideDoneAgain PROVE IInv'
<1> DEFINE b == Stored(phy) = DQ
           s == LoadPatterns(phy, b)
<1>1. /\ TypeOK /\ Control /\ ErrorOfStage /\ MaskCentred /\ LatencyComesDown
      /\ step = "rd_return" /\ reg.stage = "VFIFO_AFTER_WRITES"
      /\ UNCHANGED <<board, en, rd, wr, dtaps, vf, saved>>
      /\ phy \in Settings /\ reg \in Registers /\ result \in BOOLEAN /\ board \in Boards
      /\ en' \in Search /\ wr' \in Mask /\ vf' \in Locals /\ rd' \in Edges
  BY DEF IInv, TypeOK, ReadSideDoneAgain, idle
<1>2. step \in RdStep
  BY <1>1 DEF RdStep
<1>3. phy.mem = "open" /\ reg.mux # 2 /\ reg.status = "RESET"
  BY <1>1, <1>2, Classes DEF Control, After
<1>4. \/ /\ result /\ phy' = s /\ reg' = [reg EXCEPT !.stage = "LFIFO"] /\ step' = "lfifo"
         /\ UNCHANGED <<gbl, result>>
      \/ /\ ~ result /\ gbl' = SetFailing(gbl, 0, "VFIFO_AFTER_WRITES", "VFIFO_CENTER")
         /\ Finish(FALSE) /\ UNCHANGED <<phy, reg>>
  BY <1>1 DEF ReadSideDoneAgain
<1>5. CASE /\ result /\ phy' = s /\ reg' = [reg EXCEPT !.stage = "LFIFO"] /\ step' = "lfifo"
           /\ UNCHANGED <<gbl, result>>
  <2>1. b \in BOOLEAN
    OBVIOUS
  <2>2. b => Stored(phy) = DQ
    OBVIOUS
  <2> HIDE DEF b
  <2>3. /\ phy' \in Settings /\ phy'.mem = "open" /\ (phy'.loaded => b)
        /\ phy'.dqOut = phy.dqOut /\ phy'.dqsOut = phy.dqsOut /\ phy'.dmOut = phy.dmOut
    <3> DEFINE c == b /\ phy.mem = "open"
    <3>1. c \in BOOLEAN /\ (c => b)
      OBVIOUS
    <3>2. phy' = [phy EXCEPT !.loaded = c]
      BY <1>5 DEF LoadPatterns
    <3> HIDE DEF c
    <3> QED
      BY <1>1, <1>3, <3>1, <3>2 DEF Settings
  <2>4. reg' \in Registers /\ reg'.stage = "LFIFO" /\ reg'.mux = reg.mux
        /\ reg'.status = reg.status
    <3>1. "LFIFO" \in Stage
      BY DEF Stage
    <3> QED
      BY <1>1, <1>5, <3>1 DEF Registers
  <2>5. step' = "lfifo" /\ gbl' = gbl /\ result' = result
    BY <1>5
  <2>6. TypeOK'
    BY <1>1, <2>3, <2>4, <2>5, Classes DEF TypeOK
  <2>7. Control'
    BY <1>1, <1>3, <2>3, <2>4, <2>5, Classes DEF Control
  <2>8. gbl.stage = "NIL" /\ Masked(phy)
    BY <1>1, <1>2, <1>5 DEF ErrorOfStage, MaskCentred
  <2>9. ErrorOfStage' /\ RetriesReachLess'
    BY <2>4, <2>5, <2>8, Classes DEF ErrorOfStage, RetriesReachLess, EnStep
  <2>10. MaskCentred' /\ SettingsWork'
    BY <1>1, <2>3, <2>5, <2>8, Classes DEF MaskCentred, SettingsWork, Masked
  <2>11. LatencyComesDown'
    <3>1. gbl.readLat = InitialLatency /\ InitialLatency \in 1 .. LatencyMax
      BY <1>1, <1>2, Latencies DEF LatencyComesDown
    <3>2. ~ (gbl.readLat < InitialLatency) /\ gbl.readLat \in 1 .. InitialLatency
      BY <3>1
    <3>3. InitialLatency' = InitialLatency
      BY <1>1 DEF InitialLatency
    <3>4. phy'.loaded => Stored(phy)' = DQ
      BY <1>1, <2>2, <2>3 DEF Stored
    <3> QED
      BY <2>5, <3>2, <3>3, <3>4, Classes DEF LatencyComesDown
  <2>12. step' \in Before \cup After \cup {"vfifo", "vfifo_try", "lfifo"}
    BY <2>5
  <2> QED
    BY <2>6, <2>7, <2>9, <2>10, <2>11, <2>12, NoSearch DEF IInv
<1>6. CASE /\ ~ result /\ gbl' = SetFailing(gbl, 0, "VFIFO_AFTER_WRITES", "VFIFO_CENTER")
           /\ Finish(FALSE) /\ UNCHANGED <<phy, reg>>
  <2>1. gbl.stage \in {"NIL", reg.stage} /\ reg.stage # "NIL"
    BY <1>1, <1>2, Classes DEF ErrorOfStage
  <2>2. phy' \in Settings /\ phy'.mem = "open"
        /\ UNCHANGED <<board, dtaps, reg, saved>> /\ "VFIFO_CENTER" \in Substage /\ 0 \in Int
    BY <1>1, <1>3, <1>6 DEF Substage
  <2> QED
    BY <1>1, <1>2, <1>6, <2>1, <2>2, GivenUp
<1> QED
  BY <1>4, <1>5, <1>6

(* The greater of two latencies.                                              *)
LEMMA GreaterOfTwo ==
  ASSUME NEW a \in Int, NEW b \in Int
  PROVE  LargestOf({a, b}) = IF a >= b THEN a ELSE b
<1>1. \E x \in {a, b} : \A y \in {a, b} : x >= y
  OBVIOUS
<1>2. LargestOf({a, b}) \in {a, b} /\ \A y \in {a, b} : LargestOf({a, b}) >= y
  BY <1>1 DEF LargestOf
<1> QED
  BY <1>2

(* What a read test of all bits says of a latency, and of the next lower one. *)
LEMMA AllRead ==
  ASSUME phy \in Settings, board \in Boards, NEW n \in 0 .. LatencyMax,
         ReadBits([phy EXCEPT !.readLat = n]) = DQ
  PROVE  /\ phy.loaded /\ phy.mem = "open" /\ GateOpen(phy) /\ n >= board.latency
         /\ \A i \in DQ : phy.dqIn[i] - phy.dqsIn \in board.read[i]
<1> DEFINE s == [phy EXCEPT !.readLat = n]
<1>1. /\ s.readLat = n /\ s.loaded = phy.loaded /\ s.mem = phy.mem /\ s.vfifo = phy.vfifo
      /\ s.enPhase = phy.enPhase /\ s.enDelay = phy.enDelay /\ s.dqIn = phy.dqIn
      /\ s.dqsIn = phy.dqsIn
  BY DEF Settings
<1>2. PICK i \in DQ : TRUE
  BY Bits
<1>3. ReadBits(s) = DQ
  OBVIOUS
<1> HIDE DEF s
<1>4. s.loaded /\ s.mem = "open" /\ GateOpen(s) /\ Aligned(s) = DQ
  BY <1>2, <1>3 DEF ReadBits, Captured
<1>5. GateOpen(phy)
  BY <1>1, <1>4 DEF GateOpen, GateTime
<1> QED
  BY <1>1, <1>2, <1>4, <1>5 DEF Aligned

(* With the gate open and every bit in its window, a read test passes with    *)
(* every latency from the board's on.                                         *)
LEMMA LatencyOnly ==
  ASSUME phy \in Settings, board \in Boards, NEW n \in 0 .. LatencyMax,
         phy.loaded, phy.mem = "open", GateOpen(phy), n >= board.latency,
         \A i \in DQ : phy.dqIn[i] - phy.dqsIn \in board.read[i]
  PROVE  /\ ReadBits([phy EXCEPT !.readLat = n]) = DQ
         /\ GateOpen([phy EXCEPT !.readLat = n]) /\ Aligned([phy EXCEPT !.readLat = n]) = DQ
<1> DEFINE s == [phy EXCEPT !.readLat = n]
<1>1. /\ s.readLat = n /\ s.loaded = phy.loaded /\ s.mem = phy.mem /\ s.vfifo = phy.vfifo
      /\ s.enPhase = phy.enPhase /\ s.enDelay = phy.enDelay /\ s.dqIn = phy.dqIn
      /\ s.dqsIn = phy.dqsIn
  BY DEF Settings
<1> HIDE DEF s
<1>2. GateOpen(s)
  BY <1>1 DEF GateOpen, GateTime
<1>3. Aligned(s) = DQ
  BY <1>1 DEF Aligned
<1>4. ReadBits(s) = DQ
  BY <1>1, <1>2, <1>3 DEF ReadBits, Captured
<1> QED
  BY <1>2, <1>3, <1>4 DEF s

(* The register keeps a latency that fits it, and holds one in any case.      *)
LEMMA RegisterKeeps ==
  ASSUME LatencyMax \in Nat, NEW m \in 0 .. LatencyMax + 1
  PROVE  RlatRegister(m) \in 0 .. LatencyMax /\ (m <= LatencyMax => RlatRegister(m) = m)
<1> DEFINE size == LatencyMax + 1
<1>1. size \in Nat \ {0} /\ m \in Nat /\ LatencyMax = size - 1
  OBVIOUS
<1>2. RlatRegister(m) = m % size
  BY DEF RlatRegister
<1> HIDE DEF size
<1>3. m % size \in 0 .. size - 1 /\ (m < size => m % size = m)
  BY <1>1
<1> QED
  BY <1>1, <1>2, <1>3

(* The latency that stays, when one below which reads fail was found or the   *)
(* lowest reads.                                                              *)
LEMMA LatencyFound ==
  ASSUME TypeOK, Control, ErrorOfStage, MaskCentred, LatencyComesDown, step = "lfifo",
         UNCHANGED <<board, en, rd, wr, dtaps, vf, reg, saved>>,
         NEW last \in Nat, last + 2 <= LatencyMax + 1, NEW n \in 0 .. LatencyMax,
         n <= last + 2, ReadBits([phy EXCEPT !.readLat = n]) = DQ,
         last + 1 = LargestOf({board.latency, 1}),
         gbl' = [gbl EXCEPT !.readLat = last + 2],
         phy' = [phy EXCEPT !.readLat = RlatRegister(last + 2)],
         Finish(TRUE)
  PROVE  IInv'
<1> DEFINE m == last + 2
           r == RlatRegister(m)
<1>1. /\ board \in Boards /\ phy \in Settings /\ gbl \in Globals /\ reg \in Registers
      /\ step' = "handoff" /\ result' = TRUE /\ step' \in After
  BY DEF TypeOK, Finish, After
<1>2. m \in 0 .. LatencyMax + 1 /\ m >= n /\ m = 1 + LargestOf({board.latency, 1})
      /\ gbl' = [gbl EXCEPT !.readLat = m] /\ phy' = [phy EXCEPT !.readLat = r]
      /\ n \in Int /\ m \in Int /\ board.latency \in Nat /\ LatencyMax \in Nat \ {0, 1}
  BY <1>1, Latencies
<1>3. r \in 0 .. LatencyMax /\ (LatencyFits => r = m)
  <2>1. LatencyFits => m <= LatencyMax
    <3> DEFINE least == board.latency
    <3>1. /\ least \in Int /\ 1 \in Int /\ LatencyMax \in Nat \ {0, 1}
          /\ m = 1 + LargestOf({least, 1}) /\ (LatencyFits => least < LatencyMax)
      BY <1>2 DEF LatencyFits
    <3> HIDE DEF least, m
    <3>2. LargestOf({least, 1}) = IF least >= 1 THEN least ELSE 1
      BY ONLY <3>1, GreaterOfTwo
    <3> QED
      BY ONLY <3>1, <3>2
  <2>2. RlatRegister(m) \in 0 .. LatencyMax /\ (m <= LatencyMax => RlatRegister(m) = m)
    <3> HIDE DEF m
    <3>1. LatencyMax \in Nat /\ m \in 0 .. LatencyMax + 1
      BY <1>2
    <3> QED
      BY ONLY <3>1, RegisterKeeps
  <2> HIDE DEF m
  <2> QED
    BY ONLY <2>1, <2>2
<1> HIDE DEF m, r
<1>4. /\ phy.loaded /\ phy.mem = "open" /\ GateOpen(phy) /\ n >= board.latency
      /\ \A i \in DQ : phy.dqIn[i] - phy.dqsIn \in board.read[i]
  BY <1>1, AllRead
<1>5. /\ GateOpen(phy') /\ (LatencyFits => Aligned(phy') = DQ)
      /\ \A i \in DQ : phy'.dqIn[i] - phy'.dqsIn \in board.read[i]
  <2>1. phy'.dqIn = phy.dqIn /\ phy'.dqsIn = phy.dqsIn /\ phy'.vfifo = phy.vfifo
        /\ phy'.enPhase = phy.enPhase /\ phy'.enDelay = phy.enDelay
    BY <1>1, <1>2 DEF Settings
  <2>2. GateOpen(phy')
    BY <1>4, <2>1 DEF GateOpen, GateTime
  <2>3. ASSUME LatencyFits PROVE Aligned(phy') = DQ
    <3>1. r >= board.latency
      <4> DEFINE least == board.latency
      <4>1. /\ r = m /\ m >= n /\ n >= least
            /\ m \in Int /\ n \in Int /\ least \in Nat
        BY <1>2, <1>3, <1>4, <2>3
      <4> HIDE DEF least
      <4>2. r >= least
        BY ONLY <4>1
      <4> QED
        BY <4>2 DEF least
    <3>2. phy'.readLat = r
      BY <1>1, <1>2 DEF Settings
    <3> QED
      BY <1>4, <2>1, <3>1, <3>2 DEF Aligned
  <2> QED
    BY <1>4, <2>1, <2>2, <2>3
<1>6. /\ phy' \in Settings /\ phy'.mem = "open" /\ phy'.readLat = r
      /\ phy'.dqOut = phy.dqOut /\ phy'.dqsOut = phy.dqsOut /\ phy'.dmOut = phy.dmOut
  BY <1>1, <1>2, <1>3, <1>4 DEF Settings
<1>7. gbl' \in Globals /\ gbl'.stage = gbl.stage
  BY <1>1, <1>2 DEF Globals
<1>8. Stored(phy') = DQ /\ Masked(phy')
  <2>1. Stored(phy) = DQ /\ Masked(phy)
    BY <1>4 DEF LatencyComesDown, MaskCentred
  <2> QED
    BY <1>6, <2>1 DEF Stored, Masked
<1>9. gbl.stage = "NIL"
  BY DEF ErrorOfStage
<1>10. step \notin After
  BY Classes
<1>11. reg.mux # 2 /\ reg.status = "RESET"
  BY <1>10 DEF Control, After
<1>12. TypeOK'
  BY <1>1, <1>6, <1>7, Classes DEF TypeOK
<1>13. Control'
  BY <1>1, <1>6, <1>11, Classes DEF Control
<1>14. /\ ErrorOfStage' /\ RetriesReachLess' /\ MaskCentred' /\ LatencyComesDown'
  BY <1>1, <1>7, <1>9, Classes DEF ErrorOfStage, RetriesReachLess, MaskCentred, LatencyComesDown,
     WrStep, EnStep
<1>15. SettingsWork'
  <2>1. (GateOpen(phy) /\ Stored(phy) = DQ /\ Masked(phy))'
    BY <1>5, <1>8 DEF GateOpen, GateTime, Stored, Masked
  <2>2. board' = board
    OBVIOUS
  <2>3. LatencyFits' => Aligned(phy)' = DQ
    BY <1>5, <2>2 DEF Aligned, LatencyFits
  <2>4. LatencyFits' => phy'.readLat = 1 + LargestOf({board'.latency, 1})
    BY <1>2, <1>3, <1>6, <2>2 DEF LatencyFits
  <2> QED
    BY <1>5, <2>1, <2>2, <2>3, <2>4 DEF SettingsWork
<1> QED
  BY <1>1, <1>12, <1>13, <1>14, <1>15, NoSearch DEF IInv

(* The search of the latency keeps the invariant, and stops at the least      *)
(* latency plus one.                                                          *)
LEMMA LowerLatencyKeeps ==
  ASSUME IInv, LowerLatency PROVE IInv'
<1> DEFINE at == gbl.readLat
           s  == [phy EXCEPT !.readLat = at]
           pass == ReadBits(s) = DQ
           last == IF pass THEN at - 1 ELSE at
<1>1. /\ TypeOK /\ Control /\ ErrorOfStage /\ MaskCentred /\ LatencyComesDown
      /\ step = "lfifo" /\ UNCHANGED <<board, en, rd, wr, dtaps, vf, reg, saved>>
      /\ phy \in Settings /\ gbl \in Globals /\ reg \in Registers /\ board \in Boards
      /\ result \in BOOLEAN
      /\ en' \in Search /\ wr' \in Mask /\ vf' \in Locals /\ rd' \in Edges
  BY DEF IInv, TypeOK, LowerLatency, LowerBy, idle
<1>2. step \notin After
  BY <1>1, Classes
<1>3. reg.stage = "LFIFO" /\ phy.mem = "open" /\ reg.mux # 2 /\ reg.status = "RESET"
      /\ gbl.stage = "NIL"
  BY <1>1, <1>2, Classes DEF Control, ErrorOfStage, After
<1>4. /\ InitialLatency \in 1 .. LatencyMax /\ LatencyMax \in Nat \ {0, 1}
      /\ board.latency \in Nat
  BY <1>1, Latencies
<1>5. /\ at \in 1 .. InitialLatency /\ at \in 0 .. LatencyMax /\ at \in Nat
      /\ at < InitialLatency => ReadBits([phy EXCEPT !.readLat = at + 1]) = DQ
      /\ phy.loaded => Stored(phy) = DQ
  BY <1>1, <1>4 DEF LatencyComesDown
<1>6. InitialLatency' = InitialLatency
  BY <1>1 DEF InitialLatency
<1>7. /\ s \in Settings /\ s.mem = "open" /\ s.dqOut = phy.dqOut /\ s.dqsOut = phy.dqsOut
      /\ s.dmOut = phy.dmOut /\ s.loaded = phy.loaded
  BY <1>1, <1>3, <1>5 DEF Settings
<1>8. \/ /\ pass /\ at > 1
         /\ gbl' = [gbl EXCEPT !.readLat = at - 1] /\ phy' = s /\ UNCHANGED <<step, result>>
      \/ /\ ~ pass \/ at = 1
         /\ last < InitialLatency
         /\ gbl' = [gbl EXCEPT !.readLat = last + 2]
         /\ phy' = [s EXCEPT !.readLat = RlatRegister(last + 2)]
         /\ Finish(TRUE)
      \/ /\ gbl' = SetFailing(gbl, 255, "LFIFO", "READ_LATENCY") /\ phy' = s /\ Finish(FALSE)
  <2>1. \/ /\ pass /\ at > 1
           /\ gbl' = [gbl EXCEPT !.readLat = at - 1] /\ phy' = s /\ UNCHANGED <<step, result>>
        \/ /\ ~ pass \/ at = 1
           /\ IF last < InitialLatency
              THEN /\ gbl' = [gbl EXCEPT !.readLat = last + 2]
                   /\ phy' = [s EXCEPT !.readLat = RlatRegister(last + 2)]
                   /\ Finish(TRUE)
              ELSE /\ gbl' = SetFailing(gbl, 255, "LFIFO", "READ_LATENCY")
                   /\ phy' = s
                   /\ Finish(FALSE)
    BY Zenon DEF LowerLatency, LowerBy
  <2> HIDE DEF at, s, pass, last
  <2> QED
    BY <2>1, Zenon
<1>9. CASE /\ pass /\ at > 1
           /\ gbl' = [gbl EXCEPT !.readLat = at - 1] /\ phy' = s /\ UNCHANGED <<step, result>>
  <2> DEFINE n == at - 1
  <2>1. n \in 0 .. LatencyMax + 1 /\ n + 1 = at /\ n \in 1 .. InitialLatency
    BY <1>4, <1>5, <1>9
  <2>2. gbl' = [gbl EXCEPT !.readLat = n] /\ step' = "lfifo"
    BY <1>1, <1>9
  <2> HIDE DEF n
  <2>3. gbl' \in Globals /\ gbl'.stage = gbl.stage /\ gbl'.readLat = n
    BY <1>1, <2>1, <2>2 DEF Globals
  <2>4. TypeOK'
    BY <1>1, <1>7, <1>9, <2>2, <2>3, Classes DEF TypeOK
  <2>5. Control'
    BY <1>1, <1>3, <1>7, <1>9, <2>2, <2>3, Classes DEF Control
  <2>6. ErrorOfStage' /\ RetriesReachLess'
    BY <1>1, <1>3, <2>2, <2>3, Classes DEF ErrorOfStage, RetriesReachLess, EnStep
  <2>7. MaskCentred' /\ SettingsWork'
    <3>1. Masked(phy)
      BY <1>1 DEF MaskCentred
    <3> QED
      BY <1>1, <1>7, <1>9, <2>2, <3>1, Classes DEF MaskCentred, SettingsWork, Masked
  <2>8. LatencyComesDown'
    <3>1. [phy' EXCEPT !.readLat = n + 1] = s
      BY <1>1, <1>9, <2>1 DEF Settings
    <3>2. ReadBits([phy' EXCEPT !.readLat = n + 1]) = DQ
      BY <1>9, <3>1
    <3>3. ReadBits([phy EXCEPT !.readLat = gbl.readLat + 1])' = DQ
      BY <1>1, <2>3, <3>2 DEF ReadBits, Captured, Aligned, GateOpen, GateTime
    <3>4. (phy.loaded => Stored(phy) = DQ)'
      BY <1>1, <1>5, <1>7, <1>9 DEF Stored
    <3> QED
      BY <1>6, <2>1, <2>2, <2>3, <3>3, <3>4, Classes DEF LatencyComesDown
  <2>9. step' \in Before \cup After \cup {"vfifo", "vfifo_try", "lfifo"}
    BY <2>2
  <2> QED
    BY <2>4, <2>5, <2>6, <2>7, <2>8, <2>9, NoSearch DEF IInv
<1>10. CASE /\ ~ pass \/ at = 1
            /\ last < InitialLatency
            /\ gbl' = [gbl EXCEPT !.readLat = last + 2]
            /\ phy' = [s EXCEPT !.readLat = RlatRegister(last + 2)]
            /\ Finish(TRUE)
  <2>1. phy' = [phy EXCEPT !.readLat = RlatRegister(last + 2)]
    BY <1>1, <1>10 DEF Settings
  <2>2. CASE pass
    <3>1. at = 1 /\ last = 0
      BY <1>10, <2>2
    <3>2. 1 >= board.latency /\ 1 \in 0 .. LatencyMax
      BY <1>1, <1>4, <1>5, <2>2, <3>1, AllRead
    <3>3. 1 = LargestOf({board.latency, 1})
      BY <1>4, <3>2, GreaterOfTwo
    <3> DEFINE z == 0
    <3>4. /\ z \in Nat /\ z + 2 <= LatencyMax + 1 /\ 1 <= z + 2
          /\ z + 1 = LargestOf({board.latency, 1})
          /\ last = z
      BY <1>4, <3>1, <3>3
    <3>7. /\ gbl' = [gbl EXCEPT !.readLat = z + 2]
          /\ phy' = [phy EXCEPT !.readLat = RlatRegister(z + 2)]
      <4> HIDE DEF z, last
      <4> QED
        BY <1>10, <2>1, <3>4, Zenon
    <3>5. ReadBits([phy EXCEPT !.readLat = 1]) = DQ
      BY <2>2, <3>1
    <3>6. Finish(TRUE)
      BY <1>10
    <3> HIDE DEF z, pass, last, s, at
    <3> QED
      BY <1>1, <3>2, <3>4, <3>5, <3>6, <3>7, LatencyFound, Zenon
  <2>3. CASE ~ pass
    <3>1. last = at /\ at < InitialLatency
      BY <1>10, <2>3
    <3> DEFINE n == at + 1
    <3>2. ReadBits([phy EXCEPT !.readLat = n]) = DQ /\ n \in 0 .. LatencyMax
      BY <1>4, <1>5, <3>1
    <3> HIDE DEF n
    <3>3. /\ phy.loaded /\ phy.mem = "open" /\ GateOpen(phy) /\ n >= board.latency
          /\ \A i \in DQ : phy.dqIn[i] - phy.dqsIn \in board.read[i]
      BY <1>1, <3>2, AllRead
    <3>4. ~ (at >= board.latency)
      BY <1>1, <1>5, <2>3, <3>3, LatencyOnly
    <3>5. board.latency = at + 1
      BY <1>4, <1>5, <3>3, <3>4 DEF n
    <3>6. at + 1 = LargestOf({board.latency, 1})
      BY <1>4, <1>5, <3>5, GreaterOfTwo
    <3>7. at \in Nat /\ at + 2 <= LatencyMax + 1 /\ n <= at + 2
      BY <1>4, <1>5, <3>1 DEF n
    <3>9. /\ gbl' = [gbl EXCEPT !.readLat = at + 2]
          /\ phy' = [phy EXCEPT !.readLat = RlatRegister(at + 2)]
      <4> HIDE DEF at, last
      <4> QED
        BY <1>10, <2>1, <3>1, Zenon
    <3>8. Finish(TRUE)
      BY <1>10
    <3> HIDE DEF pass, last, s, at
    <3> QED
      BY <1>1, <3>2, <3>6, <3>7, <3>8, <3>9, LatencyFound, Zenon
  <2> QED
    BY <2>2, <2>3
<1>11. CASE gbl' = SetFailing(gbl, 255, "LFIFO", "READ_LATENCY") /\ phy' = s /\ Finish(FALSE)
  <2> HIDE DEF s
  <2>1. gbl.stage \in {"NIL", reg.stage} /\ reg.stage # "NIL" /\ 255 \in Int
        /\ "READ_LATENCY" \in Substage /\ UNCHANGED <<board, dtaps, reg, saved>>
    BY <1>1, <1>3 DEF Substage
  <2>2. step \in {"vfifo", "lfifo"} \cup EnStep \cup RdStep \cup WrStep
    BY <1>1
  <2>3. phy' \in Settings /\ phy'.mem = "open"
    BY <1>7, <1>11
  <2>4. gbl' = SetFailing(gbl, 255, reg.stage, "READ_LATENCY") /\ Finish(FALSE)
    BY <1>3, <1>11
  <2> QED
    BY <1>1, <2>1, <2>2, <2>3, <2>4, GivenUp
<1> QED
  BY <1>8, <1>9, <1>10, <1>11

(* After the verdict only the memory and the registers that are published     *)
(* change.                                                                    *)
LEMMA AfterKeeps ==
  ASSUME IInv, step \in After, step' \in After,
         UNCHANGED <<board, gbl, result, en, rd, wr, vf, dtaps>>, saved' \in BOOLEAN,
         phy' \in Settings, reg' \in Registers, reg'.stage = reg.stage,
         Control', SettingsWork'
  PROVE  IInv'
<1>1. TypeOK /\ ErrorOfStage
  BY DEF IInv
<1>2. TypeOK'
  BY <1>1, Classes DEF TypeOK
<1>3. /\ gbl.stage = IF result THEN "NIL" ELSE reg.stage
      /\ gbl'.stage = IF result' THEN "NIL" ELSE reg'.stage
  BY <1>1 DEF ErrorOfStage
<1>4. /\ step' \notin EnStep \cup RdStep \cup WrStep
      /\ step' \notin {"vfifo", "vfifo_try", "lfifo"}
      /\ step' # "wr_return" /\ step' # "en_return" /\ step' # "rd_return"
  BY Classes DEF WrStep, EnStep, RdStep
<1>5. ErrorOfStage'
  <2>1. gbl'.stage \in {"NIL", reg'.stage}
    BY <1>3
  <2> QED
    BY <1>3, <1>4, <2>1 DEF ErrorOfStage
<1>6. RetriesReachLess'
  BY <1>4 DEF RetriesReachLess
<1>7. MaskCentred' /\ LatencyComesDown'
  BY <1>4 DEF MaskCentred, LatencyComesDown
<1> QED
  BY <1>2, <1>5, <1>6, <1>7, NoSearch DEF IInv

(* The settings that were found stay until the end.                           *)
LEMMA SettingsStay ==
  ASSUME SettingsWork, phy \in Settings, step \in After, step' \in After,
         UNCHANGED <<board, result>>,
         \/ UNCHANGED phy
         \/ \E m : phy' = [phy EXCEPT !.mem = m]
  PROVE  SettingsWork'
<1>1. /\ phy'.vfifo = phy.vfifo /\ phy'.enPhase = phy.enPhase /\ phy'.enDelay = phy.enDelay
      /\ phy'.readLat = phy.readLat /\ phy'.dqIn = phy.dqIn /\ phy'.dqsIn = phy.dqsIn
      /\ phy'.dqOut = phy.dqOut /\ phy'.dqsOut = phy.dqsOut /\ phy'.dmOut = phy.dmOut
  BY DEF Settings
<1>2. result => (GateOpen(phy) /\ Stored(phy) = DQ /\ Masked(phy))'
  BY <1>1 DEF SettingsWork, GateOpen, GateTime, Stored, Masked
<1>3. result => /\ \A i \in DQ : phy'.dqIn[i] - phy'.dqsIn \in board'.read[i]
                /\ LatencyFits' => /\ Aligned(phy)' = DQ
                                   /\ phy'.readLat = 1 + LargestOf({board'.latency, 1})
  BY <1>1 DEF SettingsWork, Aligned, LatencyFits
<1> QED
  BY <1>2, <1>3 DEF SettingsWork

(* The hand-off of the memory keeps the invariant,                            *)
LEMMA ReleaseMemoryKeeps ==
  ASSUME IInv, ReleaseMemory PROVE IInv'
<1>1. /\ TypeOK /\ Control /\ SettingsWork /\ step = "handoff" /\ step' = "mux"
      /\ phy' = HandedOver(RowsOpened(phy))
      /\ UNCHANGED <<board, gbl, result, en, rd, wr, vf, dtaps>> /\ UNCHANGED <<board, result>>
      /\ UNCHANGED <<reg, saved>>
      /\ phy \in Settings /\ reg \in Registers /\ saved \in BOOLEAN
      /\ step \in After /\ step' \in After
  BY DEF IInv, ReleaseMemory, idle, TypeOK, After
<1>2. phy.mem = "open" /\ reg.mux # 2 /\ reg.status = "RESET"
  BY <1>1, Classes DEF Control
<1>3. phy' = [phy EXCEPT !.mem = "user"]
  BY <1>1, <1>2 DEF HandedOver, RowsOpened, Settings
<1>4. phy' \in Settings /\ phy'.mem = "user"
  BY <1>1, <1>3 DEF Settings
<1>5. Control'
  BY <1>1, <1>2, <1>4, Classes DEF Control
<1>6. SettingsWork'
  BY <1>1, <1>3, SettingsStay
<1>7. saved' \in BOOLEAN /\ reg' \in Registers /\ reg'.stage = reg.stage
  BY <1>1
<1> QED
  BY <1>1, <1>4, <1>5, <1>6, <1>7, AfterKeeps

(* that of the PHY,                                                           *)
LEMMA HandOffKeeps ==
  ASSUME IInv, HandOff PROVE IInv'
<1>1. /\ TypeOK /\ Control /\ SettingsWork /\ step = "mux" /\ step' = "restore"
      /\ reg' = [reg EXCEPT !.mux = 2]
      /\ UNCHANGED <<board, gbl, result, en, rd, wr, vf, dtaps>> /\ UNCHANGED <<board, result>>
      /\ UNCHANGED <<phy, saved>> /\ UNCHANGED phy
      /\ phy \in Settings /\ reg \in Registers /\ saved \in BOOLEAN
      /\ step \in After /\ step' \in After
  BY DEF IInv, HandOff, idle, TypeOK, After
<1>2. phy.mem = "user" /\ reg.status = "RESET"
  BY <1>1, Classes DEF Control
<1>3. /\ reg' \in Registers /\ reg'.stage = reg.stage /\ reg'.mux = 2
      /\ reg'.status = reg.status
  BY <1>1 DEF Registers
<1>4. Control'
  BY <1>1, <1>2, <1>3, Classes DEF Control
<1>5. SettingsWork'
  BY <1>1, SettingsStay
<1>6. saved' \in BOOLEAN /\ phy' \in Settings
  BY <1>1
<1> QED
  BY <1>1, <1>3, <1>4, <1>5, <1>6, AfterKeeps

(* the restored tracking                                                      *)
LEMMA RestoreTrackingKeeps ==
  ASSUME IInv, RestoreTracking PROVE IInv'
<1>1. /\ TypeOK /\ Control /\ SettingsWork /\ step = "restore" /\ step' = "report"
      /\ reg' = [reg EXCEPT !.tracking = saved]
      /\ UNCHANGED <<board, gbl, result, en, rd, wr, vf, dtaps>> /\ UNCHANGED <<board, result>>
      /\ UNCHANGED <<phy, saved>> /\ UNCHANGED phy
      /\ phy \in Settings /\ reg \in Registers /\ saved \in BOOLEAN
      /\ step \in After /\ step' \in After
  BY DEF IInv, RestoreTracking, idle, TypeOK, After
<1>2. phy.mem = "user" /\ reg.status = "RESET" /\ reg.mux = 2
  BY <1>1, Classes DEF Control
<1>3. reg' \in Registers
  BY <1>1, RegistersSet, Zenon
<1>4. reg'.stage = reg.stage /\ reg'.mux = reg.mux /\ reg'.status = reg.status
  BY <1>1 DEF Registers
<1>5. Control'
  BY <1>1, <1>2, <1>4, Classes DEF Control
<1>6. SettingsWork'
  BY <1>1, SettingsStay
<1>7. saved' \in BOOLEAN /\ phy' \in Settings
  BY <1>1
<1> QED
  BY <1>1, <1>3, <1>4, <1>5, <1>6, <1>7, AfterKeeps

(* and the verdict.                                                           *)
LEMMA ReportKeeps ==
  ASSUME IInv, Report PROVE IInv'
<1> DEFINE a   == Clamp(Half(gbl.fomIn), 0, 255)
           b   == Clamp(Half(gbl.fomOut), 0, 255)
           why == [stage |-> gbl.stage, substage |-> gbl.substage, group |-> gbl.group]
<1>1. /\ TypeOK /\ Control /\ SettingsWork /\ step = "report" /\ step' = "done"
      /\ reg' = IF result THEN [reg EXCEPT !.status = "SUCCESS", !.fom = <<a, b>>]
                ELSE [reg EXCEPT !.status = "FAIL", !.failing = why]
      /\ UNCHANGED <<board, gbl, result, en, rd, wr, vf, dtaps>> /\ UNCHANGED <<board, result>>
      /\ UNCHANGED <<phy, saved>> /\ UNCHANGED phy
      /\ phy \in Settings /\ reg \in Registers /\ saved \in BOOLEAN /\ gbl \in Globals
      /\ result \in BOOLEAN
      /\ step \in After /\ step' \in After
  BY DEF IInv, Report, idle, TypeOK, After
<1>2. phy.mem = "user" /\ reg.status = "RESET" /\ reg.mux = 2
  BY <1>1, Classes DEF Control
<1>3. a \in Int /\ b \in Int
  <2>1. gbl.fomIn \in Int /\ gbl.fomOut \in Int
    BY <1>1 DEF Globals
  <2> QED
    BY <2>1, HalfType DEF Clamp
<1>4. why \in Failure /\ why.stage = gbl.stage
  BY <1>1 DEF Globals, Failure
<1> HIDE DEF a, b, why
<1>5. /\ reg' \in Registers /\ reg'.stage = reg.stage /\ reg'.mux = reg.mux
      /\ reg'.status = IF result THEN "SUCCESS" ELSE "FAIL"
      /\ ~ result => reg'.failing.stage = gbl.stage
  <2>1. CASE result
    <3>1. <<a, b>> \in Int \X Int
      BY <1>3
    <3>2. reg' = [reg EXCEPT !.status = "SUCCESS", !.fom = <<a, b>>]
      BY <1>1, <2>1
    <3> QED
      BY <1>1, <2>1, <3>1, <3>2 DEF Registers
  <2>2. CASE ~ result
    <3>1. reg' = [reg EXCEPT !.status = "FAIL", !.failing = why]
      BY <1>1, <2>2
    <3> QED
      BY <1>1, <1>4, <2>2, <3>1 DEF Registers
  <2> QED
    BY <2>1, <2>2
<1>6. Control'
  BY <1>1, <1>2, <1>5, Classes DEF Control
<1>7. SettingsWork'
  BY <1>1, SettingsStay
<1>8. saved' \in BOOLEAN /\ phy' \in Settings
  BY <1>1
<1> QED
  BY <1>1, <1>5, <1>6, <1>7, <1>8, AfterKeeps

(* A stuttering step keeps the invariant.                                     *)
LEMMA NothingKeeps ==
  ASSUME IInv, UNCHANGED vars PROVE IInv'
<1>1. UNCHANGED <<board, phy, gbl, step, result, en, dtaps, rd, wr, vf, reg, saved>>
  BY DEF vars
<1>2. TypeOK' /\ GateSearch' /\ StrobeInChain' /\ Control' /\ ErrorOfStage'
  BY <1>1 DEF IInv, TypeOK, GateSearch, StrobeInChain, Control, ErrorOfStage
<1>3. Reads(phy)' <=> Reads(phy)
  BY <1>1, ReadsKept
<1>4. EdgesSeen'
  BY <1>1, <1>3 DEF IInv, EdgesSeen, LeftsTried, LeftsKnown, RightsTried, BothSeen,
     Delayed, Advanced
<1>5. RetriesReachLess'
  <2>1. \A i \in DQ : Reached(i, vf.orig)' <=> Reached(i, vf.orig)
    BY <1>1, ReachKept
  <2> QED
    BY <1>1, <1>3, <2>1 DEF IInv, RetriesReachLess
<1>6. MaskWindows' /\ MaskCentred'
  BY <1>1 DEF IInv, MaskWindows, WindowsPass, MaskOpen, MaskCentred, Masked
<1>7. LatencyComesDown'
  <2>1. (ReadBits([phy EXCEPT !.readLat = gbl.readLat + 1]) = DQ)'
          <=> ReadBits([phy EXCEPT !.readLat = gbl.readLat + 1]) = DQ
    BY <1>1 DEF ReadBits, Captured, Aligned, GateOpen, GateTime
  <2>2. (Stored(phy) = DQ)' <=> Stored(phy) = DQ
    BY <1>1 DEF Stored
  <2>3. InitialLatency' = InitialLatency
    BY <1>1 DEF InitialLatency
  <2> QED
    BY <1>1, <2>1, <2>2, <2>3 DEF IInv, LatencyComesDown
<1>8. SettingsWork'
  BY <1>1 DEF IInv, SettingsWork, GateOpen, GateTime, Aligned, Stored, Masked, LatencyFits
<1> QED
  BY <1>2, <1>4, <1>5, <1>6, <1>7, <1>8 DEF IInv

-----------------------------------------------------------------------------
(* The invariant holds.                                                       *)
LEMMA InitIInv == Init => IInv
<1> SUFFICES ASSUME Init PROVE IInv
  OBVIOUS
<1>1. /\ step = "boot" /\ result = FALSE /\ saved = FALSE /\ board \in Boards
      /\ en = EnIdle /\ rd = RdIdle /\ wr = WrIdle /\ vf = NoLocals /\ dtaps = 0
      /\ gbl = [stage |-> "NIL", substage |-> "NIL", group |-> 255,
                fomIn |-> 0, fomOut |-> 0, readLat |-> 0]
      /\ phy = [Chains(0) EXCEPT !.dqsIn = 0, !.dqsOut = 0]
      /\ step \in Before
  BY DEF Init, Before
<1>2. PICK tracking \in BOOLEAN :
        reg = [mux |-> 0, tracking |-> tracking, status |-> "RESET", stage |-> "NIL",
               failing |-> NoError, fom |-> <<0, 0>>]
  BY DEF Init
<1>3. "NIL" \in Stage /\ "NIL" \in Substage /\ 0 \in 0 .. LatencyMax /\ 0 \in 0 .. LatencyMax + 1
  BY LatencyAssumption DEF Stage, Substage
<1>4. gbl \in Globals
  BY <1>1, <1>3 DEF Globals
<1>5. phy \in Settings
  <2> DEFINE z == [i \in DQ |-> 0]
  <2>1. z \in [DQ -> Tap] /\ 0 \in 0 .. PhaseMax /\ 0 \in 0 .. EnDelayMax /\ 0 \in Tap
        /\ 0 \in 0 .. VfifoSize - 1
    BY Constants
  <2>2. phy = [ vfifo |-> 0, enPhase |-> 0, enDelay |-> 0,
                dqsIn |-> 0, dqIn |-> z, dqsOut |-> 0, dqOut |-> z,
                dmOut |-> 0, readLat |-> 0, loaded |-> FALSE, mem |-> "reset" ]
    BY <1>1 DEF Chains
  <2> HIDE DEF z
  <2> QED
    BY <1>3, <2>1, <2>2 DEF Settings
<1>6. reg \in Registers /\ reg.mux = 0 /\ reg.status = "RESET" /\ reg.stage = "NIL"
  <2>1. NoError \in Failure
    BY <1>3 DEF NoError, Failure
  <2> QED
    BY <1>2, <1>3, <2>1 DEF Registers
<1>7. TypeOK
  <2>1. en \in Search /\ rd \in Edges /\ wr \in Mask /\ vf \in Locals
    BY <1>1, SearchIdle, NoEdges, NoMask, LocalsIdle
  <2>2. step \in Step
    BY <1>1, Classes
  <2>3. dtaps \in Int
    BY ONLY <1>1
  <2>4. result \in BOOLEAN /\ saved \in BOOLEAN
    BY ONLY <1>1, Zenon
  <2> QED
    BY ONLY <1>1, <1>4, <1>5, <1>6, <2>1, <2>2, <2>3, <2>4, Zenon DEF TypeOK
<1>8. Control
  BY <1>1, <1>6, Classes DEF Control
<1>9. GateSearch /\ StrobeInChain /\ EdgesSeen /\ MaskWindows
  BY <1>1 DEF GateSearch, EnReady, StrobeInChain, EdgesSeen, MaskWindows
<1>10. ErrorOfStage /\ RetriesReachLess /\ MaskCentred /\ LatencyComesDown /\ SettingsWork
  BY <1>1, Classes DEF ErrorOfStage, RetriesReachLess, MaskCentred, LatencyComesDown,
     SettingsWork, WrStep, EnStep
<1> QED
  BY <1>7, <1>8, <1>9, <1>10 DEF IInv

(* So does every step.                                                        *)
LEMMA NextIInv == IInv /\ [Next]_vars => IInv'
<1> SUFFICES ASSUME IInv, [Next]_vars PROVE IInv'
  OBVIOUS
<1>1. CASE InitializeRegisters \/ TakePhy \/ MemCalibrate
  BY <1>1, InitializeRegistersKeeps, TakePhyKeeps, MemCalibrateKeeps
<1>2. CASE GuaranteedRead \/ SweepDqIn \/ GateSearched
  BY <1>2, GuaranteedReadKeeps, SweepDqInKeeps, GateSearchedKeeps
<1>3. CASE FindDqsEnPhase /\ UNCHANGED <<rd, wr, vf, reg, saved>>
  BY <1>3, SearchKeeps
<1>4. CASE VfifoCenter /\ UNCHANGED <<en, wr, dtaps, vf, reg, saved>>
  BY <1>4, DeskewKeeps
<1>5. CASE WritesCenter /\ UNCHANGED <<en, dtaps, vf, reg, saved>>
  BY <1>5, WritesKeep
<1>6. CASE ReadSideDone \/ WriteSideDone \/ ReadSideDoneAgain
  BY <1>6, ReadSideDoneKeeps, WriteSideDoneKeeps, ReadSideDoneAgainKeeps
<1>7. CASE LowerLatency
  BY <1>7, LowerLatencyKeeps
<1>8. CASE ReleaseMemory \/ HandOff \/ RestoreTracking \/ Report
  BY <1>8, ReleaseMemoryKeeps, HandOffKeeps, RestoreTrackingKeeps, ReportKeeps
<1>9. CASE Done \/ UNCHANGED vars
  BY <1>9, NothingKeeps DEF Done
<1> QED
  BY <1>1, <1>2, <1>3, <1>4, <1>5, <1>6, <1>7, <1>8, <1>9 DEF Next

(* The settings, the locals of the searches and the registers keep their      *)
(* types, and all that IInv says of how they belong together holds, at every  *)
(* step of a calibration (sdram_calibration and all it calls).                *)
THEOREM CalibrationInvariant == Spec => []IInv
<1>1. Init /\ [][Next]_vars => []IInv
  BY InitIInv, NextIInv, PTL
<1> QED
  BY <1>1, PTL DEF Spec

(* Whatever the board and however long the chains: no phase and no tap that a *)
(* search computes is ever cut by the chain it is written to (the setters of  *)
(* scc_mgr).  Of the latency this is not so: see LatencyAboveLeast.           *)
THEOREM SettingsFit == Spec => []SettingsInRange
<1>1. IInv => SettingsInRange
  BY DEF IInv, TypeOK, Settings, SettingsInRange, Tap
<1> QED
  BY <1>1, CalibrationInvariant, PTL

(* Whatever the board: SUCCESS is published only with the gate open, every    *)
(* bit and the mask in their windows and no recorded error, and with a        *)
(* latency that reads unless the board needs the greatest one, FAIL only with *)
(* the stage at which calibration stopped, and the controller only has the    *)
(* PHY with the memory in its user's mode (run_mem_calibrate,                 *)
(* set_failing_group_stage).                                                  *)
THEOREM TruthfulVerdict == Spec => []VerdictIsTrue
<1>1. IInv => VerdictIsTrue
  <2> SUFFICES ASSUME IInv PROVE VerdictIsTrue
    OBVIOUS
  <2>1. Control /\ ErrorOfStage /\ SettingsWork /\ step \in Step
    BY DEF IInv, TypeOK
  <2>2. reg.status # "RESET" => step = "done" /\ step \in After
    BY <2>1 DEF Control, After
  <2>3. reg.status = "SUCCESS" => result
    BY <2>1, <2>2 DEF Control
  <2>4. reg.status = "FAIL" => ~ result
    BY <2>1, <2>2 DEF Control
  <2>5. reg.status = "SUCCESS" =>
          /\ GateOpen(phy) /\ Stored(phy) = DQ /\ Masked(phy) /\ gbl.stage = "NIL"
          /\ \A i \in DQ : phy.dqIn[i] - phy.dqsIn \in board.read[i]
          /\ LatencyFits => Aligned(phy) = DQ
    BY <2>1, <2>2, <2>3 DEF SettingsWork, ErrorOfStage
  <2>6. reg.status = "FAIL" => reg.failing.stage = reg.stage
    BY <2>1, <2>2, <2>4 DEF Control, ErrorOfStage
  <2>7. (reg.status # "RESET" => reg.mux = 2) /\ (reg.mux = 2 => phy.mem = "user")
    BY <2>1, <2>2 DEF Control
  <2> QED
    BY <2>5, <2>6, <2>7 DEF VerdictIsTrue
<1> QED
  BY <1>1, CalibrationInvariant, PTL

(* Whatever the board, as long as it does not need the greatest latency there *)
(* is: the one left with SUCCESS is one above the least that reads, or above  *)
(* one (rw_mgr_mem_calibrate_lfifo).                                          *)
THEOREM LeastLatency == Spec => []LatencyLeast
<1>1. IInv => LatencyLeast
  <2> SUFFICES ASSUME IInv, reg.status = "SUCCESS", LatencyFits
               PROVE  phy.readLat = 1 + LargestOf({board.latency, 1})
    BY DEF LatencyLeast
  <2>1. step = "done" /\ step \in After /\ result
    BY DEF IInv, Control, After
  <2> QED
    BY <2>1 DEF IInv, SettingsWork
<1> QED
  BY <1>1, CalibrationInvariant, PTL

-----------------------------------------------------------------------------
(* The deskews and their figures of merit.                                    *)

(* What the edges of the bits say.  While the left ones are searched, when    *)
(* the bits K can pass and W are their windows: each edge is the place of a   *)
(* delay that captures the bit,                                               *)
LeftPlaces(e, K, W) ==
  \A i \in DQ :
    /\ e.left[i] # Unseen =>
         /\ i \in K /\ e.left[i] - e.start \in W[i]
         /\ 0 - (e.start + IF e.right[i] = Unseen THEN 0 ELSE e.right[i]) \in W[i]
    /\ e.left[i] = Unseen =>
         /\ e.right[i] = IF e.d = 0 THEN Unseen ELSE - e.d
         /\ e.d > 0 => i \notin K \/ 0 - e.start \notin W[i]

(* and no delay tried before captures it beyond its edges.                    *)
LeftOuter(e, K, W) ==
  /\ \A i \in e.sticky : e.left[i] # Unseen
  /\ \A i \in DQ, x \in 0 .. e.d - 1 :
       i \in K /\ x - e.start \in W[i] =>
         /\ e.left[i] # Unseen /\ x <= e.left[i]
         /\ e.right[i] # Unseen => - e.right[i] <= x
  /\ \A i \in DQ : e.left[i] # Unseen =>
       /\ e.left[i] \in 0 .. e.d - 1
       /\ e.right[i] # Unseen => - e.right[i] \in 1 .. e.d - 1
LeftHolds(e, K, W) == LeftPlaces(e, K, W) /\ LeftOuter(e, K, W)

(* The same while the right ones are searched, which a bit that has not been  *)
(* seen so far may begin with its left edge.                                  *)
RightPlaces(e, K, W) ==
  \A i \in DQ :
    /\ e.left[i] # Unseen /\ e.right[i] # Unseen =>
         e.left[i] - e.start \in W[i] /\ 0 - (e.start + e.right[i]) \in W[i]
    /\ e.left[i] # Unseen /\ e.right[i] = Unseen =>
         IF e.d = 0 THEN i \in K /\ e.left[i] - e.start \in W[i] /\ 0 - e.start \in W[i]
         ELSE e.left[i] = - e.d
    /\ e.left[i] = Unseen => e.d = 0 /\ e.right[i] = Unseen /\ (i \notin K \/ 0 - e.start \notin W[i])

(* After n delays; here it takes windows without holes, as either search      *)
(* stops as soon as no bit passes any more.                                   *)
Delays == - DelayMax .. DelayMax
LeftSettled(e, n, i) == e.left[i] # Unseen /\ (e.right[i] # Unseen \/ n = 0)
RightOuter(e, n, K, W) ==
  \A i \in DQ : Whole(W[i]) =>
    /\ e.right[i] # Unseen =>
         /\ i \in K /\ e.left[i] # Unseen /\ e.right[i] \in - DelayMax .. n - 1
         /\ \A x \in Delays : x - e.start \in W[i] /\ x > - n => x >= - e.right[i]
    /\ i \in K /\ LeftSettled(e, n, i) =>
         e.left[i] <= DelayMax /\ \A x \in Delays : x - e.start \in W[i] => x <= e.left[i]
    /\ i \in K /\ ~ LeftSettled(e, n, i) =>
         \A x \in Delays : x - e.start \in W[i] => x <= - n
RightHolds(e, K, W) == RightPlaces(e, K, W) /\ RightOuter(e, e.d, K, W)

(* In the end both are places of a delay that captures the bit, and in a      *)
(* window without holes the outermost ones that the searches can reach.       *)
Held(e, W) ==
  \A i \in DQ : e.left[i] - e.start \in W[i] /\ 0 - (e.start + e.right[i]) \in W[i]
Outermost(e, W) ==
  \A i \in DQ : Whole(W[i]) =>
    /\ e.left[i] \in e.start - DelayMax .. DelayMax
    /\ - e.right[i] \in e.start - DelayMax .. DelayMax
    /\ \A x \in e.start - DelayMax .. DelayMax :
         x - e.start \in W[i] => - e.right[i] <= x /\ x <= e.left[i]

(* The bits that a read test or a write test can show while the input is      *)
(* deskewed.                                                                  *)
Testable(s, useRead) ==
  { i \in DQ : /\ IF useRead THEN s.loaded ELSE i \in Stored(s)
               /\ s.readLat >= board.latency /\ s.mem = "open" /\ GateOpen(s) }

InputEdges ==
  /\ step = "rd_left" =>
       phy.dqsIn = rd.start /\ LeftHolds(rd, Testable(phy, rd.useRead), board.read)
  /\ step = "rd_right" =>
       phy.dqIn = [i \in DQ |-> 0] /\ RightHolds(rd, Testable(phy, rd.useRead), board.read)
OutputEdges ==
  /\ step = "wr_left" =>
       phy.dqsOut = wr.edges.start /\ LeftHolds(wr.edges, Captured(phy), board.write)
  /\ step = "wr_right" =>
       phy.dqOut = [i \in DQ |-> 0] /\ RightHolds(wr.edges, Captured(phy), board.write)

Earned(fom, at, windows) == fom <= SlackAbove(at, windows) + SlackBelow(at, windows)
AtStart == [i \in DQ |-> phy.dqOut[i] - wr.edges.start]
Figures ==
  /\ step \in {"vfifo", "vfifo_try"} \cup EnStep \cup RdStep /\ reg.stage = "VFIFO" =>
       gbl.fomIn = 0 /\ gbl.fomOut = 0
  /\ step \in WrStep \cup {"rd_left", "rd_right"} => gbl.fomIn = 0
  /\ step \in {"wr_left", "wr_right"} => gbl.fomOut = 0
  /\ step \in {"wr_mask", "wr_mask_dqs"} => Earned(gbl.fomOut, AtStart, board.write)
  /\ (\/ step = "wr_return" /\ result
      \/ step \in RdStep /\ reg.stage = "VFIFO_AFTER_WRITES"
      \/ step = "lfifo"
      \/ step \in After /\ result) =>
       Earned(gbl.fomOut, WriteAt, board.write)
  /\ (\/ step = "rd_return" /\ reg.stage = "VFIFO_AFTER_WRITES" /\ result
      \/ step = "lfifo"
      \/ step \in After /\ result) =>
       Earned(gbl.fomIn, ReadAt, board.read)

FInv == InputEdges /\ OutputEdges /\ Figures

-----------------------------------------------------------------------------
(* Every finite set of integers has a largest and a least element: a smallest *)
(* one without would keep having none without one of its elements.            *)
LEMMA FiniteExtremes ==
  ASSUME NEW S, S \subseteq Int, S # {}, IsFiniteSet(S)
  PROVE  /\ \E x \in S : \A y \in S : x >= y
         /\ \E x \in S : \A y \in S : x <= y
<1> DEFINE Great(T) == \E x \in T : \A y \in T : x >= y
           Small(T) == \E x \in T : \A y \in T : x <= y
           Sizes1 == { Cardinality(T) : T \in { U \in SUBSET S : U # {} /\ ~ (Great(U) /\ Small(U)) } }
<1>1. ASSUME ~ (Great(S) /\ Small(S)) PROVE FALSE
  <2>1. Sizes1 \subseteq Nat
    BY FS_Subset, FS_CardinalityType
  <2>2. Cardinality(S) \in Sizes1
    BY <1>1
  <2> HIDE DEF Great, Small
  <2>3. PICK n \in Sizes1 : \A m \in Sizes1 : n <= m
    <3> HIDE DEF Sizes1
    <3> QED
      BY <2>1, <2>2, LeastElement, Zenon
  <2>4. PICK T \in SUBSET S : T # {} /\ ~ (Great(T) /\ Small(T)) /\ n = Cardinality(T)
    BY <2>3
  <2>5. PICK x \in T : TRUE
    BY <2>4
  <2>6. IsFiniteSet(T) /\ x \in T /\ T \subseteq Int
    BY <2>4, <2>5, FS_Subset
  <2>7. IsFiniteSet(T \ {x}) /\ Cardinality(T \ {x}) = n - 1 /\ n \in Nat
    BY <2>4, <2>6, FS_RemoveElement, FS_CardinalityType
  <2>8. CASE T \ {x} = {}
    <3>1. T = {x}
      BY <2>6, <2>8
    <3> QED
      BY <2>4, <2>6, <3>1 DEF Great, Small
  <2>9. CASE T \ {x} # {}
    <3>1. n - 1 \notin Sizes1
      BY <2>3, <2>7
    <3>2. T \ {x} \in SUBSET S
      BY <2>4
    <3>3. Great(T \ {x}) /\ Small(T \ {x})
      BY <2>7, <2>9, <3>1, <3>2
    <3>4. PICK a \in T \ {x} : \A y \in T \ {x} : a >= y
      BY <3>3 DEF Great
    <3>5. PICK b \in T \ {x} : \A y \in T \ {x} : b <= y
      BY <3>3 DEF Small
    <3>6. Great(T)
      <4>1. CASE a >= x
        BY <2>6, <3>4, <4>1 DEF Great
      <4>2. CASE x >= a
        BY <2>6, <3>4, <4>2 DEF Great
      <4> QED
        BY <2>6, <4>1, <4>2
    <3>7. Small(T)
      <4>1. CASE b <= x
        BY <2>6, <3>5, <4>1 DEF Small
      <4>2. CASE x <= b
        BY <2>6, <3>5, <4>2 DEF Small
      <4> QED
        BY <2>6, <4>1, <4>2
    <3> QED
      BY <2>4, <3>6, <3>7
  <2> QED
    BY <2>8, <2>9
<1> QED
  BY <1>1

(* So LargestOf and SmallestOf bound every element.                           *)
LEMMA Bounded ==
  ASSUME NEW S, S \subseteq Int, IsFiniteSet(S), NEW x \in S
  PROVE  /\ LargestOf(S) \in Int /\ x <= LargestOf(S)
         /\ SmallestOf(S) \in Int /\ SmallestOf(S) <= x
<1>1. /\ \E y \in S : \A z \in S : y >= z
      /\ \E y \in S : \A z \in S : y <= z
  BY FiniteExtremes
<1>2. LargestOf(S) \in S /\ \A z \in S : LargestOf(S) >= z
  BY <1>1 DEF LargestOf
<1>3. SmallestOf(S) \in S /\ \A z \in S : SmallestOf(S) <= z
  BY <1>1 DEF SmallestOf
<1> QED
  BY <1>2, <1>3

(* The least of one value for each bit is one of them, and with a limit it is *)
(* not above any of them.                                                     *)
LEMMA LeastOfBits ==
  ASSUME NEW f \in [DQ -> Int], NEW u \in Int
  PROVE  /\ \E i \in DQ : SmallestOf({ f[k] : k \in DQ }) = f[i]
         /\ \A i \in DQ : SmallestOf({u} \cup { f[k] : k \in DQ }) <= f[i]
<1>1. PICK i \in DQ : \A k \in DQ : f[i] <= f[k]
  BY LeastIndex
<1>2. SmallestOf({ f[k] : k \in DQ }) \in { f[k] : k \in DQ }
  <2>1. \E x \in { f[k] : k \in DQ } : \A y \in { f[k] : k \in DQ } : x <= y
    BY <1>1
  <2> QED
    BY <2>1 DEF SmallestOf
<1>3. \E x \in {u} \cup { f[k] : k \in DQ } : \A y \in {u} \cup { f[k] : k \in DQ } : x <= y
  <2> DEFINE S == {u} \cup { f[k] : k \in DQ }
  <2>1. S \subseteq Int /\ u \in S /\ f[i] \in S
    OBVIOUS
  <2>2. \A y \in S : (u <= f[i] => u <= y) /\ (f[i] <= u => f[i] <= y)
    BY <1>1, <2>1
  <2> QED
    BY <2>1, <2>2
<1>4. \A y \in {u} \cup { f[k] : k \in DQ } : SmallestOf({u} \cup { f[k] : k \in DQ }) <= y
  BY <1>3 DEF SmallestOf
<1> QED
  BY <1>2, <1>4

(* The edges m after a delay of the left search at which these bits pass,     *)
(* after its end, and after a delay of the right search.                      *)
LeftMoves(e, bits, n, m) ==
  /\ m.d = n /\ m.start = e.start /\ m.sticky \subseteq e.sticky \cup bits
  /\ \A i \in DQ : m.left[i] = IF i \in bits THEN e.d ELSE e.left[i]
  /\ \A i \in DQ : m.right[i] = IF i \notin bits /\ e.left[i] = Unseen THEN - (e.d + 1)
                               ELSE e.right[i]
LeftStops(e, bits, m) ==
  /\ m.d = 0 /\ m.start = e.start
  /\ \A i \in DQ : m.left[i] = IF i \in bits THEN e.d ELSE e.left[i]
  /\ \A i \in DQ : m.right[i] = IF m.left[i] = Unseen THEN Unseen ELSE e.right[i]
RightMoves(e, bits, n, m) ==
  /\ m.d = n /\ m.start = e.start
  /\ \A i \in DQ :
       m.right[i] = IF i \in bits THEN e.d
                    ELSE IF e.d = 0 /\ e.right[i] = Unseen /\ e.left[i] # Unseen THEN -1
                    ELSE e.right[i]
  /\ \A i \in DQ :
       m.left[i] = IF i \notin bits /\ e.right[i] = Unseen /\ (e.d # 0 \/ e.left[i] = Unseen)
                   THEN - (e.d + 1) ELSE e.left[i]

(* What LeftSeen,                                                             *)
LEMMA LeftSeenMoves ==
  ASSUME NEW e \in Edges, NEW bits \in SUBSET DQ, NEW S \in SUBSET DQ, NEW n \in Tap,
         S = e.sticky \cup bits
  PROVE  LeftMoves(e, bits, n, [[LeftSeen(e, bits) EXCEPT !.sticky = S] EXCEPT !.d = n])
BY DEF LeftMoves, LeftSeen, Edges

(* LeftDone                                                                   *)
LEMMA LeftDoneStops ==
  ASSUME NEW e \in Edges, NEW bits \in SUBSET DQ, NEW S \in SUBSET DQ, NEW T \in SUBSET DQ
  PROVE  /\ LeftStops(e, {}, [LeftDone(e) EXCEPT !.sticky = T])
         /\ LeftStops(e, bits, [LeftDone([LeftSeen(e, bits) EXCEPT !.sticky = S])
                                  EXCEPT !.sticky = T])
BY DEF LeftStops, LeftDone, LeftSeen, Edges

(* and RightSeen make of the edges.                                           *)
LEMMA RightSeenMoves ==
  ASSUME NEW e \in Edges, NEW bits \in SUBSET DQ, NEW S \in SUBSET DQ, NEW n \in Tap
  PROVE  /\ RightMoves(e, bits, e.d, [RightSeen(e, bits) EXCEPT !.sticky = S])
         /\ RightMoves(e, bits, n, [[RightSeen(e, bits) EXCEPT !.sticky = S] EXCEPT !.d = n])
BY DEF RightMoves, RightSeen, Edges

(* A delay of the left search keeps what is known of the edges.               *)
LEMMA LeftPlacesStep ==
  ASSUME NEW e \in Edges, NEW K \in SUBSET DQ, NEW W, NEW m, NEW bits,
         bits = { i \in K : e.d - e.start \in W[i] }, LeftPlaces(e, K, W),
         LeftMoves(e, bits, e.d + 1, m)
  PROVE  LeftPlaces(m, K, W)
<1>1. e.d \in Tap /\ e.start \in Tap /\ DelayMax \in Nat
  BY Constants DEF Edges, Tap
<1>2. /\ m.d = e.d + 1 /\ m.start = e.start
      /\ \A i \in DQ : m.left[i] = IF i \in bits THEN e.d ELSE e.left[i]
      /\ \A i \in DQ : m.right[i] = IF i \notin bits /\ e.left[i] = Unseen THEN - (e.d + 1)
                                   ELSE e.right[i]
  BY DEF LeftMoves
<1> SUFFICES ASSUME NEW i \in DQ
             PROVE  /\ m.left[i] # Unseen =>
                         /\ i \in K /\ m.left[i] - m.start \in W[i]
                         /\ 0 - (m.start + IF m.right[i] = Unseen THEN 0 ELSE m.right[i]) \in W[i]
                    /\ m.left[i] = Unseen =>
                         /\ m.right[i] = IF m.d = 0 THEN Unseen ELSE - m.d
                         /\ m.d > 0 => i \notin K \/ 0 - m.start \notin W[i]
  BY DEF LeftPlaces
<1>3. /\ m.left[i] = IF i \in bits THEN e.d ELSE e.left[i]
      /\ m.right[i] = IF i \notin bits /\ e.left[i] = Unseen THEN - (e.d + 1) ELSE e.right[i]
  BY <1>2
<1>4. /\ e.left[i] # Unseen =>
           /\ i \in K /\ e.left[i] - e.start \in W[i]
           /\ 0 - (e.start + IF e.right[i] = Unseen THEN 0 ELSE e.right[i]) \in W[i]
      /\ e.left[i] = Unseen =>
           /\ e.right[i] = IF e.d = 0 THEN Unseen ELSE - e.d
           /\ e.d > 0 => i \notin K \/ 0 - e.start \notin W[i]
  BY DEF LeftPlaces
<1>5. i \in bits <=> i \in K /\ e.d - e.start \in W[i]
  OBVIOUS
<1>6. e.left[i] \in Int /\ e.right[i] \in Int /\ Unseen = DelayMax + 1
  BY DEF Edges, Unseen
<1>7. e.d \in 0 .. DelayMax /\ e.start \in 0 .. DelayMax
  BY <1>1 DEF Tap
<1>8. CASE e.left[i] # Unseen
  <2>1. m.right[i] = e.right[i]
    BY <1>3, <1>8
  <2>2. m.left[i] # Unseen /\ i \in K /\ m.left[i] - m.start \in W[i]
    BY <1>1, <1>2, <1>3, <1>4, <1>5, <1>6, <1>7, <1>8
  <2> QED
    BY <1>2, <1>4, <1>8, <2>1, <2>2
<1>9. CASE e.left[i] = Unseen /\ i \in bits
  <2>1. m.left[i] = e.d /\ m.left[i] # Unseen /\ m.right[i] = e.right[i]
    BY <1>1, <1>3, <1>6, <1>7, <1>9
  <2>2. e.start + (IF m.right[i] = Unseen THEN 0 ELSE m.right[i]) = e.start - e.d
    BY <1>1, <1>4, <1>6, <1>7, <1>9, <2>1
  <2>3. 0 - (e.start - e.d) = e.d - e.start
    BY <1>7
  <2> QED
    BY <1>2, <1>5, <1>9, <2>1, <2>2, <2>3
<1>10. CASE e.left[i] = Unseen /\ i \notin bits
  <2>1. m.left[i] = Unseen /\ m.right[i] = - (e.d + 1)
    BY <1>3, <1>10
  <2>2. m.d # 0 /\ m.right[i] = - m.d
    BY <1>2, <1>7, <2>1
  <2>3. i \notin K \/ 0 - e.start \notin W[i]
    <3>1. CASE e.d = 0
      BY <1>5, <1>10, <3>1
    <3>2. CASE e.d > 0
      BY <1>4, <1>10, <3>2
    <3> QED
      BY <1>7, <3>1, <3>2
  <2> QED
    BY <1>2, <2>1, <2>2, <2>3
<1> QED
  BY <1>8, <1>9, <1>10

(* So does its end.                                                           *)
LEMMA LeftPlacesEnd ==
  ASSUME NEW e \in Edges, NEW K \in SUBSET DQ, NEW W, NEW m, NEW bits,
         bits = { i \in K : e.d - e.start \in W[i] }, LeftPlaces(e, K, W),
         LeftStops(e, bits, m)
  PROVE  RightPlaces(m, K, W)
<1>2. /\ m.d = 0 /\ m.start = e.start
      /\ \A i \in DQ : m.left[i] = IF i \in bits THEN e.d ELSE e.left[i]
      /\ \A i \in DQ : m.right[i] = IF m.left[i] = Unseen THEN Unseen ELSE e.right[i]
  BY DEF LeftStops
<1> SUFFICES ASSUME NEW i \in DQ
    PROVE  /\ m.left[i] # Unseen /\ m.right[i] # Unseen =>
                m.left[i] - m.start \in W[i] /\ 0 - (m.start + m.right[i]) \in W[i]
           /\ m.left[i] # Unseen /\ m.right[i] = Unseen =>
                IF m.d = 0 THEN i \in K /\ m.left[i] - m.start \in W[i] /\ 0 - m.start \in W[i]
                ELSE m.left[i] = - m.d
           /\ m.left[i] = Unseen => /\ m.d = 0 /\ m.right[i] = Unseen
                                    /\ i \notin K \/ 0 - m.start \notin W[i]
  BY DEF RightPlaces
<1>3. /\ m.left[i] = IF i \in bits THEN e.d ELSE e.left[i]
      /\ m.right[i] = IF m.left[i] = Unseen THEN Unseen ELSE e.right[i]
  BY <1>2
<1>4. /\ e.left[i] # Unseen =>
           /\ i \in K /\ e.left[i] - e.start \in W[i]
           /\ 0 - (e.start + IF e.right[i] = Unseen THEN 0 ELSE e.right[i]) \in W[i]
      /\ e.left[i] = Unseen =>
           /\ e.right[i] = IF e.d = 0 THEN Unseen ELSE - e.d
           /\ e.d > 0 => i \notin K \/ 0 - e.start \notin W[i]
  BY DEF LeftPlaces
<1>5. i \in bits <=> i \in K /\ e.d - e.start \in W[i]
  OBVIOUS
<1>6. e.left[i] \in Int /\ e.right[i] \in Int /\ Unseen = DelayMax + 1
  BY DEF Edges, Unseen
<1>7. e.d \in 0 .. DelayMax /\ e.start \in 0 .. DelayMax /\ DelayMax \in Nat
  BY Constants DEF Edges, Tap
<1>8. CASE m.left[i] = Unseen
  <2>1. e.left[i] = Unseen /\ i \notin bits
    BY <1>3, <1>6, <1>7, <1>8
  <2>2. i \notin K \/ 0 - e.start \notin W[i]
    <3>1. CASE e.d = 0
      BY <1>5, <2>1, <3>1
    <3>2. CASE e.d > 0
      BY <1>4, <2>1, <3>2
    <3> QED
      BY <1>7, <3>1, <3>2
  <2> QED
    BY <1>2, <1>8, <2>2
<1>9. CASE m.left[i] # Unseen
  <2>1. i \in K /\ m.left[i] - e.start \in W[i]
    BY <1>3, <1>4, <1>5, <1>9
  <2>2. m.right[i] = e.right[i]
    BY <1>3, <1>9
  <2>3. 0 - (e.start + IF e.right[i] = Unseen THEN 0 ELSE e.right[i]) \in W[i]
    <3>1. CASE e.left[i] # Unseen
      BY <1>4, <3>1
    <3>2. CASE e.left[i] = Unseen
      <4>1. i \in bits /\ e.d - e.start \in W[i]
        BY <1>3, <1>5, <1>9, <3>2
      <4>2. e.start + (IF e.right[i] = Unseen THEN 0 ELSE e.right[i]) = e.start - e.d
        BY <1>4, <1>6, <1>7, <3>2
      <4>3. 0 - (e.start - e.d) = e.d - e.start
        BY <1>7
      <4> QED
        BY <4>1, <4>2, <4>3
    <3> QED
      BY <3>1, <3>2
  <2>4. e.start + 0 = e.start
    BY <1>7
  <2> QED
    BY <1>2, <1>9, <2>1, <2>2, <2>3, <2>4
<1> QED
  BY <1>8, <1>9

(* A delay of the right search keeps it too,                                  *)
LEMMA RightPlacesStep ==
  ASSUME NEW e \in Edges, NEW K \in SUBSET DQ, NEW W, NEW m, NEW bits,
         bits = { i \in K : 0 - (e.start + e.d) \in W[i] }, RightPlaces(e, K, W),
         RightMoves(e, bits, e.d + 1, m)
  PROVE  RightPlaces(m, K, W)
<1>1. e.d \in 0 .. DelayMax /\ e.start \in 0 .. DelayMax /\ DelayMax \in Nat
      /\ Unseen = DelayMax + 1
  BY Constants DEF Edges, Tap, Unseen
<1>2. m.d = e.d + 1 /\ m.start = e.start
  BY DEF RightMoves
<1> SUFFICES ASSUME NEW i \in DQ
    PROVE  /\ m.left[i] # Unseen /\ m.right[i] # Unseen =>
                m.left[i] - m.start \in W[i] /\ 0 - (m.start + m.right[i]) \in W[i]
           /\ m.left[i] # Unseen /\ m.right[i] = Unseen =>
                IF m.d = 0 THEN i \in K /\ m.left[i] - m.start \in W[i] /\ 0 - m.start \in W[i]
                ELSE m.left[i] = - m.d
           /\ m.left[i] = Unseen => /\ m.d = 0 /\ m.right[i] = Unseen
                                    /\ i \notin K \/ 0 - m.start \notin W[i]
  BY DEF RightPlaces
<1>3. /\ m.right[i] = IF i \in bits THEN e.d
                     ELSE IF e.d = 0 /\ e.right[i] = Unseen /\ e.left[i] # Unseen THEN -1
                     ELSE e.right[i]
      /\ m.left[i] = IF i \notin bits /\ e.right[i] = Unseen /\ (e.d # 0 \/ e.left[i] = Unseen)
                    THEN - (e.d + 1) ELSE e.left[i]
  BY DEF RightMoves
<1>4. /\ e.left[i] # Unseen /\ e.right[i] # Unseen =>
           e.left[i] - e.start \in W[i] /\ 0 - (e.start + e.right[i]) \in W[i]
      /\ e.left[i] # Unseen /\ e.right[i] = Unseen =>
           IF e.d = 0 THEN i \in K /\ e.left[i] - e.start \in W[i] /\ 0 - e.start \in W[i]
           ELSE e.left[i] = - e.d
      /\ e.left[i] = Unseen => /\ e.d = 0 /\ e.right[i] = Unseen
                               /\ i \notin K \/ 0 - e.start \notin W[i]
  BY DEF RightPlaces
<1>5. /\ i \in bits <=> i \in K /\ 0 - (e.start + e.d) \in W[i]
      /\ e.d = 0 => 0 - (e.start + e.d) = 0 - e.start
      /\ (- e.d) - e.start = 0 - (e.start + e.d)
  BY <1>1
<1>6. e.left[i] \in Int /\ e.right[i] \in Int
  BY DEF Edges
<1>7. CASE i \in bits
  <2>1. m.left[i] = e.left[i] /\ m.right[i] = e.d
    BY <1>3, <1>7
  <2>2. m.right[i] # Unseen
    BY <1>1, <2>1
  <2>3. e.left[i] # Unseen
    BY <1>4, <1>5, <1>7
  <2>4. e.left[i] - e.start \in W[i]
    <3>1. CASE e.right[i] # Unseen
      BY <1>4, <2>3, <3>1
    <3>2. CASE e.right[i] = Unseen /\ e.d = 0
      BY <1>4, <2>3, <3>2
    <3>3. CASE e.right[i] = Unseen /\ e.d # 0
      BY <1>4, <1>5, <1>7, <2>3, <3>3
    <3> QED
      BY <3>1, <3>2, <3>3
  <2> QED
    BY <1>2, <1>5, <1>7, <2>1, <2>2, <2>3, <2>4
<1>8. CASE i \notin bits /\ e.left[i] # Unseen /\ e.right[i] # Unseen
  <2>1. m.left[i] = e.left[i] /\ m.right[i] = e.right[i]
    BY <1>3, <1>8
  <2> QED
    BY <1>2, <1>4, <1>8, <2>1
<1>9. CASE i \notin bits /\ e.left[i] # Unseen /\ e.right[i] = Unseen
  <2>1. e.d # 0
    BY <1>4, <1>5, <1>9
  <2>2. m.left[i] = - (e.d + 1) /\ m.right[i] = Unseen
    BY <1>3, <1>9, <2>1
  <2>3. m.left[i] # Unseen /\ m.d # 0 /\ m.left[i] = - m.d
    BY <1>1, <1>2, <2>2
  <2> QED
    BY <2>2, <2>3
<1>10. CASE i \notin bits /\ e.left[i] = Unseen
  <2>1. e.d = 0
    BY <1>4, <1>10
  <2>2. e.right[i] = Unseen
    BY <1>4, <1>10
  <2>3. m.left[i] = -1 /\ m.right[i] = Unseen
    BY <1>1, <1>3, <1>10, <2>1, <2>2
  <2>4. m.left[i] # Unseen /\ m.d = 1 /\ m.left[i] = - m.d
    BY <1>1, <1>2, <2>1, <2>3
  <2> QED
    BY <2>3, <2>4
<1> QED
  BY <1>7, <1>8, <1>9, <1>10

(* A delay of the left search leaves no delay beyond the edges either,        *)
LEMMA LeftOuterStep ==
  ASSUME NEW e \in Edges, NEW K \in SUBSET DQ, NEW W, NEW m, NEW bits,
         bits = { i \in K : e.d - e.start \in W[i] }, LeftPlaces(e, K, W), LeftOuter(e, K, W),
         LeftMoves(e, bits, e.d + 1, m)
  PROVE  LeftOuter(m, K, W)
<1>1. e.d \in 0 .. DelayMax /\ e.start \in 0 .. DelayMax /\ DelayMax \in Nat
      /\ Unseen = DelayMax + 1 /\ e.sticky \subseteq DQ
  BY Constants DEF Edges, Tap, Unseen
<1>2. m.d = e.d + 1 /\ m.start = e.start /\ m.sticky \subseteq e.sticky \cup bits
  BY DEF LeftMoves
<1>3. \A i \in DQ :
        /\ m.left[i] = IF i \in bits THEN e.d ELSE e.left[i]
        /\ m.right[i] = IF i \notin bits /\ e.left[i] = Unseen THEN - (e.d + 1) ELSE e.right[i]
        /\ e.left[i] \in Int /\ e.right[i] \in Int
        /\ i \in bits <=> i \in K /\ e.d - e.start \in W[i]
  BY DEF LeftMoves, Edges
<1>4. \A i \in DQ : e.left[i] = Unseen => e.right[i] = IF e.d = 0 THEN Unseen ELSE - e.d
  BY DEF LeftPlaces
<1>5. /\ \A i \in e.sticky : e.left[i] # Unseen
      /\ \A i \in DQ, x \in 0 .. e.d - 1 :
           i \in K /\ x - e.start \in W[i] =>
             /\ e.left[i] # Unseen /\ x <= e.left[i]
             /\ e.right[i] # Unseen => - e.right[i] <= x
      /\ \A i \in DQ : e.left[i] # Unseen =>
           /\ e.left[i] \in 0 .. e.d - 1
           /\ e.right[i] # Unseen => - e.right[i] \in 1 .. e.d - 1
  BY DEF LeftOuter
<1>6. ASSUME NEW i \in m.sticky PROVE m.left[i] # Unseen
  <2>1. i \in DQ
    BY <1>1, <1>2
  <2> QED
    BY <1>1, <1>2, <1>3, <1>5, <2>1
<1>7. ASSUME NEW i \in DQ, m.left[i] # Unseen
      PROVE  /\ m.left[i] \in 0 .. m.d - 1
             /\ m.right[i] # Unseen => - m.right[i] \in 1 .. m.d - 1
  <2>1. CASE i \in bits
    <3>1. m.left[i] = e.d /\ m.right[i] = e.right[i]
      BY <1>3, <2>1
    <3>2. e.right[i] # Unseen => - e.right[i] \in 1 .. e.d
      <4>1. CASE e.left[i] = Unseen
        BY <1>1, <1>4, <4>1
      <4>2. CASE e.left[i] # Unseen
        BY <1>1, <1>5, <4>2
      <4> QED
        BY <4>1, <4>2
    <3> QED
      BY <1>1, <1>2, <3>1, <3>2
  <2>2. CASE i \notin bits
    <3>1. m.left[i] = e.left[i] /\ m.right[i] = e.right[i]
      BY <1>3, <1>7, <2>2
    <3> QED
      BY <1>1, <1>2, <1>5, <1>7, <3>1
  <2> QED
    BY <2>1, <2>2
<1>8. ASSUME NEW i \in DQ, NEW x \in 0 .. m.d - 1, i \in K, x - m.start \in W[i]
      PROVE  /\ m.left[i] # Unseen /\ x <= m.left[i]
             /\ m.right[i] # Unseen => - m.right[i] <= x
  <2>1. x \in 0 .. e.d /\ x - e.start \in W[i]
    BY <1>1, <1>2, <1>8
  <2>2. CASE x = e.d
    <3>1. i \in bits
      BY <1>3, <1>8, <2>1, <2>2
    <3>2. m.left[i] = e.d /\ m.right[i] = e.right[i]
      BY <1>3, <3>1
    <3>3. m.left[i] # Unseen
      BY <1>1, <3>2
    <3>4. m.right[i] # Unseen => - m.right[i] \in 1 .. m.d - 1
      BY <1>7, <3>3
    <3> QED
      BY <1>1, <1>2, <1>3, <2>2, <3>2, <3>3, <3>4
  <2>3. CASE x # e.d
    <3>1. x \in 0 .. e.d - 1
      BY <1>1, <2>1, <2>3
    <3>2. /\ e.left[i] # Unseen /\ x <= e.left[i]
          /\ e.right[i] # Unseen => - e.right[i] <= x
      BY <1>5, <1>8, <2>1, <3>1
    <3>3. m.left[i] \in {e.left[i], e.d} /\ m.right[i] = e.right[i]
      BY <1>3, <3>2
    <3> QED
      BY <1>1, <3>1, <3>2, <3>3
  <2> QED
    BY <2>2, <2>3
<1> QED
  BY <1>6, <1>7, <1>8 DEF LeftOuter

(* nor does its end, after the last delay or when no bit passes any more.     *)
LEMMA LeftOuterEnd ==
  ASSUME NEW e \in Edges, NEW K \in SUBSET DQ, NEW W, NEW m, NEW bits,
         bits = { i \in K : e.d - e.start \in W[i] }, LeftPlaces(e, K, W), LeftOuter(e, K, W),
         LeftStops(e, bits, m), e.d = DelayMax \/ (bits = {} /\ e.sticky = DQ)
  PROVE  RightOuter(m, m.d, K, W)
<1>1. e.d \in 0 .. DelayMax /\ e.start \in 0 .. DelayMax /\ DelayMax \in Nat
      /\ Unseen = DelayMax + 1
  BY Constants DEF Edges, Tap, Unseen
<1>2. m.d = 0 /\ m.start = e.start
  BY DEF LeftStops
<1> SUFFICES ASSUME NEW i \in DQ, Whole(W[i])
    PROVE  /\ m.right[i] # Unseen =>
                /\ i \in K /\ m.left[i] # Unseen /\ m.right[i] \in - DelayMax .. m.d - 1
                /\ \A x \in Delays : x - m.start \in W[i] /\ x > - m.d => x >= - m.right[i]
           /\ i \in K /\ LeftSettled(m, m.d, i) =>
                m.left[i] <= DelayMax /\ \A x \in Delays : x - m.start \in W[i] => x <= m.left[i]
           /\ i \in K /\ ~ LeftSettled(m, m.d, i) =>
                \A x \in Delays : x - m.start \in W[i] => x <= - m.d
  BY DEF RightOuter
<1>3. /\ m.left[i] = IF i \in bits THEN e.d ELSE e.left[i]
      /\ m.right[i] = IF m.left[i] = Unseen THEN Unseen ELSE e.right[i]
      /\ e.left[i] \in Int /\ e.right[i] \in Int
      /\ i \in bits <=> i \in K /\ e.d - e.start \in W[i]
  BY DEF LeftStops, Edges
<1>4. /\ e.left[i] # Unseen => i \in K /\ e.left[i] - e.start \in W[i]
      /\ e.left[i] = Unseen => e.right[i] = IF e.d = 0 THEN Unseen ELSE - e.d
  BY DEF LeftPlaces
<1>5. /\ e.sticky = DQ => e.left[i] # Unseen
      /\ \A x \in 0 .. e.d - 1 :
           i \in K /\ x - e.start \in W[i] =>
             /\ e.left[i] # Unseen /\ x <= e.left[i]
             /\ e.right[i] # Unseen => - e.right[i] <= x
      /\ e.left[i] # Unseen =>
           /\ e.left[i] \in 0 .. e.d - 1
           /\ e.right[i] # Unseen => - e.right[i] \in 1 .. e.d - 1
  BY DEF LeftOuter
<1>6. m.left[i] # Unseen =>
        /\ i \in K /\ m.left[i] \in 0 .. e.d /\ m.right[i] = e.right[i]
        /\ m.right[i] # Unseen => - m.right[i] \in 1 .. e.d
  <2> SUFFICES ASSUME m.left[i] # Unseen
               PROVE  /\ i \in K /\ m.left[i] \in 0 .. e.d /\ m.right[i] = e.right[i]
                      /\ m.right[i] # Unseen => - m.right[i] \in 1 .. e.d
    OBVIOUS
  <2>1. m.right[i] = e.right[i]
    BY <1>3
  <2>2. CASE e.left[i] # Unseen
    <3>1. e.left[i] \in 0 .. e.d - 1 /\ (e.right[i] # Unseen => - e.right[i] \in 1 .. e.d - 1)
      BY <1>5, <2>2
    <3> QED
      BY <1>1, <1>3, <1>4, <2>1, <2>2, <3>1
  <2>3. CASE e.left[i] = Unseen
    <3>1. i \in bits /\ m.left[i] = e.d
      BY <1>3, <2>3
    <3> QED
      BY <1>1, <1>3, <1>4, <2>1, <2>3, <3>1
  <2> QED
    BY <2>2, <2>3
<1>7. ASSUME NEW x \in 0 .. e.d, i \in K, x - e.start \in W[i]
      PROVE  /\ m.left[i] # Unseen /\ x <= m.left[i]
             /\ m.right[i] # Unseen => - m.right[i] <= x
  <2>1. CASE x = e.d
    <3>1. i \in bits /\ m.left[i] = e.d
      BY <1>3, <1>7, <2>1
    <3>2. m.left[i] # Unseen
      BY <1>1, <3>1
    <3> QED
      BY <1>1, <1>3, <1>6, <2>1, <3>1, <3>2
  <2>2. CASE x # e.d
    <3>1. x \in 0 .. e.d - 1
      BY <1>1, <2>2
    <3>2. /\ e.left[i] # Unseen /\ x <= e.left[i]
          /\ e.right[i] # Unseen => - e.right[i] <= x
      BY <1>5, <1>7, <3>1
    <3>3. m.left[i] \in {e.left[i], e.d} /\ m.left[i] # Unseen
      BY <1>1, <1>3, <3>2
    <3>4. m.right[i] = e.right[i]
      BY <1>3, <3>3
    <3> QED
      BY <1>1, <3>1, <3>2, <3>3, <3>4
  <2> QED
    BY <2>1, <2>2
<1>8. ASSUME NEW x \in Delays, x > e.d, i \in K, x - e.start \in W[i]
      PROVE  FALSE
  <2>1. bits = {} /\ e.sticky = DQ
    BY <1>1, <1>8 DEF Delays
  <2>2. e.left[i] \in 0 .. e.d - 1 /\ e.left[i] - e.start \in W[i] /\ e.d - e.start \notin W[i]
    BY <1>3, <1>4, <1>5, <1>8, <2>1
  <2>3. (e.left[i] - e.start) .. (x - e.start) \subseteq W[i]
    BY <1>8, <2>2 DEF Whole
  <2>4. e.d - e.start \in (e.left[i] - e.start) .. (x - e.start)
    BY <1>1, <1>8, <2>2 DEF Delays
  <2> QED
    BY <2>2, <2>3, <2>4
<1>9. m.right[i] # Unseen =>
        /\ i \in K /\ m.left[i] # Unseen /\ m.right[i] \in - DelayMax .. m.d - 1
        /\ \A x \in Delays : x - m.start \in W[i] /\ x > - m.d => x >= - m.right[i]
  <2> SUFFICES ASSUME m.right[i] # Unseen
      PROVE  /\ i \in K /\ m.left[i] # Unseen /\ m.right[i] \in - DelayMax .. m.d - 1
             /\ \A x \in Delays : x - m.start \in W[i] /\ x > - m.d => x >= - m.right[i]
    OBVIOUS
  <2>1. i \in K /\ m.left[i] # Unseen /\ - m.right[i] \in 1 .. e.d /\ m.right[i] \in Int
    BY <1>3, <1>6
  <2>2. ASSUME NEW x \in Delays, x - m.start \in W[i], x > - m.d PROVE x >= - m.right[i]
    <3>1. x \in 0 .. e.d
      BY <1>1, <1>2, <1>8, <2>1, <2>2 DEF Delays
    <3> QED
      BY <1>2, <1>7, <2>1, <2>2, <3>1
  <2> QED
    BY <1>1, <1>2, <2>1, <2>2
<1>10. i \in K /\ LeftSettled(m, m.d, i) =>
         m.left[i] <= DelayMax /\ \A x \in Delays : x - m.start \in W[i] => x <= m.left[i]
  <2> SUFFICES ASSUME i \in K, m.left[i] # Unseen
      PROVE  m.left[i] <= DelayMax /\ \A x \in Delays : x - m.start \in W[i] => x <= m.left[i]
    BY DEF LeftSettled
  <2>1. m.left[i] \in 0 .. e.d
    BY <1>6
  <2>2. ASSUME NEW x \in Delays, x - m.start \in W[i] PROVE x <= m.left[i]
    <3>1. CASE x < 0
      BY <1>1, <2>1, <3>1 DEF Delays
    <3>2. CASE x >= 0
      <4>1. x \in 0 .. e.d
        BY <1>1, <1>2, <1>8, <2>2, <3>2 DEF Delays
      <4> QED
        BY <1>2, <1>7, <2>2, <4>1
    <3> QED
      BY <1>1, <3>1, <3>2 DEF Delays
  <2> QED
    BY <1>1, <2>1, <2>2
<1>11. i \in K /\ ~ LeftSettled(m, m.d, i) =>
         \A x \in Delays : x - m.start \in W[i] => x <= - m.d
  <2> SUFFICES ASSUME i \in K, m.left[i] = Unseen, NEW x \in Delays, x - m.start \in W[i]
               PROVE  x <= - m.d
    BY <1>2 DEF LeftSettled
  <2>1. x \notin 0 .. e.d
    BY <1>2, <1>7
  <2>2. ~ (x > e.d)
    BY <1>2, <1>8
  <2> QED
    BY <1>1, <1>2, <2>1, <2>2 DEF Delays
<1> QED
  BY <1>9, <1>10, <1>11

(* Nor does a delay of the right search.                                      *)
LEMMA RightOuterMoves ==
  ASSUME NEW e \in Edges, NEW K \in SUBSET DQ, NEW W, NEW m, NEW n, NEW bits,
         bits = { i \in K : 0 - (e.start + e.d) \in W[i] }, RightPlaces(e, K, W),
         RightOuter(e, e.d, K, W), RightMoves(e, bits, n, m)
  PROVE  RightOuter(m, e.d + 1, K, W)
<1>1. e.d \in 0 .. DelayMax /\ e.start \in 0 .. DelayMax /\ DelayMax \in Nat
      /\ Unseen = DelayMax + 1
  BY Constants DEF Edges, Tap, Unseen
<1>2. m.start = e.start
  BY DEF RightMoves
<1> SUFFICES ASSUME NEW i \in DQ, Whole(W[i])
    PROVE  /\ m.right[i] # Unseen =>
                /\ i \in K /\ m.left[i] # Unseen /\ m.right[i] \in - DelayMax .. (e.d + 1) - 1
                /\ \A x \in Delays : x - m.start \in W[i] /\ x > - (e.d + 1) => x >= - m.right[i]
           /\ i \in K /\ LeftSettled(m, e.d + 1, i) =>
                m.left[i] <= DelayMax /\ \A x \in Delays : x - m.start \in W[i] => x <= m.left[i]
           /\ i \in K /\ ~ LeftSettled(m, e.d + 1, i) =>
                \A x \in Delays : x - m.start \in W[i] => x <= - (e.d + 1)
  BY DEF RightOuter
<1>3. /\ m.right[i] = IF i \in bits THEN e.d
                     ELSE IF e.d = 0 /\ e.right[i] = Unseen /\ e.left[i] # Unseen THEN -1
                     ELSE e.right[i]
      /\ m.left[i] = IF i \notin bits /\ e.right[i] = Unseen /\ (e.d # 0 \/ e.left[i] = Unseen)
                    THEN - (e.d + 1) ELSE e.left[i]
      /\ e.left[i] \in Int /\ e.right[i] \in Int
  BY DEF RightMoves, Edges
<1>4. /\ e.left[i] # Unseen /\ e.right[i] = Unseen =>
           IF e.d = 0 THEN i \in K /\ 0 - e.start \in W[i] ELSE e.left[i] = - e.d
      /\ e.left[i] = Unseen => /\ e.d = 0 /\ e.right[i] = Unseen
                               /\ i \notin K \/ 0 - e.start \notin W[i]
  BY DEF RightPlaces
<1>5. /\ e.right[i] # Unseen =>
           /\ i \in K /\ e.left[i] # Unseen /\ e.right[i] \in - DelayMax .. e.d - 1
           /\ \A x \in Delays : x - e.start \in W[i] /\ x > - e.d => x >= - e.right[i]
      /\ i \in K /\ LeftSettled(e, e.d, i) =>
           e.left[i] <= DelayMax /\ \A x \in Delays : x - e.start \in W[i] => x <= e.left[i]
      /\ i \in K /\ ~ LeftSettled(e, e.d, i) =>
           \A x \in Delays : x - e.start \in W[i] => x <= - e.d
  BY DEF RightOuter
<1>6. /\ i \in bits <=> i \in K /\ 0 - (e.start + e.d) \in W[i]
      /\ (- e.d) - e.start = 0 - (e.start + e.d)
      /\ e.d = 0 => 0 - (e.start + e.d) = 0 - e.start
  BY <1>1
<1>7. CASE i \in bits
  <2>1. i \in K /\ e.left[i] # Unseen /\ m.left[i] = e.left[i] /\ m.right[i] = e.d
    BY <1>3, <1>4, <1>6, <1>7
  <2>2. m.right[i] # Unseen /\ m.right[i] \in - DelayMax .. (e.d + 1) - 1
    BY <1>1, <2>1
  <2>3. \A x \in Delays : x > - (e.d + 1) => x >= - m.right[i]
    BY <1>1, <2>1 DEF Delays
  <2>4. m.left[i] <= DelayMax /\ \A x \in Delays : x - m.start \in W[i] => x <= m.left[i]
    <3>1. CASE e.right[i] # Unseen \/ e.d = 0
      <4>1. LeftSettled(e, e.d, i)
        BY <2>1, <3>1 DEF LeftSettled
      <4> QED
        BY <1>2, <1>5, <2>1, <4>1
    <3>2. CASE e.right[i] = Unseen /\ e.d # 0
      <4>1. ~ LeftSettled(e, e.d, i) /\ e.left[i] = - e.d
        BY <1>4, <2>1, <3>2 DEF LeftSettled
      <4>2. \A x \in Delays : x - e.start \in W[i] => x <= - e.d
        BY <1>5, <2>1, <4>1
      <4>3. - e.d <= DelayMax
        BY <1>1
      <4> QED
        BY <1>2, <2>1, <4>1, <4>2, <4>3
    <3> QED
      BY <3>1, <3>2
  <2>5. LeftSettled(m, e.d + 1, i)
    BY <2>1, <2>2 DEF LeftSettled
  <2> QED
    BY <2>1, <2>2, <2>3, <2>4, <2>5
<1>8. CASE i \notin bits /\ e.right[i] # Unseen
  <2>1. i \in K /\ e.left[i] # Unseen /\ m.left[i] = e.left[i] /\ m.right[i] = e.right[i]
    BY <1>3, <1>5, <1>8
  <2>2. (- e.d) - e.start \notin W[i]
    BY <1>6, <1>8, <2>1
  <2>3. m.right[i] \in - DelayMax .. (e.d + 1) - 1
    BY <1>1, <1>5, <1>8, <2>1
  <2>4. ASSUME NEW x \in Delays, x - m.start \in W[i], x > - (e.d + 1) PROVE x >= - m.right[i]
    <3>1. x # - e.d
      BY <1>2, <2>2, <2>4
    <3>2. x > - e.d
      BY <1>1, <2>4, <3>1 DEF Delays
    <3> QED
      BY <1>2, <1>5, <1>8, <2>1, <2>4, <3>2
  <2>5. LeftSettled(e, e.d, i) /\ LeftSettled(m, e.d + 1, i)
    BY <1>8, <2>1 DEF LeftSettled
  <2> QED
    BY <1>2, <1>5, <2>1, <2>3, <2>4, <2>5
<1>9. CASE i \notin bits /\ e.right[i] = Unseen
  <2>1. CASE e.left[i] # Unseen /\ e.d = 0
    <3>1. i \in bits
      BY <1>4, <1>6, <1>9, <2>1
    <3> QED
      BY <1>9, <3>1
  <2>2. CASE e.d # 0 \/ e.left[i] = Unseen
    <3>1. m.right[i] = Unseen /\ ~ LeftSettled(m, e.d + 1, i) /\ ~ LeftSettled(e, e.d, i)
      BY <1>1, <1>3, <1>9, <2>2 DEF LeftSettled
    <3>2. ASSUME i \in K, NEW x \in Delays, x - m.start \in W[i] PROVE x <= - (e.d + 1)
      <4>1. x <= - e.d
        BY <1>2, <1>5, <3>1, <3>2
      <4>2. x # - e.d
        BY <1>2, <1>6, <1>9, <3>2
      <4> QED
        BY <1>1, <4>1, <4>2 DEF Delays
    <3> QED
      BY <3>1, <3>2
  <2> QED
    BY <2>1, <2>2
<1> QED
  BY <1>7, <1>8, <1>9

(* So both searches keep what is known of the edges.                          *)
LEMMA LeftStep ==
  ASSUME NEW e \in Edges, NEW K \in SUBSET DQ, NEW W, NEW m, NEW bits,
         bits = { i \in K : e.d - e.start \in W[i] }, LeftHolds(e, K, W),
         LeftMoves(e, bits, e.d + 1, m)
  PROVE  LeftHolds(m, K, W)
<1>1. LeftPlaces(e, K, W) /\ LeftOuter(e, K, W)
  BY DEF LeftHolds
<1>2. LeftPlaces(m, K, W)
  BY <1>1, LeftPlacesStep, Zenon
<1>3. LeftOuter(m, K, W)
  BY <1>1, LeftOuterStep, Zenon
<1> QED
  BY <1>2, <1>3 DEF LeftHolds

(* The end of the left one leaves it for the right one,                       *)
LEMMA LeftEnds ==
  ASSUME NEW e \in Edges, NEW K \in SUBSET DQ, NEW W, NEW m, NEW bits,
         bits = { i \in K : e.d - e.start \in W[i] }, LeftHolds(e, K, W),
         LeftStops(e, bits, m), e.d = DelayMax \/ (bits = {} /\ e.sticky = DQ)
  PROVE  RightHolds(m, K, W)
<1>1. LeftPlaces(e, K, W) /\ LeftOuter(e, K, W)
  BY DEF LeftHolds
<1>2. RightPlaces(m, K, W)
  BY <1>1, LeftPlacesEnd, Zenon
<1>3. RightOuter(m, m.d, K, W)
  BY <1>1, LeftOuterEnd, Zenon
<1> QED
  BY <1>2, <1>3 DEF RightHolds

(* which keeps it too                                                         *)
LEMMA RightStep ==
  ASSUME NEW e \in Edges, NEW K \in SUBSET DQ, NEW W, NEW m, NEW bits,
         bits = { i \in K : 0 - (e.start + e.d) \in W[i] }, RightHolds(e, K, W),
         RightMoves(e, bits, e.d + 1, m)
  PROVE  RightHolds(m, K, W)
<1>1. RightPlaces(e, K, W) /\ RightOuter(e, e.d, K, W)
  BY DEF RightHolds
<1>2. RightPlaces(m, K, W)
  BY <1>1, RightPlacesStep, Zenon
<1>3. RightOuter(m, e.d + 1, K, W)
  BY <1>1, RightOuterMoves, Zenon
<1>4. m.d = e.d + 1
  BY DEF RightMoves
<1> QED
  BY <1>2, <1>3, <1>4 DEF RightHolds

(* and at its end, when no edge is missing, both edges of every bit are held. *)
LEMMA RightPlacesEnd ==
  ASSUME NEW e \in Edges, NEW K \in SUBSET DQ, NEW W, NEW m, NEW bits,
         bits = { i \in K : 0 - (e.start + e.d) \in W[i] }, RightPlaces(e, K, W),
         \/ RightMoves(e, bits, e.d, m)
         \/ bits = {} /\ m \in {e, Marginal(e)},
         \A i \in DQ : m.left[i] # Unseen /\ m.right[i] # Unseen
  PROVE  Held(m, W)
<1>1. e.d \in 0 .. DelayMax /\ e.start \in 0 .. DelayMax /\ DelayMax \in Nat
      /\ Unseen = DelayMax + 1
  BY Constants DEF Edges, Tap, Unseen
<1>2. m.start = e.start
  <2>1. Marginal(e).start = e.start
    BY MarginalType
  <2> QED
    BY <2>1 DEF RightMoves
<1> SUFFICES ASSUME NEW i \in DQ
             PROVE  m.left[i] - m.start \in W[i] /\ 0 - (m.start + m.right[i]) \in W[i]
  BY DEF Held
<1>3. m.left[i] # Unseen /\ m.right[i] # Unseen
  OBVIOUS
<1>4. /\ e.left[i] # Unseen /\ e.right[i] # Unseen =>
           e.left[i] - e.start \in W[i] /\ 0 - (e.start + e.right[i]) \in W[i]
      /\ e.left[i] # Unseen /\ e.right[i] = Unseen =>
           IF e.d = 0 THEN i \in K /\ e.left[i] - e.start \in W[i] /\ 0 - e.start \in W[i]
           ELSE e.left[i] = - e.d
      /\ e.left[i] = Unseen => /\ e.d = 0 /\ e.right[i] = Unseen
                               /\ i \notin K \/ 0 - e.start \notin W[i]
  BY DEF RightPlaces
<1>5. /\ i \in bits <=> i \in K /\ 0 - (e.start + e.d) \in W[i]
      /\ e.d = 0 => 0 - (e.start + e.d) = 0 - e.start
      /\ (- e.d) - e.start = 0 - (e.start + e.d)
  BY <1>1
<1>6. CASE RightMoves(e, bits, e.d, m)
  <2>1. /\ m.right[i] = IF i \in bits THEN e.d
                        ELSE IF e.d = 0 /\ e.right[i] = Unseen /\ e.left[i] # Unseen THEN -1
                        ELSE e.right[i]
        /\ m.left[i] = IF i \notin bits /\ e.right[i] = Unseen /\ (e.d # 0 \/ e.left[i] = Unseen)
                       THEN - (e.d + 1) ELSE e.left[i]
    BY <1>6 DEF RightMoves
  <2>2. CASE i \in bits
    <3>1. m.left[i] = e.left[i] /\ m.right[i] = e.d /\ e.left[i] # Unseen
      BY <1>3, <2>1, <2>2
    <3>2. e.left[i] - e.start \in W[i]
      BY <1>4, <1>5, <2>2, <3>1
    <3> QED
      BY <1>2, <1>5, <2>2, <3>1, <3>2
  <2>3. CASE i \notin bits
    <3>1. e.left[i] # Unseen /\ e.right[i] # Unseen
      <4>1. CASE e.right[i] = Unseen /\ e.left[i] # Unseen
        BY <1>3, <1>4, <1>5, <2>1, <2>3, <4>1
      <4>2. CASE e.left[i] = Unseen
        BY <1>3, <1>4, <2>1, <2>3, <4>2
      <4> QED
        BY <4>1, <4>2
    <3>2. m.left[i] = e.left[i] /\ m.right[i] = e.right[i]
      BY <2>1, <2>3, <3>1
    <3> QED
      BY <1>2, <1>4, <3>1, <3>2
  <2> QED
    BY <2>2, <2>3
<1>7. CASE bits = {} /\ m = e
  BY <1>3, <1>4, <1>7
<1>8. CASE bits = {} /\ m = Marginal(e)
  <2>1. /\ m.left[i] = e.left[i]
        /\ m.right[i] = IF e.d = 0 /\ e.right[i] = Unseen /\ e.left[i] # Unseen THEN -1
                        ELSE e.right[i]
    BY <1>8 DEF Marginal, Edges
  <2>2. e.left[i] # Unseen
    BY <1>3, <2>1
  <2>3. e.right[i] # Unseen
    <3>1. CASE e.right[i] = Unseen /\ e.d = 0
      BY <1>4, <1>5, <1>8, <2>2, <3>1
    <3>2. CASE e.right[i] = Unseen /\ e.d # 0
      BY <1>3, <2>1, <3>2
    <3> QED
      BY <3>1, <3>2
  <2> QED
    BY <1>2, <1>4, <2>1, <2>2, <2>3
<1> QED
  BY <1>6, <1>7, <1>8

(* The edges are then the outermost ones, as the search ended after the last  *)
(* delay or because no bit passed any more.                                   *)
LEMMA RightOuterEnd ==
  ASSUME NEW e \in Edges, NEW K \in SUBSET DQ, NEW W, NEW m, NEW bits,
         bits = { i \in K : 0 - (e.start + e.d) \in W[i] }, RightPlaces(e, K, W),
         RightOuter(e, e.d, K, W), e.start + e.d <= DelayMax,
         \/ RightMoves(e, bits, e.d, m) /\ e.start + e.d = DelayMax
         \/ bits = {} /\ m \in {e, Marginal(e)},
         \A i \in DQ : m.left[i] # Unseen /\ m.right[i] # Unseen
  PROVE  Outermost(m, W)
<1>1. e.d \in 0 .. DelayMax /\ e.start \in 0 .. DelayMax /\ DelayMax \in Nat
      /\ Unseen = DelayMax + 1
  BY Constants DEF Edges, Tap, Unseen
<1>2. m.start = e.start
  <2>1. Marginal(e).start = e.start
    BY MarginalType
  <2> QED
    BY <2>1 DEF RightMoves
<1>3. Held(m, W)
  BY RightPlacesEnd, Zenon
<1> SUFFICES ASSUME NEW i \in DQ, Whole(W[i])
             PROVE  /\ m.left[i] \in e.start - DelayMax .. DelayMax
                    /\ - m.right[i] \in e.start - DelayMax .. DelayMax
                    /\ \A x \in e.start - DelayMax .. DelayMax :
                         x - e.start \in W[i] => - m.right[i] <= x /\ x <= m.left[i]
  BY <1>2 DEF Outermost
<1>4. m.left[i] - e.start \in W[i] /\ 0 - (e.start + m.right[i]) \in W[i]
      /\ m.left[i] # Unseen /\ m.right[i] # Unseen
  BY <1>2, <1>3 DEF Held
<1>5. /\ i \in K /\ m.left[i] \in Int /\ m.left[i] <= DelayMax /\ m.right[i] \in - DelayMax .. e.d
      /\ \A x \in Delays : x - e.start \in W[i] => x <= m.left[i]
      /\ \A x \in Delays : x - e.start \in W[i] /\ x >= - e.d => x >= - m.right[i]
      /\ \A x \in Delays : x - e.start \in W[i] /\ x >= e.start - DelayMax => x >= - e.d
  <2>1. CASE RightMoves(e, bits, e.d, m) /\ e.start + e.d = DelayMax
    <3>1. RightOuter(m, e.d + 1, K, W)
      BY <2>1, RightOuterMoves, Zenon
    <3>2. /\ i \in K /\ m.right[i] \in - DelayMax .. (e.d + 1) - 1
          /\ \A x \in Delays : x - e.start \in W[i] /\ x > - (e.d + 1) => x >= - m.right[i]
      BY <1>2, <1>4, <3>1 DEF RightOuter
    <3>3. LeftSettled(m, e.d + 1, i)
      BY <1>4 DEF LeftSettled
    <3>4. m.left[i] <= DelayMax /\ \A x \in Delays : x - e.start \in W[i] => x <= m.left[i]
      BY <1>2, <3>1, <3>2, <3>3 DEF RightOuter
    <3>5. m.left[i] \in Int
      <4>1. m.left[i] \in {e.left[i], - (e.d + 1)} /\ e.left[i] \in Int
        BY <2>1 DEF RightMoves, Edges
      <4> QED
        BY <1>1, <4>1
    <3>6. \A x \in Delays : (x > - (e.d + 1) <=> x >= - e.d)
      BY <1>1 DEF Delays
    <3>7. e.start - DelayMax = - e.d /\ (e.d + 1) - 1 = e.d
      BY <1>1, <2>1
    <3> QED
      BY <3>2, <3>4, <3>5, <3>6, <3>7
  <2>2. CASE bits = {} /\ m \in {e, Marginal(e)}
    <3>1. e.left[i] \in Int /\ e.right[i] \in Int /\ m.left[i] = e.left[i]
          /\ (m.right[i] = e.right[i] \/ (e.d = 0 /\ e.right[i] = Unseen /\ e.left[i] # Unseen))
      BY <2>2 DEF Marginal, Edges
    <3>2. e.right[i] # Unseen
      <4> SUFFICES ASSUME e.right[i] = Unseen PROVE FALSE
        OBVIOUS
      <4>1. e.d = 0 /\ e.left[i] # Unseen
        BY <1>4, <3>1
      <4>2. i \in K /\ 0 - e.start \in W[i]
        BY <4>1 DEF RightPlaces
      <4>3. 0 - (e.start + e.d) = 0 - e.start
        BY <1>1, <4>1
      <4> QED
        BY <2>2, <4>2, <4>3
    <3>3. m.right[i] = e.right[i]
      BY <3>1, <3>2
    <3>4. /\ i \in K /\ e.right[i] \in - DelayMax .. e.d - 1
          /\ \A x \in Delays : x - e.start \in W[i] /\ x > - e.d => x >= - e.right[i]
      BY <3>2 DEF RightOuter
    <3>5. LeftSettled(e, e.d, i)
      BY <1>4, <3>1, <3>2 DEF LeftSettled
    <3>6. e.left[i] <= DelayMax /\ \A x \in Delays : x - e.start \in W[i] => x <= e.left[i]
      BY <3>4, <3>5 DEF RightOuter
    <3>7. 0 - (e.start + e.d) \notin W[i]
      BY <2>2, <3>4
    <3>8. ASSUME NEW x \in Delays, x - e.start \in W[i] PROVE x > - e.d
      <4> SUFFICES ASSUME ~ (x > - e.d) PROVE FALSE
        OBVIOUS
      <4>1. (x - e.start) .. (0 - (e.start + e.right[i])) \subseteq W[i]
        BY <1>4, <3>3, <3>8 DEF Whole
      <4>2. 0 - (e.start + e.d) \in (x - e.start) .. (0 - (e.start + e.right[i]))
        BY <1>1, <3>4 DEF Delays
      <4> QED
        BY <3>7, <4>1, <4>2
    <3>9. \A x \in Delays : x - e.start \in W[i] => x >= - e.d
      BY <1>1, <3>8 DEF Delays
    <3>10. m.right[i] \in - DelayMax .. e.d
      BY <1>1, <3>3, <3>4
    <3> QED
      BY <3>1, <3>3, <3>4, <3>6, <3>8, <3>9, <3>10
  <2> QED
    BY <2>1, <2>2
<1>6. - m.right[i] \in e.start - DelayMax .. DelayMax /\ - m.right[i] \in Delays
  BY <1>1, <1>5 DEF Delays
<1>7. - m.right[i] <= m.left[i]
  <2>1. m.right[i] \in Int
    BY <1>1, <1>5
  <2>2. (- m.right[i]) - e.start = 0 - (e.start + m.right[i])
    BY <1>1, <2>1
  <2> QED
    BY <1>4, <1>5, <1>6, <2>2
<1>8. m.left[i] \in e.start - DelayMax .. DelayMax
  BY <1>1, <1>5, <1>6, <1>7
<1>9. ASSUME NEW x \in e.start - DelayMax .. DelayMax, x - e.start \in W[i]
      PROVE  - m.right[i] <= x /\ x <= m.left[i]
  <2>1. x \in Delays /\ x >= e.start - DelayMax
    BY <1>1 DEF Delays
  <2>2. x <= m.left[i] /\ x >= - e.d
    BY <1>5, <1>9, <2>1
  <2>3. x >= - m.right[i]
    BY <1>5, <1>9, <2>1, <2>2
  <2> QED
    BY <1>5, <2>1, <2>2, <2>3 DEF Delays
<1> QED
  BY <1>6, <1>8, <1>9

(* When no edge is missing at the end of the right search, the edges of every *)
(* bit are held, and outermost where its window has no holes.                 *)
LEMMA RightEnds ==
  ASSUME NEW e \in Edges, NEW K \in SUBSET DQ, NEW W, NEW m, NEW bits,
         bits = { i \in K : 0 - (e.start + e.d) \in W[i] }, RightHolds(e, K, W),
         e.start + e.d <= DelayMax,
         \/ RightMoves(e, bits, e.d, m) /\ e.start + e.d = DelayMax
         \/ bits = {} /\ m \in {e, Marginal(e)},
         \A i \in DQ : m.left[i] # Unseen /\ m.right[i] # Unseen
  PROVE  Held(m, W) /\ Outermost(m, W)
<1>1. RightPlaces(e, K, W) /\ RightOuter(e, e.d, K, W)
  BY DEF RightHolds
<1>2. Held(m, W)
  BY <1>1, RightPlacesEnd, Zenon
<1>3. Outermost(m, W)
  BY <1>1, RightOuterEnd, Zenon
<1> QED
  BY <1>2, <1>3

(* The margins that are added up are not above the distances of the settings  *)
(* from the ends of the windows.                                              *)
LEMMA MarginsEarned ==
  ASSUME NEW e \in Edges, NEW W, Held(e, W),
         \A i \in DQ : W[i] \subseteq Int /\ IsFiniteSet(W[i]),
         NEW at \in [DQ -> Tap], \A i \in DQ : at[i] = 0, NEW moved \in Int,
         NEW new, new = [i \in DQ |-> Shift(e, i, at[i], moved) - (e.start - moved)]
  PROVE  Earned(DqMargin(e, at, moved) + DqsMargin(e, at, moved), new, W)
<1> DEFINE f == [i \in DQ |-> e.left[i] - Shift(e, i, at[i], moved) - moved]
           g == [i \in DQ |-> e.right[i] + Shift(e, i, at[i], moved) + moved]
           a == [i \in DQ |-> LargestOf(W[i]) - new[i]]
           b == [i \in DQ |-> new[i] - SmallestOf(W[i])]
<1>1. \A i \in DQ : /\ Shift(e, i, at[i], moved) \in Int /\ new[i] \in Int
                    /\ e.left[i] \in Int /\ e.right[i] \in Int /\ e.start \in Int
                    /\ new[i] = Shift(e, i, at[i], moved) - (e.start - moved)
  BY ShiftInChain DEF Edges, Tap
<1>2. \A i \in DQ : /\ LargestOf(W[i]) \in Int /\ SmallestOf(W[i]) \in Int
                    /\ e.left[i] - e.start <= LargestOf(W[i])
                    /\ SmallestOf(W[i]) <= 0 - (e.start + e.right[i])
  BY Bounded DEF Held
<1>3. f \in [DQ -> Int] /\ g \in [DQ -> Int] /\ a \in [DQ -> Int] /\ b \in [DQ -> Int]
  BY <1>1, <1>2
<1>4. \A i \in DQ : f[i] <= a[i] /\ g[i] <= b[i]
  <2> SUFFICES ASSUME NEW i \in DQ PROVE f[i] <= a[i] /\ g[i] <= b[i]
    OBVIOUS
  <2> DEFINE x == Shift(e, i, at[i], moved)
  <2>1. /\ f[i] = e.left[i] - x - moved /\ a[i] = LargestOf(W[i]) - (x - (e.start - moved))
        /\ g[i] = e.right[i] + x + moved /\ b[i] = (x - (e.start - moved)) - SmallestOf(W[i])
    BY <1>1
  <2>2. x \in Int
    BY <1>1
  <2> HIDE DEF x, f, g, a, b
  <2> QED
    BY <1>1, <1>2, <2>1, <2>2
<1>5. /\ { e.left[i] - Shift(e, i, at[i], moved) - moved : i \in DQ } = { f[i] : i \in DQ }
      /\ { e.right[i] + Shift(e, i, at[i], moved) + moved : i \in DQ } = { g[i] : i \in DQ }
      /\ { LargestOf(W[i]) - new[i] : i \in DQ } = { a[i] : i \in DQ }
      /\ { new[i] - SmallestOf(W[i]) : i \in DQ } = { b[i] : i \in DQ }
  OBVIOUS
<1>6. /\ DqMargin(e, at, moved) = SmallestOf({Unseen} \cup { f[i] : i \in DQ })
      /\ DqsMargin(e, at, moved) = SmallestOf({Unseen} \cup { g[i] : i \in DQ })
      /\ SlackAbove(new, W) = SmallestOf({ a[i] : i \in DQ })
      /\ SlackBelow(new, W) = SmallestOf({ b[i] : i \in DQ })
  BY <1>5 DEF DqMargin, DqsMargin, SlackAbove, SlackBelow
<1> HIDE DEF f, g, a, b
<1>7. PICK i \in DQ : SlackAbove(new, W) = a[i]
  BY <1>3, <1>6, LeastOfBits, Constants
<1>8. PICK k \in DQ : SlackBelow(new, W) = b[k]
  BY <1>3, <1>6, LeastOfBits, Constants
<1>9. DqMargin(e, at, moved) <= f[i] /\ DqsMargin(e, at, moved) <= g[k]
  BY <1>3, <1>6, LeastOfBits, Constants
<1>10. DqMargin(e, at, moved) \in Int /\ DqsMargin(e, at, moved) \in Int
  BY MarginsType
<1> QED
  BY <1>3, <1>4, <1>7, <1>8, <1>9, <1>10 DEF Earned

(* A test shows the bits in their windows, whatever the delays                *)
LEMMA InputTests ==
  ASSUME NEW s, NEW t, OnlyInput(s, t)
  PROVE  LET K == Testable(s, rd.useRead)
         IN  /\ Testable(t, rd.useRead) = K /\ K \in SUBSET DQ
             /\ RdBits(t) = { i \in K : t.dqIn[i] - t.dqsIn \in board.read[i] }
BY DEF OnlyInput, SameMemory, SameGate, SameOutput, Testable, RdBits, ReadBits, WriteBits,
   Captured, Aligned, Stored, GateOpen, GateTime

(* of the input and of the output.                                            *)
LEMMA OutputTests ==
  ASSUME NEW s, NEW t, OnlyOutput(s, t)
  PROVE  /\ Captured(t) = Captured(s) /\ Captured(s) \in SUBSET DQ
         /\ WriteBits(t) = { i \in Captured(s) : t.dqOut[i] - t.dqsOut \in board.write[i] }
BY DEF OnlyOutput, SameMemory, SameGate, SameInput, WriteBits, Captured, Aligned,
   Stored, GateOpen, GateTime

(* The tests of the next state are the tests of its settings on its board.    *)
LEMMA TestsKept ==
  ASSUME UNCHANGED board
  PROVE  /\ Testable(phy, rd.useRead)' = Testable(phy', rd'.useRead)
         /\ Captured(phy)' = Captured(phy')
BY DEF Testable, Captured, Aligned, Stored, GateOpen, GateTime

(* What the edges must say after a step of the deskew of the read side,       *)
LEMMA NextInput ==
  ASSUME UNCHANGED board, NEW K, K = Testable(phy', rd'.useRead),
         step' = "rd_left" => phy'.dqsIn = rd'.start /\ LeftHolds(rd', K, board.read),
         step' = "rd_right" =>
           phy'.dqIn = [i \in DQ |-> 0] /\ RightHolds(rd', K, board.read)
  PROVE  InputEdges'
<1>1. Testable(phy, rd.useRead)' = K /\ board' = board
  BY TestsKept
<1> QED
  BY <1>1 DEF InputEdges, LeftHolds, LeftPlaces, LeftOuter, RightHolds, RightPlaces, RightOuter,
       LeftSettled, Delays, Whole

(* and of the write side.                                                     *)
LEMMA NextOutput ==
  ASSUME UNCHANGED board, NEW K, K = Captured(phy'),
         step' = "wr_left" =>
           phy'.dqsOut = wr'.edges.start /\ LeftHolds(wr'.edges, K, board.write),
         step' = "wr_right" =>
           phy'.dqOut = [i \in DQ |-> 0] /\ RightHolds(wr'.edges, K, board.write)
  PROVE  OutputEdges'
<1>1. Captured(phy)' = K /\ board' = board
  BY TestsKept
<1> QED
  BY <1>1 DEF OutputEdges, LeftHolds, LeftPlaces, LeftOuter, RightHolds, RightPlaces, RightOuter,
       LeftSettled, Delays, Whole

(* The left search of the read side keeps what its edges say,                 *)
LEMMA RdLeftFigures ==
  ASSUME TypeOK, StrobeInChain, InputEdges, RdSeekLeft
  PROVE  InputEdges' /\ gbl' = gbl /\ step' \in {"rd_left", "rd_right"}
<1> DEFINE s      == [phy EXCEPT !.dqIn = [i \in DQ |-> rd.d]]
           bits   == RdBits(s)
           sticky == rd.sticky \cup bits
           stop   == bits = {} /\ sticky = DQ
           seen   == [LeftSeen(rd, bits) EXCEPT !.sticky = sticky]
           e      == LeftDone(IF stop THEN rd ELSE seen)
           both   == { i \in DQ : e.left[i] # Unseen /\ e.right[i] # Unseen }
           t      == [s EXCEPT !.dqIn = [i \in DQ |-> 0]]
           K      == Testable(phy, rd.useRead)
<1>1. /\ rd \in Edges /\ phy \in Settings /\ UNCHANGED board /\ step = "rd_left"
      /\ rd.d \in Tap /\ rd.start \in Tap /\ rd.sticky \in SUBSET DQ /\ K \in SUBSET DQ
      /\ DelayMax \in Nat
  BY Constants DEF TypeOK, RdSeekLeft, Edges, Testable, Stored
<1>2. [i \in DQ |-> rd.d] \in [DQ -> Tap] /\ [i \in DQ |-> 0] \in [DQ -> Tap]
  BY <1>1, Constants
<1>3. OnlyInput(phy, phy)
  BY <1>1, Unmoved
<1>4. OnlyInput(phy, s) /\ OnlyInput(phy, t)
  BY <1>2, <1>3, InputSet, Zenon
<1>5. Testable(s, rd.useRead) = K /\ Testable(t, rd.useRead) = K
  BY <1>4, InputTests, Zenon
<1>6. RdGoes
  BY <1>1, RdSeekLeftGoes
<1>7. \/ /\ ~ stop /\ rd.d < DelayMax
         /\ RdGoto("rd_left", s, [seen EXCEPT !.d = @ + 1])
      \/ (stop \/ ~ rd.d < DelayMax) /\ RdGoto("rd_right", t, [e EXCEPT !.sticky = both])
  BY Zenon DEF RdSeekLeft
<1>8. gbl' = gbl /\ step' \in {"rd_left", "rd_right"} /\ rd'.useRead = rd.useRead
  <2>1. gbl' = gbl /\ step' \in {"rd_left", "rd_right"}
    BY <1>7 DEF RdGoto
  <2> QED
    BY <1>6, <2>1 DEF RdGoes
<1>9. s.dqsIn = phy.dqsIn /\ t.dqIn = [i \in DQ |-> 0] /\ \A i \in DQ : s.dqIn[i] = rd.d
  BY <1>1 DEF Settings
<1>10. phy.dqsIn = rd.start /\ LeftHolds(rd, K, board.read)
  BY <1>1 DEF InputEdges
<1>11. bits = { i \in K : rd.d - rd.start \in board.read[i] }
  <2>1. bits = { i \in K : s.dqIn[i] - s.dqsIn \in board.read[i] }
    BY <1>4, InputTests, Zenon
  <2>2. \A i \in K : s.dqIn[i] - s.dqsIn = rd.d - rd.start
    BY <1>1, <1>9, <1>10
  <2> QED
    BY <2>1, <2>2
<1>12. bits \in SUBSET DQ
  BY TestsType, Zenon
<1> HIDE DEF s, bits, t, K
<1>13. sticky \in SUBSET DQ /\ both \in SUBSET DQ
  BY <1>1, <1>12
<1>14. sticky = rd.sticky \cup bits
  OBVIOUS
<1>15. stop => bits = {} /\ rd.sticky = DQ
  BY <1>1
<1> HIDE DEF sticky, both
<1>16. CASE /\ ~ stop /\ rd.d < DelayMax
           /\ RdGoto("rd_left", s, [seen EXCEPT !.d = @ + 1])
  <2> DEFINE n == rd.d + 1
             m == [seen EXCEPT !.d = n]
  <2>1. n \in Tap
    BY <1>1, <1>16 DEF Tap
  <2>2. RdGoto("rd_left", s, m)
    <3>1. seen.d = rd.d
      BY <1>1, <1>12, <1>13, LeftSeenType DEF Edges
    <3>2. m = [seen EXCEPT !.d = @ + 1]
      BY <3>1
    <3> QED
      BY <1>16, <3>2
  <2>3. LeftMoves(rd, bits, rd.d + 1, m)
    BY <1>1, <1>12, <1>13, <1>14, <2>1, LeftSeenMoves, Zenon
  <2> HIDE DEF m
  <2>4. LeftHolds(m, K, board.read)
    BY <1>1, <1>10, <1>11, <2>3, LeftStep, Zenon
  <2>5. m.start = rd.start
    BY <2>3 DEF LeftMoves
  <2>6. step' = "rd_left" /\ phy' = s /\ rd' = m
    BY <2>2 DEF RdGoto
  <2>7. K = Testable(phy', rd'.useRead) /\ phy'.dqsIn = rd'.start
    BY <1>5, <1>8, <1>9, <1>10, <2>5, <2>6
  <2>8. InputEdges'
    BY <1>1, <2>4, <2>6, <2>7, NextInput
  <2> QED
    BY <1>8, <2>8
<1>17. CASE /\ stop \/ ~ rd.d < DelayMax
           /\ RdGoto("rd_right", t, [e EXCEPT !.sticky = both])
  <2> DEFINE m == [e EXCEPT !.sticky = both]
  <2>1. LeftStops(rd, bits, m)
    <3>1. LeftStops(rd, {}, [LeftDone(rd) EXCEPT !.sticky = both])
      BY <1>1, <1>12, <1>13, LeftDoneStops, Zenon
    <3>2. LeftStops(rd, bits, [LeftDone(seen) EXCEPT !.sticky = both])
      BY <1>1, <1>12, <1>13, LeftDoneStops, Zenon
    <3>3. CASE stop
      <4>1. bits = {} /\ e = LeftDone(rd)
        BY <3>3
      <4> QED
        BY <3>1, <4>1
    <3>4. CASE ~ stop
      <4>1. e = LeftDone(seen)
        BY <3>4
      <4> QED
        BY <3>2, <4>1
    <3> QED
      BY <3>3, <3>4
  <2> HIDE DEF m
  <2>2. RightHolds(m, K, board.read)
    <3>1. rd.d = DelayMax \/ (bits = {} /\ rd.sticky = DQ)
      BY <1>1, <1>17, <1>15 DEF Tap
    <3> QED
      BY <1>1, <1>10, <1>11, <2>1, <3>1, LeftEnds, Zenon
  <2>3. step' = "rd_right" /\ phy' = t /\ rd' = m
    BY <1>17 DEF RdGoto, m
  <2>4. K = Testable(phy', rd'.useRead) /\ phy'.dqIn = [i \in DQ |-> 0]
    BY <1>5, <1>8, <1>9, <2>3
  <2>5. InputEdges'
    BY <1>1, <2>2, <2>3, <2>4, NextInput
  <2> QED
    BY <1>8, <2>5
<1> QED
  BY <1>7, <1>16, <1>17

(* Recording an error leaves the figures alone, and so does a figure of one   *)
(* side that of the other.                                                    *)
LEMMA FiguresKept ==
  ASSUME NEW g \in Globals
  PROVE  /\ \A grp, st, sub : /\ SetFailing(g, grp, st, sub).fomIn = g.fomIn
                              /\ SetFailing(g, grp, st, sub).fomOut = g.fomOut
         /\ \A x : /\ [g EXCEPT !.fomIn = x].fomIn = x
                   /\ [g EXCEPT !.fomIn = x].fomOut = g.fomOut
                   /\ [g EXCEPT !.fomOut = x].fomOut = x
                   /\ [g EXCEPT !.fomOut = x].fomIn = g.fomIn
BY DEF SetFailing, Globals

(* The windows of the boards are finite.                                      *)
LEMMA WindowsFinite ==
  ASSUME board \in Boards
  PROVE  /\ \A i \in DQ : board.read[i] \subseteq Int /\ IsFiniteSet(board.read[i])
         /\ \A i \in DQ : board.write[i] \subseteq Int /\ IsFiniteSet(board.write[i])
BY WindowsAssumption

(* What the deskew of the read side leaves of the figures when it returns.    *)
InputFigures ==
  /\ step' \in RdStep /\ gbl'.fomOut = gbl.fomOut
  /\ step' # "rd_return" \/ rd.useRead => gbl'.fomIn = gbl.fomIn
  /\ step' = "rd_return" /\ ~ rd.useRead /\ result' =>
       Earned(gbl'.fomIn, [i \in DQ |-> phy'.dqIn[i] - phy'.dqsIn], board.read)

(* The figure of the read side is earned by the settings that are chosen.     *)
LEMMA RdCentreFigures ==
  ASSUME TypeOK, NEW s \in Settings, NEW e \in Edges, e.useRead = rd.useRead,
         RdCentre(s, e),
         ~ rd.useRead =>
           /\ gbl.fomIn = 0 /\ \A i \in DQ : s.dqIn[i] = 0
           /\ (\A i \in DQ : e.left[i] # Unseen /\ e.right[i] # Unseen) => Held(e, board.read)
  PROVE  step' = "rd_return" /\ InputFigures
<1> DEFINE missing == { i \in DQ : e.left[i] = Unseen \/ e.right[i] = Unseen }
           moved   == e.start - Clamp(e.start - MidMin(e), 0, DelayMax)
           dq      == DqMargin(e, s.dqIn, moved)
           dqs     == DqsMargin(e, s.dqIn, moved)
           stage   == IF e.useRead THEN "VFIFO" ELSE "VFIFO_AFTER_WRITES"
           f       == [i \in DQ |-> s.dqIn[i] + Shift(e, i, s.dqIn[i], moved)]
           fom     == gbl.fomIn + dq + dqs
           t       == [s EXCEPT !.dqIn = f, !.dqsIn = e.start - moved]
           g       == SetFailing(gbl, SmallestOf(missing), stage, "VFIFO_CENTER")
           h       == [gbl EXCEPT !.fomIn = fom]
           new     == [i \in DQ |-> Shift(e, i, s.dqIn[i], moved) - (e.start - moved)]
<1>1. e.start \in Tap /\ gbl \in Globals /\ s.dqIn \in [DQ -> Tap] /\ board \in Boards
  BY DEF Edges, Settings, TypeOK
<1>2. moved \in Int
  <2>1. e.start \in Int /\ 0 \in Int /\ DelayMax \in Int /\ 0 <= DelayMax
    BY <1>1, Constants DEF Tap
  <2>2. e.start - MidMin(e) \in Int
    BY <2>1, MidMinType
  <2>3. Clamp(e.start - MidMin(e), 0, DelayMax) \in 0 .. DelayMax
    BY <2>1, <2>2, ClampType
  <2> QED
    BY <2>1, <2>3
<1>3. \/ missing # {} /\ RdReturn(FALSE, [s EXCEPT !.dqsIn = e.start], g)
      \/ missing = {} /\ RdReturn(dq >= 0 /\ dqs >= 0, t, IF e.useRead THEN gbl ELSE h)
  <2>1. h = [gbl EXCEPT !.fomIn = @ + dq + dqs]
    BY <1>1
  <2> HIDE DEF h, dq, dqs
  <2> QED
    BY <2>1, Zenon DEF RdCentre, dq, dqs
<1>4. g.fomIn = gbl.fomIn /\ g.fomOut = gbl.fomOut /\ h.fomIn = fom /\ h.fomOut = gbl.fomOut
  <2> DEFINE bit == SmallestOf(missing)
  <2> HIDE DEF bit, stage, fom
  <2>1. g = SetFailing(gbl, bit, stage, "VFIFO_CENTER")
    BY DEF bit
  <2>2. /\ SetFailing(gbl, bit, stage, "VFIFO_CENTER").fomIn = gbl.fomIn
        /\ SetFailing(gbl, bit, stage, "VFIFO_CENTER").fomOut = gbl.fomOut
    BY <1>1, FiguresKept
  <2>3. h.fomIn = fom /\ h.fomOut = gbl.fomOut
    BY <1>1, FiguresKept
  <2> HIDE DEF g, h
  <2> QED
    BY <2>1, <2>2, <2>3
<1> HIDE DEF g, h
<1>5. CASE missing # {} /\ RdReturn(FALSE, [s EXCEPT !.dqsIn = e.start], g)
  <2>1. step' = "rd_return" /\ gbl' = g /\ result' = FALSE
    BY <1>5 DEF RdReturn
  <2> QED
    BY <1>4, <2>1 DEF InputFigures, RdStep
<1>6. CASE missing = {} /\ RdReturn(dq >= 0 /\ dqs >= 0, t, IF e.useRead THEN gbl ELSE h)
  <2>1. step' = "rd_return" /\ gbl' = (IF e.useRead THEN gbl ELSE h) /\ phy' = t
    BY <1>6 DEF RdReturn
  <2>2. CASE rd.useRead
    BY <2>1, <2>2 DEF InputFigures, RdStep
  <2>3. CASE ~ rd.useRead
    <3>1. gbl' = h /\ gbl.fomIn = 0 /\ \A i \in DQ : s.dqIn[i] = 0
      BY <2>1, <2>3
    <3>2. Held(e, board.read)
      <4>1. \A i \in DQ : e.left[i] # Unseen /\ e.right[i] # Unseen
        BY <1>6
      <4> QED
        BY <2>3, <4>1
    <3>3. Earned(dq + dqs, new, board.read)
      <4> HIDE DEF moved
      <4>1. \A i \in DQ : board.read[i] \subseteq Int /\ IsFiniteSet(board.read[i])
        BY <1>1, WindowsFinite
      <4> DEFINE at == s.dqIn
                 W == board.read
      <4>2. at \in [DQ -> Tap] /\ \A i \in DQ : at[i] = 0
        BY <1>1, <3>1
      <4>3. /\ Held(e, W) /\ \A i \in DQ : W[i] \subseteq Int /\ IsFiniteSet(W[i])
            /\ new = [i \in DQ |-> Shift(e, i, at[i], moved) - (e.start - moved)]
        BY <3>2, <4>1
      <4> HIDE DEF at, W, new
      <4>4. Earned(DqMargin(e, at, moved) + DqsMargin(e, at, moved), new, W)
        BY <1>2, <4>2, <4>3, MarginsEarned, Zenon
      <4> QED
        BY <4>4 DEF at, W
    <3>4. [i \in DQ |-> phy'.dqIn[i] - phy'.dqsIn] = new
      <4> DEFINE y == e.start - moved
      <4> HIDE DEF moved
      <4>1. \A i \in DQ : Shift(e, i, s.dqIn[i], moved) \in Int
        BY <1>1, <1>2, ShiftInChain
      <4>2. \A i \in DQ : f[i] = Shift(e, i, s.dqIn[i], moved)
        BY <3>1, <4>1
      <4>3. new = [i \in DQ |-> f[i] - y]
        BY <4>2
      <4> HIDE DEF f, y
      <4>4. phy'.dqIn = f /\ phy'.dqsIn = y
        BY <2>1 DEF Settings, y
      <4> QED
        BY <4>3, <4>4
    <3>5. gbl'.fomIn = dq + dqs
      <4>1. dq \in Int /\ dqs \in Int
        BY <1>1, <1>2, MarginsType
      <4> HIDE DEF dq, dqs
      <4> QED
        BY <1>4, <3>1, <4>1
    <3>6. gbl'.fomOut = gbl.fomOut
      BY <1>4, <3>1
    <3> HIDE DEF dq, dqs, new
    <3> QED
      BY <2>1, <2>3, <3>3, <3>4, <3>5, <3>6 DEF InputFigures, RdStep
  <2> QED
    BY <2>2, <2>3
<1> QED
  BY <1>3, <1>5, <1>6

(* The right search keeps what its edges say, and at its end they are those   *)
(* of the windows.                                                            *)
LEMMA RdRightEdges ==
  ASSUME TypeOK, StrobeInChain, InputEdges, RdSeekRight
  PROVE  \/ step' = "rd_right" /\ gbl' = gbl /\ InputEdges'
         \/ \E s \in Settings, e \in Edges :
              /\ RdCentre(s, e) /\ e.useRead = rd.useRead /\ e.start = rd.start
              /\ s.dqIn = [i \in DQ |-> 0]
              /\ (\A i \in DQ : e.left[i] # Unseen /\ e.right[i] # Unseen) =>
                   Held(e, board.read) /\ Outermost(e, board.read)
<1> DEFINE s      == [phy EXCEPT !.dqsIn = rd.start + rd.d]
           bits   == RdBits(s)
           sticky == rd.sticky \cup bits
           stop   == bits = {} /\ sticky = DQ
           shown  == RightSeen(rd, bits)
           seen   == [shown EXCEPT !.sticky = sticky]
           e      == IF stop THEN rd ELSE seen
           K      == Testable(phy, rd.useRead)
<1>1. /\ rd \in Edges /\ phy \in Settings /\ UNCHANGED board /\ step = "rd_right"
      /\ rd.d \in Tap /\ rd.start \in Tap /\ rd.sticky \in SUBSET DQ /\ K \in SUBSET DQ
      /\ DelayMax \in Nat /\ rd.start + rd.d \in Tap
  BY Constants DEF TypeOK, RdSeekRight, Edges, Testable, Stored, StrobeInChain, Tap
<1>2. OnlyInput(phy, phy)
  BY <1>1, Unmoved
<1>3. OnlyInput(phy, s)
  BY <1>1, <1>2, InputSet, Zenon
<1>4. Testable(s, rd.useRead) = K /\ s \in Settings
  <2>1. Testable(s, rd.useRead) = K
    BY <1>3, InputTests, Zenon
  <2> QED
    BY <1>3, <2>1 DEF OnlyInput
<1>5. \/ /\ ~ stop /\ rd.d < DelayMax - rd.start
         /\ RdGoto("rd_right", s, [seen EXCEPT !.d = @ + 1])
      \/ (stop \/ ~ rd.d < DelayMax - rd.start) /\ RdCentre(s, e)
  BY Zenon DEF RdSeekRight
<1>6. s.dqsIn = rd.start + rd.d /\ s.dqIn = phy.dqIn
  BY <1>1 DEF Settings
<1>7. bits \in SUBSET DQ
  BY TestsType, Zenon
<1>8. phy.dqIn = [i \in DQ |-> 0] /\ RightHolds(rd, K, board.read)
  BY <1>1 DEF InputEdges
<1>9. bits = { i \in K : 0 - (rd.start + rd.d) \in board.read[i] }
  <2>1. bits = { i \in K : s.dqIn[i] - s.dqsIn \in board.read[i] }
    BY <1>3, InputTests, Zenon
  <2>2. \A i \in K : s.dqIn[i] - s.dqsIn = 0 - (rd.start + rd.d)
    BY <1>1, <1>6, <1>8
  <2> QED
    BY <2>1, <2>2
<1> HIDE DEF s, bits, K
<1>10. sticky \in SUBSET DQ
  BY <1>1, <1>7
<1> HIDE DEF sticky
<1>11. shown \in Edges /\ shown.d = rd.d /\ shown.useRead = rd.useRead /\ shown.start = rd.start
  BY <1>1, <1>7, RightSeenType
<1>12. RightMoves(rd, bits, rd.d, seen)
  BY <1>1, <1>7, <1>10, RightSeenMoves, Zenon
<1>13. \A n \in Tap : RightMoves(rd, bits, n, [seen EXCEPT !.d = n])
  BY <1>1, <1>7, <1>10, RightSeenMoves, Zenon
<1> HIDE DEF shown
<1>14. seen \in Edges /\ seen.d = rd.d /\ seen.useRead = rd.useRead /\ seen.start = rd.start
  BY <1>10, <1>11 DEF Edges
<1> HIDE DEF seen
<1>15. CASE /\ ~ stop /\ rd.d < DelayMax - rd.start
            /\ RdGoto("rd_right", s, [seen EXCEPT !.d = @ + 1])
  <2> DEFINE n == rd.d + 1
             m == [seen EXCEPT !.d = n]
  <2>1. n \in Tap /\ m = [seen EXCEPT !.d = @ + 1] /\ m.useRead = rd.useRead
    BY <1>1, <1>14, <1>15 DEF Tap, Edges
  <2>2. RightMoves(rd, bits, rd.d + 1, m)
    BY <1>13, <2>1
  <2>3. step' = "rd_right" /\ phy' = s /\ rd' = m /\ gbl' = gbl
    BY <1>15, <2>1 DEF RdGoto
  <2> HIDE DEF m, n
  <2>4. RightHolds(m, K, board.read)
    BY <1>1, <1>8, <1>9, <2>2, RightStep, Zenon
  <2>5. K = Testable(phy', rd'.useRead) /\ phy'.dqIn = [i \in DQ |-> 0]
    BY <1>4, <1>6, <1>8, <2>1, <2>3
  <2>6. InputEdges'
    BY <1>1, <2>3, <2>4, <2>5, NextInput
  <2> QED
    BY <2>3, <2>6
<1>16. CASE (stop \/ ~ rd.d < DelayMax - rd.start) /\ RdCentre(s, e)
  <2>1. e \in Edges /\ e.useRead = rd.useRead /\ e.start = rd.start
    BY <1>1, <1>14
  <2>2. rd.start + rd.d <= DelayMax
    BY <1>1 DEF Tap
  <2>3. ASSUME \A i \in DQ : e.left[i] # Unseen /\ e.right[i] # Unseen
        PROVE  Held(e, board.read) /\ Outermost(e, board.read)
    <3>1. CASE stop
      <4>1. bits = {} /\ e = rd /\ e \in {rd, Marginal(rd)}
        BY <3>1
      <4> HIDE DEF e, stop
      <4> QED
        BY <1>1, <1>8, <1>9, <2>2, <2>3, <4>1, RightEnds, Zenon
    <3>2. CASE ~ stop
      <4>1. RightMoves(rd, bits, rd.d, e)
        BY <1>12, <3>2
      <4>2. rd.start + rd.d = DelayMax
        BY <1>1, <1>16, <2>2, <3>2 DEF Tap
      <4> HIDE DEF e, stop
      <4> QED
        BY <1>1, <1>8, <1>9, <2>2, <2>3, <4>1, <4>2, RightEnds, Zenon
    <3> QED
      BY <3>1, <3>2
  <2> HIDE DEF e
  <2> QED
    BY <1>4, <1>6, <1>8, <1>16, <2>1, <2>3
<1> QED
  BY <1>5, <1>15, <1>16

(* So it ends with an earned figure.                                          *)
LEMMA RdRightFigures ==
  ASSUME TypeOK, StrobeInChain, InputEdges, ~ rd.useRead => gbl.fomIn = 0, RdSeekRight
  PROVE  InputEdges' /\ InputFigures
<1>1. CASE step' = "rd_right" /\ gbl' = gbl /\ InputEdges'
  BY <1>1 DEF InputFigures, RdStep
<1>2. ASSUME NEW s \in Settings, NEW e \in Edges, RdCentre(s, e), e.useRead = rd.useRead,
             s.dqIn = [i \in DQ |-> 0],
             (\A i \in DQ : e.left[i] # Unseen /\ e.right[i] # Unseen) => Held(e, board.read)
      PROVE  InputEdges' /\ InputFigures
  <2>1. \A i \in DQ : s.dqIn[i] = 0
    BY <1>2
  <2>2. step' = "rd_return" /\ InputFigures
    BY <1>2, <2>1, RdCentreFigures
  <2> QED
    BY <2>2 DEF InputEdges
<1> QED
  BY <1>1, <1>2, RdRightEdges

(* The left search of the write side keeps what its edges say,                *)
LEMMA WrLeftFigures ==
  ASSUME TypeOK, OutputEdges, WrSeekLeft
  PROVE  OutputEdges' /\ gbl' = gbl /\ step' \in {"wr_left", "wr_right"}
<1> DEFINE was    == wr.edges
           s      == [phy EXCEPT !.dqOut = [i \in DQ |-> was.d]]
           bits   == WriteBits(s)
           sticky == was.sticky \cup bits
           stop   == bits = {} /\ sticky = DQ
           seen   == [LeftSeen(was, bits) EXCEPT !.sticky = sticky]
           e      == LeftDone(IF stop THEN was ELSE seen)
           some   == { i \in DQ : e.left[i] # Unseen }
           t      == [s EXCEPT !.dqOut = [i \in DQ |-> 0]]
           K      == Captured(phy)
<1>1. /\ wr \in Mask /\ phy \in Settings /\ UNCHANGED <<board, gbl, result, rd>>
      /\ UNCHANGED board /\ step = "wr_left"
      /\ was \in Edges /\ was.d \in Tap /\ was.start \in Tap /\ was.sticky \in SUBSET DQ
      /\ DelayMax \in Nat
  BY Constants DEF TypeOK, WrSeekLeft, Edges, Mask
<1>2. [i \in DQ |-> was.d] \in [DQ -> Tap] /\ [i \in DQ |-> 0] \in [DQ -> Tap]
  BY <1>1, Constants
<1>3. OnlyOutput(phy, phy)
  BY <1>1, Unmoved
<1>4. OnlyOutput(phy, s) /\ OnlyOutput(phy, t)
  BY <1>2, <1>3, OutputSet, Zenon
<1>5. Captured(s) = K /\ Captured(t) = K /\ K \in SUBSET DQ
  BY <1>4, OutputTests, Zenon
<1>6. \/ /\ ~ stop /\ was.d < DelayMax
         /\ WrGoto("wr_left", s, [wr EXCEPT !.edges = [seen EXCEPT !.d = @ + 1]])
      \/ /\ stop \/ ~ was.d < DelayMax
         /\ WrGoto("wr_right", t, [wr EXCEPT !.edges = [e EXCEPT !.sticky = some]])
  BY Zenon DEF WrSeekLeft
<1>7. s.dqsOut = phy.dqsOut /\ t.dqOut = [i \in DQ |-> 0] /\ \A i \in DQ : s.dqOut[i] = was.d
  BY <1>1 DEF Settings
<1>8. phy.dqsOut = was.start /\ LeftHolds(was, K, board.write)
  BY <1>1 DEF OutputEdges
<1>9. bits = { i \in K : was.d - was.start \in board.write[i] }
  <2>1. bits = { i \in K : s.dqOut[i] - s.dqsOut \in board.write[i] }
    BY <1>4, OutputTests, Zenon
  <2>2. \A i \in K : s.dqOut[i] - s.dqsOut = was.d - was.start
    BY <1>5, <1>7, <1>8
  <2> QED
    BY <2>1, <2>2
<1>10. bits \in SUBSET DQ
  BY TestsType, Zenon
<1> HIDE DEF s, bits, t, K
<1>11. sticky \in SUBSET DQ /\ some \in SUBSET DQ
  BY <1>1, <1>10
<1>12. sticky = was.sticky \cup bits
  OBVIOUS
<1>13. stop => bits = {} /\ was.sticky = DQ
  BY <1>1
<1> HIDE DEF sticky, some
<1>14. CASE /\ ~ stop /\ was.d < DelayMax
            /\ WrGoto("wr_left", s, [wr EXCEPT !.edges = [seen EXCEPT !.d = @ + 1]])
  <2> DEFINE n == was.d + 1
             m == [seen EXCEPT !.d = n]
  <2>1. n \in Tap
    BY <1>1, <1>14 DEF Tap
  <2>2. WrGoto("wr_left", s, [wr EXCEPT !.edges = m])
    <3>1. seen.d = was.d
      <4> HIDE DEF was
      <4> QED
        BY <1>1, <1>10, <1>11, LeftSeenType DEF Edges
    <3>2. m = [seen EXCEPT !.d = @ + 1]
      BY <3>1
    <3> QED
      BY <1>14, <3>2
  <2> HIDE DEF was
  <2>3. LeftMoves(was, bits, was.d + 1, m)
    BY <1>1, <1>10, <1>11, <1>12, <2>1, LeftSeenMoves, Zenon
  <2> HIDE DEF m
  <2>4. LeftHolds(m, K, board.write)
    BY <1>1, <1>5, <1>8, <1>9, <2>3, LeftStep, Zenon
  <2>5. m.start = was.start
    BY <2>3 DEF LeftMoves
  <2>6. step' = "wr_left" /\ phy' = s /\ wr'.edges = m
    BY <1>1, <2>2 DEF WrGoto, Mask
  <2>7. K = Captured(phy') /\ phy'.dqsOut = wr'.edges.start
    BY <1>5, <1>7, <1>8, <2>5, <2>6
  <2>8. OutputEdges'
    BY <1>1, <2>4, <2>6, <2>7, NextOutput
  <2> QED
    BY <1>1, <2>6, <2>8
<1>15. CASE /\ stop \/ ~ was.d < DelayMax
            /\ WrGoto("wr_right", t, [wr EXCEPT !.edges = [e EXCEPT !.sticky = some]])
  <2> DEFINE m == [e EXCEPT !.sticky = some]
  <2>1. WrGoto("wr_right", t, [wr EXCEPT !.edges = m])
    BY <1>15
  <2> HIDE DEF was
  <2>2. LeftStops(was, bits, m)
    <3>1. LeftStops(was, {}, [LeftDone(was) EXCEPT !.sticky = some])
      BY <1>1, <1>10, <1>11, LeftDoneStops, Zenon
    <3>2. LeftStops(was, bits, [LeftDone(seen) EXCEPT !.sticky = some])
      BY <1>1, <1>10, <1>11, LeftDoneStops, Zenon
    <3>3. CASE stop
      <4>1. bits = {} /\ e = LeftDone(was)
        BY <3>3
      <4> QED
        BY <3>1, <4>1
    <3>4. CASE ~ stop
      <4>1. e = LeftDone(seen)
        BY <3>4
      <4> QED
        BY <3>2, <4>1
    <3> QED
      BY <3>3, <3>4
  <2> HIDE DEF m
  <2>3. RightHolds(m, K, board.write)
    <3>1. was.d = DelayMax \/ (bits = {} /\ was.sticky = DQ)
      BY <1>1, <1>13, <1>15 DEF Tap
    <3> QED
      BY <1>1, <1>5, <1>8, <1>9, <2>2, <3>1, LeftEnds, Zenon
  <2>4. step' = "wr_right" /\ phy' = t /\ wr'.edges = m
    BY <1>1, <2>1 DEF WrGoto, Mask
  <2>5. K = Captured(phy') /\ phy'.dqOut = [i \in DQ |-> 0]
    BY <1>5, <1>7, <2>4
  <2>6. OutputEdges'
    BY <1>1, <2>3, <2>4, <2>5, NextOutput
  <2> QED
    BY <1>1, <2>4, <2>6
<1> QED
  BY <1>6, <1>14, <1>15

(* What the right search of the write side leaves of the figures.             *)
OutputFigures ==
  /\ step' \in {"wr_right", "wr_mask", "wr_return"} /\ gbl'.fomIn = gbl.fomIn
  /\ step' = "wr_right" => gbl'.fomOut = gbl.fomOut
  /\ step' = "wr_mask" =>
       Earned(gbl'.fomOut, [i \in DQ |-> phy'.dqOut[i] - wr'.edges.start], board.write)
  /\ step' = "wr_return" => ~ result'

(* The figure of the write side is earned by the bits that are centred, with  *)
(* the strobe where it will be after the mask.                                *)
LEMMA WrCentreFigures ==
  ASSUME TypeOK, NEW s \in Settings, NEW e \in Edges, gbl.fomOut = 0,
         \A i \in DQ : s.dqOut[i] = 0,
         (\A i \in DQ : e.left[i] # Unseen /\ e.right[i] # Unseen) => Held(e, board.write),
         WrCentre(s, e)
  PROVE  step' \in {"wr_mask", "wr_return"} /\ OutputFigures
<1> DEFINE missing == { i \in DQ : e.left[i] = Unseen \/ e.right[i] = Unseen }
           dq   == DqMargin(e, s.dqOut, 0)
           dqs  == DqsMargin(e, s.dqOut, 0)
           f    == [i \in DQ |-> s.dqOut[i] + Shift(e, i, s.dqOut[i], 0)]
           fom  == gbl.fomOut + dq + dqs
           least == SmallestOf({dq, dqs})
           w    == [WrIdle EXCEPT !.edges = [RdIdle EXCEPT !.d = DelayMax, !.start = e.start],
                                  !.bgn = Unseen, !.end = Unseen,
                                  !.bestBgn = Unseen, !.bestEnd = Unseen, !.margin = least]
           t    == [s EXCEPT !.dqOut = f, !.dqsOut = e.start]
           g    == SetFailing(gbl, SmallestOf(missing), "WRITES", "WRITES_CENTER")
           h    == [gbl EXCEPT !.fomOut = fom]
           new  == [i \in DQ |-> Shift(e, i, s.dqOut[i], 0) - (e.start - 0)]
<1>1. e.start \in Tap /\ gbl \in Globals /\ s.dqOut \in [DQ -> Tap] /\ board \in Boards
  BY DEF Edges, Settings, TypeOK
<1>2. \/ missing # {} /\ WrReturn(FALSE, s, g)
      \/ missing = {} /\ WrGoto("wr_mask", t, w) /\ gbl' = [gbl EXCEPT !.fomOut = @ + dq + dqs]
  BY Zenon DEF WrCentre
<1>3. h = [gbl EXCEPT !.fomOut = @ + dq + dqs]
  BY <1>1
<1>4. g.fomIn = gbl.fomIn /\ h.fomIn = gbl.fomIn /\ h.fomOut = fom
  <2> DEFINE bit == SmallestOf(missing)
  <2> HIDE DEF bit, fom
  <2>1. g = SetFailing(gbl, bit, "WRITES", "WRITES_CENTER")
    BY DEF bit
  <2>2. SetFailing(gbl, bit, "WRITES", "WRITES_CENTER").fomIn = gbl.fomIn
    BY <1>1, FiguresKept
  <2>3. h.fomIn = gbl.fomIn /\ h.fomOut = fom
    BY <1>1, FiguresKept
  <2> HIDE DEF g, h
  <2> QED
    BY <2>1, <2>2, <2>3
<1>5. w.edges.start = e.start
  BY DEF WrIdle, RdIdle
<1>6. t.dqOut = f /\ t.dqsOut = e.start
  BY DEF Settings
<1> HIDE DEF g, h, w, t
<1>7. CASE missing # {} /\ WrReturn(FALSE, s, g)
  <2>1. step' = "wr_return" /\ gbl' = g /\ result' = FALSE
    BY <1>7 DEF WrReturn
  <2> QED
    BY <1>4, <2>1 DEF OutputFigures
<1>8. CASE missing = {} /\ WrGoto("wr_mask", t, w) /\ gbl' = [gbl EXCEPT !.fomOut = @ + dq + dqs]
  <2>1. step' = "wr_mask" /\ phy' = t /\ wr' = w /\ gbl' = h
    BY <1>3, <1>8 DEF WrGoto
  <2>2. Held(e, board.write)
    <3>1. \A i \in DQ : e.left[i] # Unseen /\ e.right[i] # Unseen
      BY <1>8
    <3> QED
      BY <3>1
  <2>3. Earned(dq + dqs, new, board.write)
    <3>1. \A i \in DQ : board.write[i] \subseteq Int /\ IsFiniteSet(board.write[i])
      BY <1>1, WindowsFinite
    <3> DEFINE at == s.dqOut
               W == board.write
    <3>2. at \in [DQ -> Tap] /\ 0 \in Int /\ \A i \in DQ : at[i] = 0
      BY <1>1
    <3>3. /\ Held(e, W) /\ \A i \in DQ : W[i] \subseteq Int /\ IsFiniteSet(W[i])
          /\ new = [i \in DQ |-> Shift(e, i, at[i], 0) - (e.start - 0)]
      BY <2>2, <3>1
    <3> HIDE DEF at, W, new
    <3>4. Earned(DqMargin(e, at, 0) + DqsMargin(e, at, 0), new, W)
      BY <3>2, <3>3, MarginsEarned, Zenon
    <3> QED
      BY <3>4 DEF at, W
  <2>4. [i \in DQ |-> phy'.dqOut[i] - wr'.edges.start] = new
    <3>1. \A i \in DQ : Shift(e, i, s.dqOut[i], 0) \in Int
      BY <1>1, ShiftInChain
    <3>2. \A i \in DQ : f[i] = Shift(e, i, s.dqOut[i], 0)
      BY <3>1
    <3>3. e.start - 0 = e.start
      BY <1>1 DEF Tap
    <3>4. new = [i \in DQ |-> f[i] - e.start]
      BY <3>2, <3>3
    <3> HIDE DEF f, new
    <3> QED
      BY <1>5, <1>6, <2>1, <3>4
  <2>5. gbl'.fomOut = dq + dqs
    <3>1. dq \in Int /\ dqs \in Int
      BY <1>1, MarginsType
    <3> HIDE DEF dq, dqs
    <3> QED
      BY <1>4, <2>1, <3>1
  <2> HIDE DEF dq, dqs, new
  <2> QED
    BY <1>4, <2>1, <2>3, <2>4, <2>5 DEF OutputFigures
<1> QED
  BY <1>2, <1>7, <1>8

(* The right search of the write side.                                        *)
LEMMA WrRightEdges ==
  ASSUME TypeOK, StrobeInChain, OutputEdges, WrSeekRight
  PROVE  \/ step' = "wr_right" /\ gbl' = gbl /\ OutputEdges'
         \/ \E s \in Settings, e \in Edges :
              /\ WrCentre(s, e) /\ e.start = wr.edges.start /\ s.dqOut = [i \in DQ |-> 0]
              /\ (\A i \in DQ : e.left[i] # Unseen /\ e.right[i] # Unseen) =>
                   Held(e, board.write) /\ Outermost(e, board.write)
<1> DEFINE was    == wr.edges
           s      == [phy EXCEPT !.dqsOut = was.start + was.d]
           bits   == WriteBits(s)
           sticky == was.sticky \cup bits
           stop   == bits = {} /\ sticky = DQ
           shown  == RightSeen(was, bits)
           seen   == [shown EXCEPT !.sticky = sticky]
           e      == IF stop THEN Marginal(was) ELSE seen
           K      == Captured(phy)
<1>1. /\ wr \in Mask /\ phy \in Settings /\ UNCHANGED board /\ step = "wr_right"
      /\ was \in Edges /\ was.d \in Tap /\ was.start \in Tap /\ was.sticky \in SUBSET DQ
      /\ DelayMax \in Nat /\ was.start + was.d \in Tap
  BY Constants DEF TypeOK, WrSeekRight, Edges, Mask, StrobeInChain, Tap
<1>2. OnlyOutput(phy, phy)
  BY <1>1, Unmoved
<1>3. OnlyOutput(phy, s)
  BY <1>1, <1>2, OutputSet, Zenon
<1>4. Captured(s) = K /\ K \in SUBSET DQ /\ s \in Settings
  <2>1. Captured(s) = K /\ K \in SUBSET DQ
    BY <1>3, OutputTests, Zenon
  <2> QED
    BY <1>3, <2>1 DEF OnlyOutput
<1>5. \/ /\ ~ stop /\ was.d < DelayMax - was.start
         /\ WrGoto("wr_right", s, [wr EXCEPT !.edges = [seen EXCEPT !.d = @ + 1]])
         /\ UNCHANGED <<gbl, result>>
      \/ (stop \/ ~ was.d < DelayMax - was.start) /\ WrCentre(s, e)
  BY Zenon DEF WrSeekRight
<1>6. s.dqsOut = was.start + was.d /\ s.dqOut = phy.dqOut
  BY <1>1 DEF Settings
<1>7. bits \in SUBSET DQ
  BY TestsType, Zenon
<1>8. phy.dqOut = [i \in DQ |-> 0] /\ RightHolds(was, K, board.write)
  BY <1>1 DEF OutputEdges
<1>9. bits = { i \in K : 0 - (was.start + was.d) \in board.write[i] }
  <2>1. bits = { i \in K : s.dqOut[i] - s.dqsOut \in board.write[i] }
    BY <1>3, OutputTests, Zenon
  <2>2. \A i \in K : s.dqOut[i] - s.dqsOut = 0 - (was.start + was.d)
    BY <1>4, <1>6, <1>8
  <2> QED
    BY <2>1, <2>2
<1> HIDE DEF s, bits, K
<1>10. sticky \in SUBSET DQ
  BY <1>1, <1>7
<1> HIDE DEF sticky, was
<1>11. shown \in Edges /\ shown.d = was.d /\ shown.start = was.start
  BY <1>1, <1>7, RightSeenType
<1>12. RightMoves(was, bits, was.d, seen)
  BY <1>1, <1>7, <1>10, RightSeenMoves, Zenon
<1>13. \A n \in Tap : RightMoves(was, bits, n, [seen EXCEPT !.d = n])
  BY <1>1, <1>7, <1>10, RightSeenMoves, Zenon
<1> HIDE DEF shown
<1>14. seen \in Edges /\ seen.d = was.d /\ seen.start = was.start
  BY <1>10, <1>11 DEF Edges
<1> HIDE DEF seen
<1>15. CASE /\ ~ stop /\ was.d < DelayMax - was.start
            /\ WrGoto("wr_right", s, [wr EXCEPT !.edges = [seen EXCEPT !.d = @ + 1]])
            /\ UNCHANGED <<gbl, result>>
  <2> DEFINE n == was.d + 1
             m == [seen EXCEPT !.d = n]
  <2>1. n \in Tap /\ m = [seen EXCEPT !.d = @ + 1]
    BY <1>1, <1>14, <1>15 DEF Tap
  <2>2. RightMoves(was, bits, was.d + 1, m)
    BY <1>13, <2>1
  <2>3. WrGoto("wr_right", s, [wr EXCEPT !.edges = m]) /\ gbl' = gbl
    BY <1>15, <2>1
  <2> HIDE DEF m, n
  <2>4. step' = "wr_right" /\ phy' = s /\ wr'.edges = m
    BY <1>1, <2>3 DEF WrGoto, Mask
  <2>5. RightHolds(m, K, board.write)
    BY <1>1, <1>4, <1>8, <1>9, <2>2, RightStep, Zenon
  <2>6. K = Captured(phy') /\ phy'.dqOut = [i \in DQ |-> 0]
    BY <1>4, <1>6, <1>8, <2>4
  <2>7. OutputEdges'
    BY <1>1, <2>4, <2>5, <2>6, NextOutput
  <2> QED
    BY <2>3, <2>4, <2>7
<1>16. CASE (stop \/ ~ was.d < DelayMax - was.start) /\ WrCentre(s, e)
  <2>1. e \in Edges /\ e.start = was.start
    BY <1>1, <1>14, MarginalType
  <2>2. was.start + was.d <= DelayMax
    BY <1>1 DEF Tap
  <2>3. ASSUME \A i \in DQ : e.left[i] # Unseen /\ e.right[i] # Unseen
        PROVE  Held(e, board.write) /\ Outermost(e, board.write)
    <3>1. CASE stop
      <4>1. bits = {} /\ e \in {was, Marginal(was)}
        BY <3>1
      <4> HIDE DEF e, stop
      <4> QED
        BY <1>1, <1>4, <1>8, <1>9, <2>2, <2>3, <4>1, RightEnds, Zenon
    <3>2. CASE ~ stop
      <4>1. RightMoves(was, bits, was.d, e)
        BY <1>12, <3>2
      <4>2. was.start + was.d = DelayMax
        BY <1>1, <1>16, <2>2, <3>2 DEF Tap
      <4> HIDE DEF e, stop
      <4> QED
        BY <1>1, <1>4, <1>8, <1>9, <2>2, <2>3, <4>1, <4>2, RightEnds, Zenon
    <3> QED
      BY <3>1, <3>2
  <2> HIDE DEF e
  <2> USE DEF was
  <2> QED
    BY <1>4, <1>6, <1>8, <1>16, <2>1, <2>3
<1> QED
  BY <1>5, <1>15, <1>16

(* It too ends with an earned figure.                                         *)
LEMMA WrRightFigures ==
  ASSUME TypeOK, StrobeInChain, OutputEdges, gbl.fomOut = 0, WrSeekRight
  PROVE  OutputEdges' /\ OutputFigures
<1>1. CASE step' = "wr_right" /\ gbl' = gbl /\ OutputEdges'
  BY <1>1 DEF OutputFigures
<1>2. ASSUME NEW s \in Settings, NEW e \in Edges, WrCentre(s, e),
             s.dqOut = [i \in DQ |-> 0],
             (\A i \in DQ : e.left[i] # Unseen /\ e.right[i] # Unseen) => Held(e, board.write)
      PROVE  OutputEdges' /\ OutputFigures
  <2>1. \A i \in DQ : s.dqOut[i] = 0
    BY <1>2
  <2>2. step' \in {"wr_mask", "wr_return"} /\ OutputFigures
    BY <1>2, <2>1, WrCentreFigures
  <2> QED
    BY <2>2 DEF OutputEdges
<1> QED
  BY <1>1, <1>2, WrRightEdges

(* The mask is searched with the bits where they are and the figures as they  *)
(* are, and leaves the strobe where it was.                                   *)
MaskFigures ==
  /\ gbl' = gbl /\ phy'.dqOut = phy.dqOut
  /\ \/ step' \in {"wr_mask", "wr_mask_dqs"} /\ wr'.edges.start = wr.edges.start
     \/ step' = "wr_return" /\ phy'.dqsOut = wr.edges.start

(* A place of the mask leaves the edges alone,                                *)
LEMMA MaskWindowEdges ==
  ASSUME NEW w \in Mask, NEW at
  PROVE  /\ Extend(w, at).edges = w.edges /\ Broken(w).edges = w.edges
         /\ Broken(Extend(w, at)).edges = w.edges /\ Broken(Broken(w)).edges = w.edges
BY DEF Extend, Broken, Mask

(* and so every step of its search keeps the figures.                         *)
LEMMA MaskStepFigures ==
  ASSUME TypeOK, WrSeekMask \/ WrSeekMaskDqs
  PROVE  MaskFigures
<1>1. wr \in Mask /\ phy \in Settings /\ wr.edges \in Edges
  BY DEF TypeOK, Mask
<1>2. CASE WrSeekMask
  <2> DEFINE d == wr.edges.d
             s == [phy EXCEPT !.dmOut = d]
             w == IF MaskPasses(s) THEN Extend(wr, - d) ELSE Broken(wr)
             t == [s EXCEPT !.dmOut = 0]
             l == IF w.end # 0 THEN Broken(w) ELSE w
             m == [w EXCEPT !.edges.d = d - 1]
  <2>1. \/ WrGoto("wr_mask", s, m)
        \/ WrGoto("wr_mask_dqs", t, l)
    BY <1>2, Zenon DEF WrSeekMask
  <2>2. s.dqOut = phy.dqOut /\ t.dqOut = phy.dqOut
    BY <1>1 DEF Settings
  <2> HIDE DEF s, t
  <2>3. w.edges = wr.edges /\ l.edges = wr.edges
    BY <1>1, MaskWindowEdges
  <2>4. m.edges.start = wr.edges.start
    <3>1. CASE MaskPasses(s)
      <4>1. w = Extend(wr, - d)
        BY <3>1
      <4> QED
        BY <1>1, <2>3, <4>1 DEF Extend, Mask, Edges
    <3>2. CASE ~ MaskPasses(s)
      <4>1. w = Broken(wr)
        BY <3>2
      <4> QED
        BY <1>1, <2>3, <4>1 DEF Broken, Mask, Edges
    <3> QED
      BY <3>1, <3>2
  <2>5. gbl' = gbl
    BY <1>2 DEF WrSeekMask
  <2> HIDE DEF w, l, m
  <2> QED
    BY <2>1, <2>2, <2>3, <2>4, <2>5 DEF WrGoto, MaskFigures
<1>3. CASE WrSeekMaskDqs
  <2> DEFINE d    == wr.edges.d
             s    == [phy EXCEPT !.dqsOut = wr.edges.start + d]
             good == MaskPasses(s)
             w    == IF good THEN Extend(wr, d) ELSE Broken(wr)
             m    == [w EXCEPT !.edges.d = d + 1]
  <2>1. \/ WrGoto("wr_mask_dqs", s, m) /\ gbl' = gbl
        \/ WrMaskCentre(s, w)
    BY <1>3, Zenon DEF WrSeekMaskDqs
  <2>2. \A x, y : /\ [s EXCEPT !.dqsOut = x, !.dmOut = y].dqsOut = x
                 /\ [s EXCEPT !.dqsOut = x, !.dmOut = y].dqOut = phy.dqOut
                 /\ s.dqOut = phy.dqOut
    BY <1>1 DEF Settings
  <2> HIDE DEF s
  <2>3. w.edges = wr.edges
    BY <1>1, MaskWindowEdges
  <2>4. m.edges.start = wr.edges.start
    <3>1. CASE good
      <4>1. w = Extend(wr, d)
        BY <3>1
      <4> QED
        BY <1>1, <2>3, <4>1 DEF Extend, Mask, Edges
    <3>2. CASE ~ good
      <4>1. w = Broken(wr)
        BY <3>2
      <4> QED
        BY <1>1, <2>3, <4>1 DEF Broken, Mask, Edges
    <3> QED
      BY <3>1, <3>2
  <2> HIDE DEF w, m
  <2>5. CASE WrGoto("wr_mask_dqs", s, m) /\ gbl' = gbl
    BY <2>2, <2>4, <2>5 DEF WrGoto, MaskFigures
  <2>6. CASE WrMaskCentre(s, w)
    <3> DEFINE mid    == Half(- w.bestBgn - w.bestEnd)
               centre == IF mid < 0 THEN 0 ELSE mid
               margin == IF w.best = 0 THEN -1 ELSE - w.bestBgn - centre
               t      == [s EXCEPT !.dqsOut = w.edges.start, !.dmOut = centre]
    <3>1. WrReturn(w.margin >= 0 /\ margin >= 0, t, gbl)
      BY <2>6, Zenon DEF WrMaskCentre
    <3> HIDE DEF centre, margin
    <3>2. t.dqOut = phy.dqOut /\ t.dqsOut = wr.edges.start
      BY <2>2, <2>3
    <3> HIDE DEF t
    <3> QED
      BY <3>1, <3>2 DEF WrReturn, MaskFigures
  <2> QED
    BY <2>1, <2>5, <2>6
<1> QED
  BY <1>2, <1>3

(* What the figures must be after a step.                                     *)
LEMMA NextFigures ==
  ASSUME UNCHANGED board,
         step' \in {"vfifo", "vfifo_try"} \cup EnStep \cup RdStep /\ reg'.stage = "VFIFO" =>
           gbl'.fomIn = 0 /\ gbl'.fomOut = 0,
         step' \in WrStep \cup {"rd_left", "rd_right"} => gbl'.fomIn = 0,
         step' \in {"wr_left", "wr_right"} => gbl'.fomOut = 0,
         step' \in {"wr_mask", "wr_mask_dqs"} =>
           Earned(gbl'.fomOut, [i \in DQ |-> phy'.dqOut[i] - wr'.edges.start], board.write),
         (\/ step' = "wr_return" /\ result'
          \/ step' \in RdStep /\ reg'.stage = "VFIFO_AFTER_WRITES"
          \/ step' = "lfifo"
          \/ step' \in After /\ result') =>
           Earned(gbl'.fomOut, [i \in DQ |-> phy'.dqOut[i] - phy'.dqsOut], board.write),
         (\/ step' = "rd_return" /\ reg'.stage = "VFIFO_AFTER_WRITES" /\ result'
          \/ step' = "lfifo"
          \/ step' \in After /\ result') =>
           Earned(gbl'.fomIn, [i \in DQ |-> phy'.dqIn[i] - phy'.dqsIn], board.read)
  PROVE  Figures'
<1>1. board' = board
  OBVIOUS
<1> QED
  BY <1>1 DEF Figures, AtStart, WriteAt, ReadAt, Earned, SlackAbove, SlackBelow

(* A search begins without edges,                                             *)
LEMMA BeginHolds ==
  ASSUME NEW e, NEW K, NEW W, e.d = 0, e.sticky = {},
         \A i \in DQ : e.left[i] = Unseen /\ e.right[i] = Unseen
  PROVE  LeftHolds(e, K, W)
BY DEF LeftHolds, LeftPlaces, LeftOuter

(* that of the read side with either kind of test.                            *)
LEMMA RdEnterEdges ==
  ASSUME UNCHANGED board, NEW s, NEW useRead, RdEnter(s, useRead)
  PROVE  InputEdges'
<1>1. /\ step' = "rd_left" /\ phy' = s /\ rd'.start = s.dqsIn /\ rd'.d = 0 /\ rd'.sticky = {}
      /\ \A i \in DQ : rd'.left[i] = Unseen /\ rd'.right[i] = Unseen
  BY DEF RdEnter, RdIdle
<1> DEFINE K == Testable(phy', rd'.useRead)
           e == rd'
           W == board.read
<1>2. e.d = 0 /\ e.sticky = {} /\ \A i \in DQ : e.left[i] = Unseen /\ e.right[i] = Unseen
  BY <1>1
<1> HIDE DEF K, e, W
<1>3. LeftHolds(e, K, W)
  BY <1>2, BeginHolds, Zenon
<1> QED
  BY <1>1, <1>3, NextInput DEF e, K, W

(* The figures are 0 until the output side is deskewed.                       *)
LEMMA NoFigures ==
  ASSUME UNCHANGED board, reg'.stage = "VFIFO", gbl'.fomIn = 0, gbl'.fomOut = 0,
         step' \in {"vfifo", "vfifo_try", "rd_left"} \cup EnStep,
         step' = "rd_left" => InputEdges'
  PROVE  FInv'
<1>1. step' \notin WrStep /\ step' \notin After /\ step' # "lfifo" /\ step' # "rd_right"
      /\ step' # "rd_return"
  BY DEF EnStep, WrStep, After
<1>2. InputEdges' /\ OutputEdges'
  BY <1>1 DEF InputEdges, OutputEdges, WrStep
<1>3. Figures'
  BY <1>1, NextFigures DEF WrStep
<1> QED
  BY <1>2, <1>3 DEF FInv

(* After a failure the figures mean nothing.                                  *)
LEMMA FailedFigures ==
  ASSUME UNCHANGED board, Finish(FALSE) PROVE FInv'
<1>1. step' = "handoff" /\ ~ result'
  BY DEF Finish
<1>2. step' \notin WrStep /\ step' \notin RdStep /\ step' \notin EnStep
  BY <1>1 DEF EnStep, WrStep, RdStep
<1>3. InputEdges' /\ OutputEdges'
  BY <1>1 DEF InputEdges, OutputEdges
<1>4. Figures'
  BY <1>1, <1>2, NextFigures
<1> QED
  BY <1>3, <1>4 DEF FInv

(* The parts of the invariants that the figures of a step depend on.          *)
LEMMA FiguresNow ==
  ASSUME IInv, FInv
  PROVE  /\ TypeOK /\ StrobeInChain /\ Control /\ InputEdges /\ OutputEdges /\ Figures
         /\ gbl \in Globals /\ phy \in Settings /\ board \in Boards
         /\ rd \in Edges /\ wr \in Mask /\ result \in BOOLEAN
         /\ step \in {"vfifo", "vfifo_try"} \cup EnStep => reg.stage = "VFIFO"
         /\ step \in {"vfifo", "vfifo_try"} \cup EnStep \cup RdStep /\ reg.stage = "VFIFO" =>
              gbl.fomIn = 0 /\ gbl.fomOut = 0
BY DEF IInv, FInv, TypeOK, Control, Figures

(* A step before the searches, or a step of the search of the gate, keeps the *)
(* figures,                                                                   *)
LEMMA EarlyFigures ==
  ASSUME InitializeRegisters \/ TakePhy \/ MemCalibrate
  PROVE  FInv'
<1>1. CASE MemCalibrate
  <2>1. /\ UNCHANGED board /\ step' = "vfifo" /\ gbl'.fomIn = 0 /\ gbl'.fomOut = 0
    BY <1>1 DEF MemCalibrate
  <2>2. CASE reg'.stage = "VFIFO"
    BY <2>1, <2>2, NoFigures
  <2>3. CASE reg'.stage # "VFIFO"
    <3>1. step' \notin RdStep \cup WrStep \cup After /\ step' # "lfifo"
      BY <2>1 DEF RdStep, WrStep, After
    <3>2. InputEdges' /\ OutputEdges'
      BY <2>1 DEF InputEdges, OutputEdges
    <3>3. Figures'
      BY <2>1, <2>3, <3>1, NextFigures DEF RdStep, WrStep
    <3> QED
      BY <3>2, <3>3 DEF FInv
  <2> QED
    BY <2>2, <2>3
<1>2. CASE InitializeRegisters \/ TakePhy
  <2>1. UNCHANGED board /\ step' \in Before /\ step' \notin {"vfifo", "vfifo_try", "lfifo"}
    BY <1>2 DEF InitializeRegisters, TakePhy, Before
  <2>2. step' \notin EnStep \cup RdStep \cup WrStep \cup After
    BY <2>1 DEF Before, EnStep, RdStep, WrStep, After
  <2>3. InputEdges' /\ OutputEdges'
    BY <2>2 DEF InputEdges, OutputEdges, RdStep, WrStep
  <2>4. Figures'
    BY <2>1, <2>2, NextFigures DEF RdStep, WrStep
  <2> QED
    BY <2>3, <2>4 DEF FInv
<1> QED
  BY <1>1, <1>2

(* so does the next delay of calibrate_vfifo,                                 *)
LEMMA OutDelayFigures ==
  ASSUME UNCHANGED board, UNCHANGED reg, reg.stage = "VFIFO", gbl.fomIn = 0, gbl.fomOut = 0,
         NEW s, NEW failed, NextOutDelay(s, gbl, failed)
  PROVE  FInv'
<1>1. CASE vf.d + 2 <= DtapsPerPtap
  <2>1. step' = "vfifo" /\ gbl' = gbl /\ reg' = reg
    BY <1>1 DEF NextOutDelay
  <2> QED
    BY <2>1, NoFigures
<1>2. CASE ~ (vf.d + 2 <= DtapsPerPtap)
  <2>1. Finish(FALSE)
    BY <1>2 DEF NextOutDelay
  <2> QED
    BY <2>1, FailedFigures
<1> QED
  BY <1>1, <1>2

(* of the strobe as of the output,                                            *)
LEMMA StrobeDelayFigures ==
  ASSUME UNCHANGED board, UNCHANGED reg, reg.stage = "VFIFO", gbl.fomIn = 0, gbl.fomOut = 0,
         NEW s, NEW failed, NextStrobeDelay(s, failed)
  PROVE  FInv'
<1>1. CASE vf.dqsIn < DelayMax
  <2>1. step' = "vfifo_try" /\ gbl' = gbl /\ reg' = reg
    BY <1>1 DEF NextStrobeDelay
  <2> QED
    BY <2>1, NoFigures
<1>2. CASE ~ (vf.dqsIn < DelayMax)
  <2>1. NextOutDelay(s, gbl, failed)
    BY <1>2 DEF NextStrobeDelay
  <2> QED
    BY <2>1, OutDelayFigures
<1> QED
  BY <1>1, <1>2

(* and the search of the gate with what goes before and after it.             *)
LEMMA GateFigures ==
  ASSUME IInv, FInv,
         \/ GuaranteedRead \/ SweepDqIn \/ GateSearched
         \/ FindDqsEnPhase /\ UNCHANGED <<rd, wr, vf, reg, saved>>
  PROVE  FInv'
<1>1. CASE GuaranteedRead
  <2> DEFINE s == LoadPatterns(phy, phy.dqsOut \in board.pattern)
  <2>1. /\ \/ NextOutDelay([s EXCEPT !.enPhase = PhaseMax], gbl, vf.failed)
           \/ step' = "vfifo_try" /\ gbl' = gbl
        /\ UNCHANGED board /\ UNCHANGED reg /\ step = "vfifo"
    BY <1>1, Zenon DEF GuaranteedRead
  <2>2. reg.stage = "VFIFO" /\ gbl.fomIn = 0 /\ gbl.fomOut = 0
    BY <2>1, FiguresNow
  <2> HIDE DEF s
  <2>3. CASE NextOutDelay([s EXCEPT !.enPhase = PhaseMax], gbl, vf.failed)
    BY <2>1, <2>2, <2>3, OutDelayFigures
  <2>4. CASE step' = "vfifo_try" /\ gbl' = gbl
    BY <2>1, <2>2, <2>4, NoFigures
  <2> QED
    BY <2>1, <2>3, <2>4
<1>2. CASE SweepDqIn
  <2>1. step' = "en_fail" /\ gbl' = gbl /\ reg' = reg /\ step = "vfifo_try" /\ UNCHANGED board
    BY <1>2 DEF SweepDqIn, EnEnter
  <2>2. reg.stage = "VFIFO" /\ gbl.fomIn = 0 /\ gbl.fomOut = 0
    BY <2>1, FiguresNow
  <2> QED
    BY <2>1, <2>2, NoFigures DEF EnStep
<1>3. CASE GateSearched
  <2> DEFINE s == [phy EXCEPT !.dqIn = [i \in DQ |-> 0]]
  <2>1. /\ \/ RdEnter([s EXCEPT !.dqsIn = vf.orig], TRUE) /\ gbl' = gbl
           \/ NextStrobeDelay(s, "DQS_EN_PHASE")
        /\ UNCHANGED board /\ UNCHANGED reg /\ step = "en_return"
    BY <1>3, Zenon DEF GateSearched
  <2>2. reg.stage = "VFIFO" /\ gbl.fomIn = 0 /\ gbl.fomOut = 0
    BY <2>1, FiguresNow DEF EnStep
  <2>3. CASE RdEnter([s EXCEPT !.dqsIn = vf.orig], TRUE) /\ gbl' = gbl
    <3>1. step' = "rd_left" /\ InputEdges'
      <4>1. step' = "rd_left"
        BY <2>3 DEF RdEnter
      <4> HIDE DEF s
      <4> QED
        BY <2>1, <2>3, <4>1, RdEnterEdges
    <3> QED
      BY <2>1, <2>2, <2>3, <3>1, NoFigures
  <2> HIDE DEF s
  <2>4. CASE NextStrobeDelay(s, "DQS_EN_PHASE")
    BY <2>1, <2>2, <2>4, StrobeDelayFigures
  <2> QED
    BY <2>1, <2>3, <2>4
<1>4. CASE FindDqsEnPhase /\ UNCHANGED <<rd, wr, vf, reg, saved>>
  <2>1. EnGoes /\ step \in EnStep
    BY <1>4, SearchGoes DEF IInv
  <2>2. reg.stage = "VFIFO" /\ gbl.fomIn = 0 /\ gbl.fomOut = 0
    BY <2>1, FiguresNow
  <2>3. UNCHANGED board /\ gbl' = gbl /\ reg' = reg /\ step' \in EnStep
    BY <1>4, <2>1 DEF EnGoes
  <2>4. step' # "rd_left"
    BY <2>3 DEF EnStep
  <2> QED
    BY <2>2, <2>3, <2>4, NoFigures
<1> QED
  BY <1>1, <1>2, <1>3, <1>4

(* The deskew of the read side keeps them,                                    *)
LEMMA DeskewFigures ==
  ASSUME IInv, FInv, VfifoCenter, UNCHANGED <<en, wr, dtaps, vf, reg, saved>>
  PROVE  FInv'
<1>1. /\ TypeOK /\ StrobeInChain /\ Control /\ InputEdges /\ Figures /\ UNCHANGED reg
      /\ step \in {"rd_left", "rd_right"} /\ step \in RdStep
      /\ OnlyInput(phy, phy') /\ UNCHANGED board
  <2>1. RdGoes /\ step \in {"rd_left", "rd_right"}
    BY DeskewGoes DEF IInv
  <2> QED
    BY <2>1, FiguresNow DEF RdGoes, RdStep
<1>2. gbl.fomIn = 0 /\ (rd.useRead <=> reg.stage = "VFIFO")
      /\ reg.stage \in {"VFIFO", "VFIFO_AFTER_WRITES"}
  BY <1>1 DEF Figures, Control
<1>3. InputEdges' /\ InputFigures
  <2>1. CASE RdSeekLeft
    <3>1. InputEdges' /\ gbl' = gbl /\ step' \in {"rd_left", "rd_right"}
      BY <1>1, <2>1, RdLeftFigures
    <3> QED
      BY <3>1 DEF InputFigures, RdStep
  <2>2. CASE RdSeekRight
    BY <1>1, <1>2, <2>2, RdRightFigures
  <2> QED
    BY <2>1, <2>2 DEF VfifoCenter
<1>4. step' \in RdStep /\ step' \notin EnStep \cup WrStep \cup After
      /\ step' \notin {"vfifo", "vfifo_try", "lfifo"}
  BY <1>3, Classes DEF InputFigures
<1>5. OutputEdges'
  BY <1>4 DEF OutputEdges, WrStep
<1>6. phy'.dqOut = phy.dqOut /\ phy'.dqsOut = phy.dqsOut
  BY <1>1 DEF OnlyInput, SameOutput
<1>7. reg.stage = "VFIFO_AFTER_WRITES" =>
        Earned(gbl'.fomOut, [i \in DQ |-> phy'.dqOut[i] - phy'.dqsOut], board.write)
  BY <1>1, <1>3, <1>6 DEF Figures, InputFigures, WriteAt
<1>8. reg.stage = "VFIFO" => gbl'.fomIn = 0 /\ gbl'.fomOut = 0
  BY <1>1, <1>2, <1>3 DEF Figures, InputFigures
<1>9. step' \in {"rd_left", "rd_right"} => gbl'.fomIn = 0
  BY <1>2, <1>3 DEF InputFigures
<1>10. step' = "rd_return" /\ reg.stage = "VFIFO_AFTER_WRITES" /\ result' =>
         Earned(gbl'.fomIn, [i \in DQ |-> phy'.dqIn[i] - phy'.dqsIn], board.read)
  BY <1>2, <1>3 DEF InputFigures
<1>11. Figures'
  BY <1>1, <1>4, <1>7, <1>8, <1>9, <1>10, NextFigures DEF WrStep
<1> QED
  BY <1>3, <1>5, <1>11 DEF FInv

(* that of the write side does,                                               *)
LEMMA WriteFigures ==
  ASSUME IInv, FInv, WritesCenter, UNCHANGED <<en, dtaps, vf, reg, saved>>
  PROVE  FInv'
<1>1. /\ TypeOK /\ StrobeInChain /\ OutputEdges /\ Figures /\ UNCHANGED board
      /\ step \in WrStep /\ step' \in WrStep
  <2>1. WrGoes /\ step \in WrStep \ {"wr_return"}
    BY WritesGoes DEF IInv
  <2> QED
    BY <2>1, FiguresNow DEF WrGoes
<1>2. step' \notin EnStep \cup RdStep \cup After /\ step' \notin {"vfifo", "vfifo_try", "lfifo"}
      /\ step' \notin {"rd_left", "rd_right", "rd_return"}
  BY <1>1, Classes DEF RdStep
<1>3. InputEdges'
  BY <1>2 DEF InputEdges
<1>4. gbl.fomIn = 0
  BY <1>1 DEF Figures
<1>5. CASE WrSeekLeft
  <2>1. OutputEdges' /\ gbl' = gbl /\ step' \in {"wr_left", "wr_right"}
    BY <1>1, <1>5, WrLeftFigures
  <2>2. gbl.fomOut = 0
    BY <1>1, <1>5 DEF Figures, WrSeekLeft
  <2>3. Figures'
    BY <1>1, <1>2, <1>4, <2>1, <2>2, NextFigures
  <2> QED
    BY <1>3, <2>1, <2>3 DEF FInv
<1>6. CASE WrSeekRight
  <2>1. gbl.fomOut = 0
    BY <1>1, <1>6 DEF Figures, WrSeekRight
  <2>2. OutputEdges' /\ OutputFigures
    BY <1>1, <1>6, <2>1, WrRightFigures
  <2>3. Figures'
    BY <1>1, <1>2, <1>4, <2>1, <2>2, NextFigures DEF OutputFigures
  <2> QED
    BY <1>3, <2>2, <2>3 DEF FInv
<1>7. CASE WrSeekMask \/ WrSeekMaskDqs
  <2>1. MaskFigures
    BY <1>1, <1>7, MaskStepFigures
  <2>2. OutputEdges'
    BY <2>1 DEF MaskFigures, OutputEdges
  <2>3. step \in {"wr_mask", "wr_mask_dqs"}
    BY <1>7 DEF WrSeekMask, WrSeekMaskDqs
  <2>4. Earned(gbl'.fomOut, [i \in DQ |-> phy'.dqOut[i] - wr.edges.start], board.write)
    BY <1>1, <2>1, <2>3 DEF Figures, AtStart, MaskFigures
  <2>5. Figures'
    BY <1>1, <1>2, <1>4, <2>1, <2>4, NextFigures DEF MaskFigures
  <2> QED
    BY <1>3, <2>2, <2>5 DEF FInv
<1> QED
  BY <1>5, <1>6, <1>7 DEF WritesCenter

(* and so do the steps between them:                                          *)
LEMMA ReadSideFigures ==
  ASSUME IInv, FInv, ReadSideDone
  PROVE  FInv'
<1> DEFINE s == IF vf.d > 0 THEN ZeroOut(phy) ELSE phy
<1>1. /\ step = "rd_return" /\ step \in RdStep /\ reg.stage = "VFIFO" /\ UNCHANGED board
      /\ gbl.fomIn = 0 /\ gbl.fomOut = 0
  BY FiguresNow DEF ReadSideDone, RdStep
<1>2. \/ /\ WrEnter(s) /\ gbl' = gbl
      \/ NextStrobeDelay(phy, "VFIFO_CENTER") /\ UNCHANGED reg
  BY Zenon DEF ReadSideDone
<1>3. CASE WrEnter(s) /\ gbl' = gbl
  <2>1. /\ step' = "wr_left" /\ phy' = s /\ wr'.edges.start = s.dqsOut /\ wr'.edges.d = 0
        /\ wr'.edges.sticky = {}
        /\ \A i \in DQ : wr'.edges.left[i] = Unseen /\ wr'.edges.right[i] = Unseen
    BY <1>3 DEF WrEnter, WrIdle, RdIdle
  <2> DEFINE K == Captured(phy')
             e == wr'.edges
             W == board.write
  <2>2. e.d = 0 /\ e.sticky = {} /\ \A i \in DQ : e.left[i] = Unseen /\ e.right[i] = Unseen
    BY <2>1
  <2> HIDE DEF s, K, e, W
  <2>3. LeftHolds(e, K, W)
    BY <2>2, BeginHolds, Zenon
  <2>4. phy'.dqsOut = wr'.edges.start
    BY <2>1
  <2>5. OutputEdges'
    BY <1>1, <2>1, <2>3, <2>4, NextOutput DEF e, K, W
  <2>6. step' \in WrStep
    BY <2>1 DEF WrStep
  <2>7. InputEdges'
    BY <2>1 DEF InputEdges
  <2>8. Figures'
    BY <1>1, <1>3, <2>1, <2>6, NextFigures, Classes DEF RdStep
  <2> QED
    BY <2>5, <2>7, <2>8 DEF FInv
<1> HIDE DEF s
<1>4. CASE NextStrobeDelay(phy, "VFIFO_CENTER") /\ UNCHANGED reg
  BY <1>1, <1>4, StrobeDelayFigures
<1> QED
  BY <1>2, <1>3, <1>4

(* back to the read side, with the figure of the write side,                  *)
LEMMA WriteSideFigures ==
  ASSUME IInv, FInv, WriteSideDone
  PROVE  FInv'
<1>1. step = "wr_return" /\ step \in WrStep /\ UNCHANGED board /\ Figures
  BY FiguresNow DEF WriteSideDone, WrStep
<1>2. \/ /\ result /\ RdEnter(phy, FALSE) /\ gbl' = gbl
         /\ reg' = [reg EXCEPT !.stage = "VFIFO_AFTER_WRITES"]
      \/ Finish(FALSE)
  BY Zenon DEF WriteSideDone
<1>3. CASE /\ result /\ RdEnter(phy, FALSE) /\ gbl' = gbl
           /\ reg' = [reg EXCEPT !.stage = "VFIFO_AFTER_WRITES"]
  <2>1. step' = "rd_left" /\ phy' = phy
    BY <1>3 DEF RdEnter
  <2>2. InputEdges'
    BY <1>1, <1>3, RdEnterEdges
  <2>3. step' \in RdStep
    BY <2>1 DEF RdStep
  <2>4. OutputEdges'
    BY <2>1 DEF OutputEdges
  <2>5. reg'.stage = "VFIFO_AFTER_WRITES"
    BY <1>3, FiguresNow DEF TypeOK, Registers
  <2>6. gbl'.fomIn = 0 /\ Earned(gbl'.fomOut, [i \in DQ |-> phy'.dqOut[i] - phy'.dqsOut],
                                 board.write)
    BY <1>1, <1>3, <2>1 DEF Figures, WriteAt
  <2>7. Figures'
    BY <1>1, <2>1, <2>3, <2>5, <2>6, NextFigures, Classes DEF WrStep
  <2> QED
    BY <2>2, <2>4, <2>7 DEF FInv
<1>4. CASE Finish(FALSE)
  BY <1>1, <1>4, FailedFigures
<1> QED
  BY <1>2, <1>3, <1>4

(* on to the latency with both figures, while the delays stay,                *)
LEMMA LatencyFigures ==
  ASSUME IInv, FInv, ReadSideDoneAgain \/ LowerLatency
  PROVE  FInv'
<1>1. phy \in Settings /\ gbl \in Globals /\ Figures
  BY FiguresNow
<1>2. ASSUME UNCHANGED board, step' \in {"lfifo", "handoff"},
             gbl'.fomIn = gbl.fomIn, gbl'.fomOut = gbl.fomOut,
             phy'.dqIn = phy.dqIn, phy'.dqsIn = phy.dqsIn,
             phy'.dqOut = phy.dqOut, phy'.dqsOut = phy.dqsOut,
             \/ step = "lfifo"
             \/ step = "rd_return" /\ step \in RdStep /\ reg.stage = "VFIFO_AFTER_WRITES" /\ result
      PROVE  FInv'
  <2>1. /\ Earned(gbl'.fomOut, [i \in DQ |-> phy'.dqOut[i] - phy'.dqsOut], board.write)
        /\ Earned(gbl'.fomIn, [i \in DQ |-> phy'.dqIn[i] - phy'.dqsIn], board.read)
    BY <1>1, <1>2 DEF Figures, WriteAt, ReadAt
  <2>2. step' \notin EnStep \cup RdStep \cup WrStep /\ step' \notin {"vfifo", "vfifo_try"}
    BY <1>2 DEF EnStep, RdStep, WrStep
  <2>3. InputEdges' /\ OutputEdges'
    BY <1>2 DEF InputEdges, OutputEdges
  <2>4. Figures'
    BY <1>2, <2>1, <2>2, NextFigures DEF RdStep, WrStep
  <2> QED
    BY <2>3, <2>4 DEF FInv
<1>3. CASE ReadSideDoneAgain
  <2>1. \/ /\ result /\ phy' = LoadPatterns(phy, Stored(phy) = DQ) /\ step' = "lfifo"
           /\ gbl' = gbl
        \/ Finish(FALSE)
    BY <1>3, Zenon DEF ReadSideDoneAgain
  <2>2. UNCHANGED board /\ step = "rd_return" /\ step \in RdStep
        /\ reg.stage = "VFIFO_AFTER_WRITES"
    BY <1>3 DEF ReadSideDoneAgain, RdStep
  <2>3. CASE /\ result /\ phy' = LoadPatterns(phy, Stored(phy) = DQ) /\ step' = "lfifo"
             /\ gbl' = gbl
    <3>1. /\ phy'.dqIn = phy.dqIn /\ phy'.dqsIn = phy.dqsIn
          /\ phy'.dqOut = phy.dqOut /\ phy'.dqsOut = phy.dqsOut
      BY <1>1, <2>3 DEF LoadPatterns, Settings
    <3> QED
      BY <1>2, <2>2, <2>3, <3>1
  <2>4. CASE Finish(FALSE)
    BY <2>2, <2>4, FailedFigures
  <2> QED
    BY <2>1, <2>3, <2>4
<1>4. CASE LowerLatency
  <2> DEFINE at == gbl.readLat
             s  == [phy EXCEPT !.readLat = at]
             last == IF ReadBits(s) = DQ THEN at - 1 ELSE at
  <2>1. /\ \/ gbl' = [gbl EXCEPT !.readLat = at - 1] /\ phy' = s /\ UNCHANGED <<step, result>>
           \/ /\ gbl' = [gbl EXCEPT !.readLat = last + 2]
              /\ phy' = [s EXCEPT !.readLat = RlatRegister(last + 2)] /\ Finish(TRUE)
           \/ Finish(FALSE)
        /\ UNCHANGED board /\ step = "lfifo"
    BY <1>4, Zenon DEF LowerLatency, LowerBy
  <2> DEFINE n == last + 2
             m == at - 1
             r == RlatRegister(n)
  <2>2. CASE gbl' = [gbl EXCEPT !.readLat = m] /\ phy' = s /\ UNCHANGED <<step, result>>
    <3> HIDE DEF m, at
    <3>1. /\ phy'.dqIn = phy.dqIn /\ phy'.dqsIn = phy.dqsIn
          /\ phy'.dqOut = phy.dqOut /\ phy'.dqsOut = phy.dqsOut
      BY <1>1, <2>2 DEF Settings
    <3>2. gbl'.fomIn = gbl.fomIn /\ gbl'.fomOut = gbl.fomOut
      BY <1>1, <2>2 DEF Globals
    <3>3. step' = "lfifo"
      BY <2>1, <2>2
    <3> QED
      BY <1>2, <2>1, <3>1, <3>2, <3>3
  <2>3. CASE /\ gbl' = [gbl EXCEPT !.readLat = n]
             /\ phy' = [s EXCEPT !.readLat = r] /\ Finish(TRUE)
    <3> HIDE DEF n, r, at
    <3>1. /\ phy'.dqIn = phy.dqIn /\ phy'.dqsIn = phy.dqsIn
          /\ phy'.dqOut = phy.dqOut /\ phy'.dqsOut = phy.dqsOut
      BY <1>1, <2>3 DEF Settings
    <3>2. gbl'.fomIn = gbl.fomIn /\ gbl'.fomOut = gbl.fomOut
      BY <1>1, <2>3 DEF Globals
    <3>3. step' = "handoff"
      BY <2>3 DEF Finish
    <3> QED
      BY <1>2, <2>1, <3>1, <3>2, <3>3
  <2>4. CASE Finish(FALSE)
    BY <2>1, <2>4, FailedFigures
  <2> QED
    BY <2>1, <2>2, <2>3, <2>4
<1> QED
  BY <1>3, <1>4

(* and to the end, which moves no delay.                                      *)
LEMMA LastFigures ==
  ASSUME IInv, FInv, ReleaseMemory \/ HandOff \/ RestoreTracking \/ Report
  PROVE  FInv'
<1>1. /\ phy \in Settings /\ Figures /\ UNCHANGED <<board, gbl, result>>
      /\ step \in After /\ step' \in After /\ UNCHANGED board
      /\ \/ UNCHANGED phy
         \/ phy' = HandedOver(RowsOpened(phy))
  BY FiguresNow DEF ReleaseMemory, HandOff, RestoreTracking, Report, After
<1>2. /\ phy'.dqIn = phy.dqIn /\ phy'.dqsIn = phy.dqsIn
      /\ phy'.dqOut = phy.dqOut /\ phy'.dqsOut = phy.dqsOut
  BY <1>1 DEF HandedOver, RowsOpened, Settings
<1>3. result' =>
        /\ Earned(gbl'.fomOut, [i \in DQ |-> phy'.dqOut[i] - phy'.dqsOut], board.write)
        /\ Earned(gbl'.fomIn, [i \in DQ |-> phy'.dqIn[i] - phy'.dqsIn], board.read)
  BY <1>1, <1>2 DEF Figures, WriteAt, ReadAt
<1>4. step' \notin EnStep \cup RdStep \cup WrStep /\ step' \notin {"vfifo", "vfifo_try", "lfifo"}
  BY <1>1, Classes
<1>5. InputEdges' /\ OutputEdges'
  BY <1>4 DEF InputEdges, OutputEdges, RdStep, WrStep
<1>6. Figures'
  BY <1>1, <1>3, <1>4, NextFigures DEF RdStep, WrStep
<1> QED
  BY <1>5, <1>6 DEF FInv

(* A stuttering step keeps them.                                              *)
LEMMA NothingFigures ==
  ASSUME FInv, UNCHANGED vars PROVE FInv'
<1>1. UNCHANGED <<board, phy, gbl, step, result, rd, wr, reg>>
  BY DEF vars
<1>2. Testable(phy, rd.useRead)' = Testable(phy, rd.useRead) /\ Captured(phy)' = Captured(phy)
  BY <1>1 DEF Testable, Captured, Aligned, Stored, GateOpen, GateTime
<1>3. InputEdges' /\ OutputEdges'
  BY <1>1, <1>2 DEF FInv, InputEdges, OutputEdges, LeftHolds, LeftPlaces, LeftOuter, RightHolds,
       RightPlaces, RightOuter, LeftSettled, Delays, Whole
<1>4. Figures'
  BY <1>1 DEF FInv, Figures, AtStart, WriteAt, ReadAt, Earned, SlackAbove, SlackBelow
<1> QED
  BY <1>3, <1>4 DEF FInv

(* They hold at the beginning                                                 *)
LEMMA InitFInv == Init => FInv
<1> SUFFICES ASSUME Init PROVE FInv
  OBVIOUS
<1>1. step = "boot"
  BY DEF Init
<1> QED
  BY <1>1 DEF FInv, InputEdges, OutputEdges, Figures, EnStep, RdStep, WrStep, After

(* and after every step.                                                      *)
LEMMA NextFInv == IInv /\ FInv /\ [Next]_vars => FInv'
<1> SUFFICES ASSUME IInv, FInv, [Next]_vars PROVE FInv'
  OBVIOUS
<1>1. CASE InitializeRegisters \/ TakePhy \/ MemCalibrate
  BY <1>1, EarlyFigures
<1>2. CASE \/ GuaranteedRead \/ SweepDqIn \/ GateSearched
           \/ FindDqsEnPhase /\ UNCHANGED <<rd, wr, vf, reg, saved>>
  BY <1>2, GateFigures
<1>3. CASE VfifoCenter /\ UNCHANGED <<en, wr, dtaps, vf, reg, saved>>
  BY <1>3, DeskewFigures
<1>4. CASE WritesCenter /\ UNCHANGED <<en, dtaps, vf, reg, saved>>
  BY <1>4, WriteFigures
<1>5. CASE ReadSideDone \/ WriteSideDone
  BY <1>5, ReadSideFigures, WriteSideFigures
<1>6. CASE ReadSideDoneAgain \/ LowerLatency
  BY <1>6, LatencyFigures
<1>7. CASE ReleaseMemory \/ HandOff \/ RestoreTracking \/ Report
  BY <1>7, LastFigures
<1>8. CASE Done \/ UNCHANGED vars
  BY <1>8, NothingFigures DEF Done
<1> QED
  BY <1>1, <1>2, <1>3, <1>4, <1>5, <1>6, <1>7, <1>8 DEF Next

(* Whatever the board: the figures of merit published with SUCCESS are not    *)
(* above the distances of the settings in force from both ends of the windows *)
(* of the bits (rw_mgr_mem_calibrate_vfifo_center,                            *)
(* rw_mgr_mem_calibrate_writes_center).                                       *)
THEOREM FiguresAreEarned == Spec => []FiguresEarned
<1>1. IInv /\ FInv => FiguresEarned
  <2> SUFFICES ASSUME IInv, FInv, reg.status = "SUCCESS"
               PROVE  /\ gbl.fomIn  <= SlackAbove(ReadAt, board.read) + SlackBelow(ReadAt, board.read)
                      /\ gbl.fomOut <= SlackAbove(WriteAt, board.write) + SlackBelow(WriteAt, board.write)
    BY DEF FiguresEarned
  <2>1. step \in After /\ result
    BY DEF IInv, Control, After
  <2> QED
    BY <2>1 DEF FInv, Figures, Earned
<1>2. Init /\ [][Next]_vars => [](IInv /\ FInv)
  <2>1. Init => IInv /\ FInv
    BY InitIInv, InitFInv
  <2>2. (IInv /\ FInv) /\ [Next]_vars => (IInv /\ FInv)'
    BY NextIInv, NextFInv
  <2> QED
    BY <2>1, <2>2, PTL
<1> QED
  BY <1>1, <1>2, PTL DEF Spec

-----------------------------------------------------------------------------
(* Where a deskew leaves a bit over the middle between its edges: within a    *)
(* tap of it, unless its chain ends there; nor does it end below if the       *)
(* strobe was not moved farther than the worst bit needs.                     *)
LEMMA ShiftCentres ==
  ASSUME NEW e \in Edges, NEW i \in DQ, NEW moved \in Int
  PROVE  LET new == Shift(e, i, 0, moved)
             off == Skew(e, i) - 2 * (new + moved)
         IN  /\ new \in Int
             /\ new > 0 \/ MidMin(e) >= moved => off >= -1
             /\ new < DelayMax => off <= 1
<1> DEFINE m == Skew(e, Worst(e))
           k == Skew(e, i)
           h == Half(k - m)
           c == MidMin(e)
           n == h + (c - moved)
           new == Shift(e, i, 0, moved)
<1>1. m \in Int /\ k \in Int /\ m <= k
  BY WorstIsLeast DEF Edges, Skew
<1>2. h \in Int /\ 2 * h <= k - m /\ k - m <= 2 * h + 1 /\ h >= 0
  BY <1>1 DEF Half
<1>3. c \in Int /\ m <= 2 * c /\ 2 * c <= m + 1
  BY <1>1 DEF MidMin, Half
<1>4. new = Clamp(n, - 0, DelayMax - 0)
  BY DEF Shift
<1> HIDE DEF m, k, h, c, new
<1>5. n \in Int /\ DelayMax \in Nat
  BY <1>2, <1>3, Constants
<1>6. new = IF n > DelayMax THEN DelayMax ELSE IF n < 0 THEN 0 ELSE n
  BY <1>4, <1>5 DEF Clamp
<1> HIDE DEF n
<1>7. /\ new \in Int
      /\ new > 0 \/ c >= moved => new <= n
      /\ new < DelayMax => new >= n
  <2>1. c >= moved => n >= 0
    BY <1>2, <1>3 DEF n
  <2> QED
    BY <1>5, <1>6, <2>1
<1>8. n = h + (c - moved)
  BY DEF n
<1>9. /\ k - 2 * (n + moved) >= -1
      /\ k - 2 * (n + moved) <= 1
  BY <1>1, <1>2, <1>3, <1>8
<1> QED
  BY <1>1, <1>5, <1>7, <1>9 DEF new, k, c

(* The edges found are the ends of what a deskew can see of a window.         *)
LEMMA WindowEnds ==
  ASSUME NEW e \in Edges, NEW i \in DQ, NEW W, Whole(W[i]), W[i] \subseteq Int,
         Held(e, W), Outermost(e, W)
  PROVE  /\ LargestOf(InReach(W, e.start)[i]) = e.left[i] - e.start
         /\ SmallestOf(InReach(W, e.start)[i]) = 0 - (e.start + e.right[i])
<1> DEFINE a == e.left[i] - e.start
           b == 0 - (e.start + e.right[i])
           S == { x \in W[i] : x >= - DelayMax /\ x + e.start <= DelayMax }
<1>1. /\ e.left[i] \in Int /\ e.right[i] \in Int /\ e.start \in Int /\ DelayMax \in Nat
      /\ InReach(W, e.start)[i] = S /\ S \subseteq Int
  BY Constants DEF Edges, Tap, InReach
<1>2. a \in W[i] /\ b \in W[i]
  BY DEF Held
<1>3. /\ e.left[i] \in e.start - DelayMax .. DelayMax
      /\ - e.right[i] \in e.start - DelayMax .. DelayMax
      /\ \A x \in e.start - DelayMax .. DelayMax :
           x - e.start \in W[i] => - e.right[i] <= x /\ x <= e.left[i]
  BY DEF Outermost
<1>4. a \in S /\ b \in S
  BY <1>1, <1>2, <1>3
<1>5. ASSUME NEW x \in S PROVE b <= x /\ x <= a
  <2>1. x \in Int /\ x + e.start \in e.start - DelayMax .. DelayMax /\ x \in W[i]
    BY <1>1
  <2>2. (x + e.start) - e.start = x
    BY <1>1, <2>1
  <2>3. - e.right[i] <= x + e.start /\ x + e.start <= e.left[i]
    BY <1>3, <2>1, <2>2
  <2> QED
    BY <1>1, <2>1, <2>3
<1>6. a \in Int /\ b \in Int
  BY <1>1
<1> HIDE DEF a, b, S
<1>7. LargestOf(S) = a
  <2>1. \A y \in S : a >= y
    BY <1>1, <1>5, <1>6
  <2>2. LargestOf(S) \in S /\ \A y \in S : LargestOf(S) >= y
    BY <1>4, <2>1 DEF LargestOf
  <2>3. LargestOf(S) >= a /\ a >= LargestOf(S) /\ LargestOf(S) \in Int
    BY <1>1, <1>4, <2>1, <2>2
  <2> QED
    BY <1>6, <2>3
<1>8. SmallestOf(S) = b
  <2>1. \A y \in S : b <= y
    BY <1>5
  <2>2. SmallestOf(S) \in S /\ \A y \in S : SmallestOf(S) <= y
    BY <1>4, <2>1 DEF SmallestOf
  <2>3. SmallestOf(S) <= b /\ b <= SmallestOf(S) /\ SmallestOf(S) \in Int
    BY <1>1, <1>4, <2>1, <2>2
  <2> QED
    BY <1>6, <2>3
<1> QED
  BY <1>1, <1>7, <1>8 DEF a, b

(* So that is how far off the middle of the window the bit is,                *)
LEMMA OffCentreOf ==
  ASSUME NEW e \in Edges, NEW i \in DQ, NEW W, Whole(W[i]), W[i] \subseteq Int,
         Held(e, W), Outermost(e, W), NEW at, at[i] \in Int
  PROVE  OffCentre(at, InReach(W, e.start), i) = Skew(e, i) - 2 * (at[i] + e.start)
<1>1. e.left[i] \in Int /\ e.right[i] \in Int /\ e.start \in Int
  BY DEF Edges, Tap
<1>2. OffCentre(at, InReach(W, e.start), i)
        = (e.left[i] - e.start) + (0 - (e.start + e.right[i])) - 2 * at[i]
  BY WindowEnds DEF OffCentre
<1> QED
  BY <1>1, <1>2 DEF Skew

(* and the strobe of the read side is never moved farther than the worst bit  *)
(* needs, as the edges of that bit are in reach of the searches.              *)
LEMMA StrobeMoves ==
  ASSUME NEW e \in Edges, NEW W, \A i \in DQ : Whole(W[i]), Outermost(e, W)
  PROVE  LET moved == e.start - Clamp(e.start - MidMin(e), 0, DelayMax)
         IN  moved \in Int /\ MidMin(e) >= moved
<1> DEFINE m == Skew(e, Worst(e))
           c == MidMin(e)
           w == Worst(e)
<1>1. w \in DQ
  BY WorstIsLeast
<1>2. e.start \in 0 .. DelayMax /\ DelayMax \in Nat
      /\ e.left[w] \in Int /\ e.right[w] \in Int /\ m = e.left[w] - e.right[w]
  BY <1>1, Constants DEF Edges, Tap, Skew
<1>3. /\ e.left[w] \in e.start - DelayMax .. DelayMax
      /\ - e.right[w] \in e.start - DelayMax .. DelayMax
  BY <1>1 DEF Outermost
<1> HIDE DEF w
<1>4. m \in Int /\ m >= 2 * (e.start - DelayMax)
  BY <1>2, <1>3
<1>5. c \in Int /\ m <= 2 * c
  BY <1>4 DEF MidMin, Half
<1> HIDE DEF m, c
<1>6. c >= e.start - DelayMax
  BY <1>2, <1>4, <1>5
<1>7. Clamp(e.start - c, 0, DelayMax) = IF e.start - c < 0 THEN 0 ELSE e.start - c
  BY <1>2, <1>5, <1>6 DEF Clamp
<1> QED
  BY <1>2, <1>5, <1>7 DEF c

(* What the end of the read side's right search leaves                        *)
LEMMA RdCentreCentres ==
  ASSUME TypeOK, NEW s \in Settings, NEW e \in Edges, RdCentre(s, e), e.start = rd.start,
         s.dqIn = [i \in DQ |-> 0],
         (\A i \in DQ : e.left[i] # Unseen /\ e.right[i] # Unseen) =>
            Held(e, board.read) /\ Outermost(e, board.read)
  PROVE  InputCentred
<1> DEFINE missing == { i \in DQ : e.left[i] = Unseen \/ e.right[i] = Unseen }
           moved   == e.start - Clamp(e.start - MidMin(e), 0, DelayMax)
           f       == [i \in DQ |-> s.dqIn[i] + Shift(e, i, s.dqIn[i], moved)]
           t       == [s EXCEPT !.dqIn = f, !.dqsIn = e.start - moved]
           off(i)  == OffCentre(ReadAt', InReach(board.read, rd.start), i)
<1> SUFFICES ASSUME result', \A i \in DQ : Whole(board.read[i]), NEW i \in DQ
             PROVE  off(i) >= -1 /\ (phy'.dqIn[i] < DelayMax => off(i) <= 1)
  BY DEF InputCentred
<1>1. missing = {} /\ phy' = t
  BY Zenon DEF RdCentre, RdReturn
<1>2. Held(e, board.read) /\ Outermost(e, board.read)
  BY <1>1
<1>3. moved \in Int /\ MidMin(e) >= moved
  BY <1>2, StrobeMoves
<1> HIDE DEF moved
<1>4. phy'.dqIn = f /\ phy'.dqsIn = e.start - moved
  BY <1>1 DEF Settings
<1> DEFINE new == Shift(e, i, 0, moved)
<1>5. /\ new \in Int /\ Skew(e, i) - 2 * (new + moved) >= -1
      /\ new < DelayMax => Skew(e, i) - 2 * (new + moved) <= 1
  BY <1>3, ShiftCentres
<1> HIDE DEF new
<1>6. f[i] = new
  <2>1. s.dqIn[i] = 0 /\ f[i] = s.dqIn[i] + Shift(e, i, s.dqIn[i], moved)
    OBVIOUS
  <2>2. f[i] = 0 + new
    BY <2>1 DEF new
  <2> QED
    BY <1>5, <2>2
<1>7. ReadAt'[i] = new - (e.start - moved)
  BY <1>4, <1>6 DEF ReadAt
<1>8. board.read[i] \subseteq Int
  BY WindowsFinite DEF TypeOK
<1>9. off(i) = Skew(e, i) - 2 * (new + moved)
  <2> DEFINE at == ReadAt'
             W  == board.read
  <2>1. e.start \in Int
    BY DEF Edges, Tap
  <2>2. at[i] \in Int /\ at[i] + e.start = new + moved
    BY <1>3, <1>5, <1>7, <2>1
  <2>3. W[i] \subseteq Int /\ Whole(W[i]) /\ Held(e, W) /\ Outermost(e, W)
    BY <1>2, <1>8
  <2> HIDE DEF at, W
  <2>4. OffCentre(at, InReach(W, e.start), i) = Skew(e, i) - 2 * (at[i] + e.start)
    BY <2>2, <2>3, OffCentreOf
  <2> QED
    BY <2>2, <2>4 DEF at, W
<1> HIDE DEF off
<1> QED
  BY <1>4, <1>5, <1>6, <1>9

(* and the end of the write side's.                                           *)
LEMMA WrCentreCentres ==
  ASSUME TypeOK, NEW s \in Settings, NEW e \in Edges, WrCentre(s, e), e.start = wr.edges.start,
         s.dqOut = [i \in DQ |-> 0],
         (\A i \in DQ : e.left[i] # Unseen /\ e.right[i] # Unseen) =>
            Held(e, board.write) /\ Outermost(e, board.write)
  PROVE  OutputCentred
<1> DEFINE missing == { i \in DQ : e.left[i] = Unseen \/ e.right[i] = Unseen }
           f       == [i \in DQ |-> s.dqOut[i] + Shift(e, i, s.dqOut[i], 0)]
           t       == [s EXCEPT !.dqOut = f, !.dqsOut = e.start]
           off(i)  == OffCentre(WriteAt', InReach(board.write, wr.edges.start), i)
<1> SUFFICES ASSUME step' = "wr_mask", \A i \in DQ : Whole(board.write[i]), NEW i \in DQ
             PROVE  /\ phy'.dqOut[i] > 0 => off(i) >= -1
                    /\ phy'.dqOut[i] < DelayMax => off(i) <= 1
  BY DEF OutputCentred
<1>1. missing = {} /\ phy' = t
  BY Zenon DEF WrCentre, WrReturn, WrGoto
<1>2. Held(e, board.write) /\ Outermost(e, board.write)
  BY <1>1
<1>3. phy'.dqOut = f /\ phy'.dqsOut = e.start /\ e.start \in Int
  BY <1>1 DEF Settings, Edges, Tap
<1> DEFINE new == Shift(e, i, 0, 0)
<1>4. /\ new \in Int /\ (new > 0 => Skew(e, i) - 2 * (new + 0) >= -1)
      /\ new < DelayMax => Skew(e, i) - 2 * (new + 0) <= 1
  BY ShiftCentres
<1> HIDE DEF new
<1>5. f[i] = new
  <2>1. s.dqOut[i] = 0 /\ f[i] = s.dqOut[i] + Shift(e, i, s.dqOut[i], 0)
    OBVIOUS
  <2>2. f[i] = 0 + new
    BY <2>1 DEF new
  <2> QED
    BY <1>4, <2>2
<1>6. WriteAt'[i] = new - (e.start - 0)
  BY <1>3, <1>5 DEF WriteAt
<1>7. board.write[i] \subseteq Int
  BY WindowsFinite DEF TypeOK
<1>8. off(i) = Skew(e, i) - 2 * (new + 0)
  <2> DEFINE at == WriteAt'
             W  == board.write
  <2>1. at[i] \in Int /\ at[i] + e.start = new + 0
    BY <1>3, <1>4, <1>6
  <2>2. W[i] \subseteq Int /\ Whole(W[i]) /\ Held(e, W) /\ Outermost(e, W)
    BY <1>2, <1>7
  <2> HIDE DEF at, W
  <2>3. OffCentre(at, InReach(W, e.start), i) = Skew(e, i) - 2 * (at[i] + e.start)
    BY <2>1, <2>2, OffCentreOf
  <2> QED
    BY <2>1, <2>3 DEF at, W
<1> HIDE DEF off
<1> QED
  BY <1>3, <1>4, <1>5, <1>8

(* Whatever the board: whenever a deskew passes, every bit whose window has   *)
(* no holes is left within a tap of the middle of what the searches reach of  *)
(* it, unless its chain ends there, and on the read side no chain ends below  *)
(* (rw_mgr_mem_calibrate_vfifo_center, rw_mgr_mem_calibrate_writes_center).   *)
THEOREM DeskewIsCentred == Spec => DeskewCentred
<1>1. IInv /\ FInv /\ [Next]_vars => [InputCentred /\ OutputCentred]_vars
  <2> SUFFICES ASSUME IInv, FInv, Next PROVE InputCentred /\ OutputCentred
    OBVIOUS
  <2>1. TypeOK /\ StrobeInChain /\ InputEdges /\ OutputEdges
    BY FiguresNow
  <2>2. InputCentred
    <3> SUFFICES ASSUME step = "rd_right", step' = "rd_return" PROVE InputCentred
      BY DEF InputCentred
    <3>1. RdSeekRight
      <4>1. ~ (FindDqsEnPhase /\ UNCHANGED <<rd, wr, vf, reg, saved>>)
        BY SearchGoes DEF IInv, EnStep
      <4>2. ~ (WritesCenter /\ UNCHANGED <<en, dtaps, vf, reg, saved>>)
        BY DEF WritesCenter, WrSeekLeft, WrSeekRight, WrSeekMask, WrSeekMaskDqs
      <4>3. VfifoCenter
        BY <4>1, <4>2 DEF Next, InitializeRegisters, TakePhy, MemCalibrate, GuaranteedRead,
             SweepDqIn, GateSearched, ReadSideDone, WriteSideDone, ReadSideDoneAgain,
             LowerLatency, LowerBy, ReleaseMemory, HandOff, RestoreTracking, Report, Done
      <4> QED
        BY <4>3 DEF VfifoCenter, RdSeekLeft
    <3>2. PICK s \in Settings, e \in Edges :
            /\ RdCentre(s, e) /\ e.useRead = rd.useRead /\ e.start = rd.start
            /\ s.dqIn = [i \in DQ |-> 0]
            /\ (\A i \in DQ : e.left[i] # Unseen /\ e.right[i] # Unseen) =>
                 Held(e, board.read) /\ Outermost(e, board.read)
      BY <2>1, <3>1, RdRightEdges
    <3> QED
      BY <2>1, <3>2, RdCentreCentres
  <2>3. OutputCentred
    <3> SUFFICES ASSUME step = "wr_right", step' = "wr_mask" PROVE OutputCentred
      BY DEF OutputCentred
    <3>1. WrSeekRight
      <4>1. ~ (FindDqsEnPhase /\ UNCHANGED <<rd, wr, vf, reg, saved>>)
        BY SearchGoes DEF IInv, EnStep
      <4>2. ~ (VfifoCenter /\ UNCHANGED <<en, wr, dtaps, vf, reg, saved>>)
        BY DEF VfifoCenter, RdSeekLeft, RdSeekRight
      <4>3. WritesCenter
        BY <4>1, <4>2 DEF Next, InitializeRegisters, TakePhy, MemCalibrate, GuaranteedRead,
             SweepDqIn, GateSearched, ReadSideDone, WriteSideDone, ReadSideDoneAgain,
             LowerLatency, LowerBy, ReleaseMemory, HandOff, RestoreTracking, Report, Done
      <4> QED
        BY <4>3 DEF WritesCenter, WrSeekLeft, WrSeekMask, WrSeekMaskDqs
    <3>2. PICK s \in Settings, e \in Edges :
            /\ WrCentre(s, e) /\ e.start = wr.edges.start /\ s.dqOut = [i \in DQ |-> 0]
            /\ (\A i \in DQ : e.left[i] # Unseen /\ e.right[i] # Unseen) =>
                 Held(e, board.write) /\ Outermost(e, board.write)
      BY <2>1, <3>1, WrRightEdges
    <3> QED
      BY <2>1, <3>2, WrCentreCentres
  <2> QED
    BY <2>2, <2>3
<1>2. Init /\ [][Next]_vars => [](IInv /\ FInv)
  BY InitIInv, InitFInv, NextIInv, NextFInv, PTL
<1> QED
  BY <1>1, <1>2, PTL DEF Spec, DeskewCentred

--------------------------------------------------------------------------------
(* The waits between two commands to the memory (RwDelay).                    *)

(* Rounding up never loses a clock and never adds as much as one interface    *)
(* clock.                                                                     *)
LEMMA RoundedUp ==
  ASSUME NEW clocks \in Nat, NEW ratio \in {1, 2, 4}
  PROVE  /\ AfiClocks(clocks, ratio) \in Nat
         /\ AfiClocks(clocks, ratio) * ratio >= clocks
         /\ AfiClocks(clocks, ratio) * ratio < clocks + ratio
<1>1. CASE ratio = 1
  BY <1>1 DEF AfiClocks
<1>2. CASE ratio = 2
  BY <1>2 DEF AfiClocks
<1>3. CASE ratio = 4
  BY <1>3 DEF AfiClocks
<1> QED
  BY <1>1, <1>2, <1>3

(* What of the sizes the proofs need, and division by any of them.            *)
LEMMA Sizes == Alt8 \in Nat \ {0} /\ Alt16 \in Nat \ {0} /\ Alt8 < Alt16
BY DEF Alt8, Alt16

(* Division by a positive number.                                             *)
LEMMA Division ==
  ASSUME NEW a \in Nat, NEW b \in Nat \ {0}, NEW k \in Nat, a < k * b
  PROVE  /\ a \div b \in 0 .. k - 1
         /\ b * (a \div b) <= a /\ a < b * (a \div b) + b
<1> DEFINE q == a \div b
<1>1. q \in Nat /\ b * q <= a /\ a < b * q + b
  OBVIOUS
<1>2. b * q < b * k
  BY <1>1
<1>3. q < k
  <2> HIDE DEF q
  <2> SUFFICES ASSUME q >= k PROVE FALSE
    BY <1>1
  <2>1. b * q >= b * k
    BY <1>1
  <2> QED
    BY <1>1, <1>2, <2>1
<1> QED
  BY <1>1, <1>3

(* The counters of every wait of at least a clock that fits a word of the     *)
(* processor: nothing is lost when they are stored in one and two bytes, and  *)
(* what they count is never short of the clocks asked for, exact up to a      *)
(* byte, and long by less than a pass of the loop it is counted by.           *)
LEMMA CountedOut ==
  ASSUME NEW afi \in 1 .. Alt32
  PROVE  LET n == Idle(Counters(afi))
         IN  /\ n \in Nat /\ afi <= n
             /\ afi <= Alt8 => n = afi
             /\ afi <= Alt16 => n < afi + Alt8
             /\ n < afi + Alt16
<1> DEFINE c == Counters(afi)
           n == Idle(c)
<1>1. afi \in Nat \ {0}
  OBVIOUS
<1>2. CASE afi <= Alt8
  <2>1. c = [inner |-> afi - 1, outer |-> 0, loops |-> 0]
    BY <1>1, <1>2, Sizes DEF Counters
  <2>2. n = afi
    BY <1>1, <2>1 DEF Idle
  <2> QED
    BY <1>1, <1>2, <2>2, Sizes
<1>3. CASE Alt8 < afi /\ afi <= Alt16
  <2> DEFINE o == (afi - 1) \div Alt8
  <2>0. afi - 1 \in Nat /\ Alt8 \in Nat /\ afi - 1 < Alt8 * Alt8
    BY <1>1, <1>3, Sizes DEF Alt16
  <2>1. /\ o \in 0 .. Alt8 - 1
        /\ Alt8 * o <= afi - 1 /\ afi - 1 < Alt8 * o + Alt8
    BY ONLY <2>0, Sizes, Division, Zenon
  <2>2. c = [inner |-> Alt8 - 1, outer |-> o, loops |-> 0]
    BY <1>1, <1>3, <2>1, Sizes DEF Counters
  <2>3. n = Alt8 * (o + 1)
    BY <2>1, <2>2, Sizes DEF Idle
  <2> QED
    BY <1>1, <1>3, <2>1, <2>3, Sizes
<1>4. CASE Alt16 < afi
  <2> DEFINE l == (afi - 1) \div Alt16
  <2>1. afi - 1 \in Nat /\ Alt16 \in Nat /\ afi - 1 < Alt16 * Alt16
    BY <1>1, Sizes DEF Alt32
  <2>2. /\ l \in 0 .. Alt16 - 1
        /\ Alt16 * l <= afi - 1 /\ afi - 1 < Alt16 * l + Alt16
    BY ONLY <2>1, Sizes, Division, Zenon
  <2>3. c = [inner |-> Alt8 - 1, outer |-> Alt8 - 1, loops |-> l]
    BY <1>1, <1>4, <2>2, Sizes DEF Counters
  <2>4. n = Alt16 * (l + 1)
    BY <2>2, <2>3, Sizes DEF Idle, Alt16
  <2> QED
    BY <1>1, <1>4, <2>2, <2>4, Sizes
<1> QED
  BY <1>1, <1>2, <1>3, <1>4, Sizes

(* A wait is never shorter than the clocks the memory needs between two       *)
(* commands, whatever the number of clocks and the rate of the interface, and *)
(* up to a byte of interface clocks it is not longer than the rounding to     *)
(* them (delay_for_n_mem_clocks).                                             *)
THEOREM WaitsLongEnough ==
  ASSUME NEW ratio \in {1, 2, 4}, NEW clocks \in 1 .. Alt32 - ratio
  PROVE  LET afi == AfiClocks(clocks, ratio)
             n   == Idle(Counters(afi))
         IN  /\ n * ratio >= clocks
             /\ afi <= Alt8 => n * ratio < clocks + ratio
<1> DEFINE afi == AfiClocks(clocks, ratio)
           n   == Idle(Counters(afi))
<1>1. clocks \in Nat /\ Alt32 \in Nat
  BY DEF Alt32, Alt16, Alt8
<1>2. /\ afi \in Nat
      /\ afi * ratio >= clocks
      /\ afi * ratio < clocks + ratio
  BY <1>1, RoundedUp
<1>3. afi \in 1 .. Alt32
  BY <1>1, <1>2
<1>4. n \in Nat /\ afi <= n /\ (afi <= Alt8 => n = afi)
  BY <1>3, CountedOut
<1>5. n * ratio >= afi * ratio
  BY <1>2, <1>4
<1>6. n * ratio >= clocks
  <2> HIDE DEF n
  <2> QED
    BY <1>2, <1>4, <1>5
<1>7. afi <= Alt8 => n * ratio < clocks + ratio
  BY <1>2, <1>4
<1> QED
  BY <1>6, <1>7
================================================================================
