----------------------------- MODULE GateProofs -----------------------------
(***************************************************************************)
(* Proof that rw_mgr_mem_calibrate_vfifo_find_dqs_en_phase of the          *)
(* sequencer finds the gate and centres it in its opening, for every FIFO, *)
(* every number of phases and taps, and every board whose gate opens for a *)
(* clock or more, and for less than two clocks but a phase and a tap.      *)
(*                                                                         *)
(* The search only ever learns whether a word passes.  The invariant says  *)
(* what it knows of the opening while it is at each of its steps: an       *)
(* opening begins g picoseconds after the search did, the setting is       *)
(* within so many taps or phases of an edge of that opening, and the work  *)
(* it has counted is the time it has moved.  The place of the FIFO is      *)
(* known modulo the size of the FIFO throughout.                           *)
(***************************************************************************)
EXTENDS SequencerProofs

(* Division with a rest.                                                      *)
LEMMA Rest ==
  ASSUME NEW c \in Nat \ {0}, NEW a \in Int
  PROVE  /\ a % c \in 0 .. c - 1 /\ a = c * (a \div c) + (a % c) /\ a \div c \in Int
OBVIOUS

(* The rest is the only number below the divisor at a multiple's distance.    *)
LEMMA RestIs ==
  ASSUME NEW c \in Nat \ {0}, NEW a \in Int, NEW k \in Int, NEW r \in 0 .. c - 1, a = c * k + r
  PROVE  a % c = r
<1> DEFINE q == a \div c
           e == a % c
<1>1. e \in 0 .. c - 1 /\ a = c * q + e /\ q \in Int
  BY Rest
<1> HIDE DEF q, e
<1>2. c * (q - k) = r - e
  BY <1>1
<1>3. ~ (q - k >= 1)
  <2> SUFFICES ASSUME q - k >= 1 PROVE FALSE
    OBVIOUS
  <2>1. c * (q - k) >= c
    BY <1>1
  <2> QED
    BY <1>1, <1>2, <2>1
<1>4. ~ (q - k <= -1)
  <2> SUFFICES ASSUME q - k <= -1 PROVE FALSE
    OBVIOUS
  <2>1. c * (q - k) <= - c
    BY <1>1
  <2> QED
    BY <1>1, <1>2, <2>1
<1>5. q = k
  BY <1>1, <1>3, <1>4
<1> QED
  BY <1>1, <1>5 DEF e

(* Numbers a multiple apart leave the same rest.                              *)
LEMMA SameRest ==
  ASSUME NEW c \in Nat \ {0}, NEW a \in Int, NEW b \in Int, (a - b) % c = 0
  PROVE  a % c = b % c
<1> DEFINE k == (a - b) \div c
           q == b \div c
           r == b % c
<1>1. a - b = c * k /\ k \in Int
  BY Rest
<1>2. r \in 0 .. c - 1 /\ b = c * q + r /\ q \in Int
  BY Rest
<1> HIDE DEF k, q, r
<1>3. a = c * (q + k) + r
  BY <1>1, <1>2
<1>4. a % c = r
  BY <1>2, <1>1, <1>3, RestIs
<1> QED
  BY <1>4 DEF r

(* The rest of a number around the divisor.                                   *)
LEMMA RestNear ==
  ASSUME NEW c \in Nat \ {0}, NEW a \in Int
  PROVE  /\ 0 <= a /\ a < c => a % c = a
         /\ - c <= a /\ a < 0 => a % c = a + c
         /\ c <= a /\ a < 2 * c => a % c = a - c
<1>1. 0 <= a /\ a < c => a % c = a
  BY RestIs
<1>2. - c <= a /\ a < 0 => a % c = a + c
  <2> SUFFICES ASSUME - c <= a, a < 0 PROVE a % c = a + c
    OBVIOUS
  <2>1. a + c \in 0 .. c - 1 /\ a = c * (-1) + (a + c)
    OBVIOUS
  <2> QED
    BY <2>1, RestIs
<1>3. c <= a /\ a < 2 * c => a % c = a - c
  <2> SUFFICES ASSUME c <= a, a < 2 * c PROVE a % c = a - c
    OBVIOUS
  <2>1. a - c \in 0 .. c - 1 /\ a = c * 1 + (a - c)
    OBVIOUS
  <2> QED
    BY <2>1, RestIs
<1> QED
  BY <1>1, <1>2, <1>3

(* A clock, the FIFO and the half clock less a phase, in phases and taps.     *)
LEMMA Clock ==
  /\ Period \in Nat \ {0} /\ Cycle \in Nat \ {0} /\ OpaTap \in Nat \ {0} /\ EnTap \in Nat \ {0}
  /\ 2 * EnTap <= OpaTap /\ 4 * OpaTap <= Period /\ 4 * Period <= Cycle
  /\ PhaseMax * OpaTap = Period - OpaTap /\ EnDelayMax * EnTap >= OpaTap
  /\ PhaseMax \in Nat /\ PhaseMax >= 3 /\ EnDelayMax \in Nat /\ VfifoSize \in Nat
  /\ VfifoSize >= 4 /\ Cycle = VfifoSize * Period
<1>1. /\ OpaTap \in Nat \ {0} /\ EnTap \in Nat \ {0} /\ PhaseMax \in Nat /\ EnDelayMax \in Nat
      /\ VfifoSize \in Nat /\ 2 * EnTap <= OpaTap /\ PhaseMax >= 3 /\ VfifoSize >= 4
      /\ EnDelayMax * EnTap >= OpaTap
  BY Constants, GateAssumption, EnTapsAssumption
<1>2. Period = (PhaseMax + 1) * OpaTap /\ Period \in Nat
  BY <1>1 DEF Period
<1>3. PhaseMax * OpaTap = Period - OpaTap /\ Period >= 4 * OpaTap
  BY <1>1, <1>2
<1>4. Cycle = VfifoSize * Period /\ Cycle \in Nat /\ Cycle >= 4 * Period
  BY <1>1, <1>2 DEF Cycle
<1> QED
  BY <1>1, <1>2, <1>3, <1>4

(* The margin is a number of phases, and twice it and a phase make a clock at *)
(* most.                                                                      *)
LEMMA Margin ==
  \E m \in Nat :
    /\ GateMargin = m * OpaTap /\ GateMargin \in Nat
    /\ \/ Period = 2 * GateMargin + 2 * OpaTap
       \/ Period = 2 * GateMargin + 3 * OpaTap
<1> DEFINE m == (PhaseMax - 1) \div 2
<1>1. PhaseMax \in Nat /\ PhaseMax >= 3 /\ OpaTap \in Nat \ {0} /\ Period = (PhaseMax + 1) * OpaTap
  BY Clock DEF Period
<1>2. m \in Nat /\ (PhaseMax - 1 = 2 * m \/ PhaseMax - 1 = 2 * m + 1)
  BY <1>1
<1>3. GateMargin = m * OpaTap
  BY DEF GateMargin
<1> HIDE DEF m
<1>4. m * OpaTap \in Nat
  BY <1>1, <1>2
<1>5. CASE PhaseMax = 2 * m + 1
  <2>1. Period = (2 * m + 2) * OpaTap
    BY <1>1, <1>2, <1>5
  <2>2. Period = 2 * (m * OpaTap) + 2 * OpaTap
    BY <2>1, <1>1, <1>2
  <2> QED
    BY <1>2, <1>3, <1>4, <2>2
<1>6. CASE PhaseMax = 2 * m + 2
  <2>1. Period = (2 * m + 3) * OpaTap
    BY <1>1, <1>2, <1>6
  <2>2. Period = 2 * (m * OpaTap) + 3 * OpaTap
    BY <2>1, <1>1, <1>2
  <2> QED
    BY <1>2, <1>3, <1>4, <2>2
<1> QED
  BY <1>1, <1>2, <1>5, <1>6

(* A setting's time since the search began, from its place, phase and tap.    *)
LEMMA ElapsedIs ==
  ASSUME NEW n \in Int, NEW p \in Int, NEW d \in Int
  PROVE  /\ Elapsed(n, p, d) = n * Period + p * OpaTap + d * EnTap
         /\ Elapsed(n, p, d) \in Int /\ n * Period \in Int /\ p * OpaTap \in Int /\ d * EnTap \in Int
<1>1. OpaTap \in Nat /\ EnTap \in Nat /\ PhaseMax \in Nat /\ Period = (PhaseMax + 1) * OpaTap
  BY Clock DEF Period
<1>2. (n * (PhaseMax + 1) + p) * OpaTap = n * ((PhaseMax + 1) * OpaTap) + p * OpaTap
  BY <1>1
<1> QED
  BY <1>1, <1>2 DEF Elapsed
-----------------------------------------------------------------------------
(* The gate in the middle of its opening. The search is about an opening that *)
(* the property is about: the board shows some bit when the gate is open.     *)
OneOpening ==
  /\ phy.loaded /\ Aligned(phy) # {}
  /\ board.gateLength \in Period .. 2 * Period - OpaTap - EnTap

(* How long after the opening begins a setting opens the gate, around the     *)
(* FIFO; and that the place of the FIFO it has is the n-th since the search   *)
(* began, when the opening it looks for begins at time g since then.          *)
Offset(b, s) == (GateTime(s) - b.gate) % Cycle
Placed(b, s, n, g) == (s.vfifo * Period - b.gate - (n * Period - g)) % Cycle = 0

(* Step 1 may begin in an opening, which shows in two places at most, and     *)
(* fails twice in four.                                                       *)
FailSought(b, s, e) ==
  LET x == Offset(b, s)
      L == b.gateLength
  IN /\ s.enPhase = 1 /\ s.enDelay = 0
     /\ \/ /\ e.fails = 0
           /\ \/ e.v = 0
              \/ e.v = 1 /\ Period <= x /\ x < L + Period
              \/ e.v = 2 /\ 2 * Period <= x /\ x < L + Period
        \/ /\ e.fails = 1
           /\ \/ e.v = 1
              \/ e.v = 2 /\ Period <= x /\ x < L + Period
              \/ e.v = 3 /\ 2 * Period <= x /\ x < L + Period
              \/ e.v \in {2, 3} /\ L + Period <= x /\ x < L + 2 * Period

(* Step 2 looks for an opening that begins later than the first setting tried *)
(* and ends before the FIFO has turned, and has not passed it.                *)
Within(b, s, n, g) == Placed(b, s, n, g) /\ g + b.gateLength <= Cycle + OpaTap
BeginSought(b, s, e) ==
  \E g \in Int :
    /\ Within(b, s, e.i, g) /\ e.d = 0
    /\ LET x == Elapsed(e.i, e.p, 0) - g
       IN b.gateLength - Cycle <= x /\ x < IF e.p = 1 THEN 2 * OpaTap ELSE OpaTap

(* Step 3a goes back from the phase found, unless it is phase 1.              *)
LeftSought(b, s, e) ==
  \E g \in Int :
    /\ Within(b, s, e.i, g) /\ s.enPhase = e.p /\ e.end = e.bgn
    /\ \/ /\ e.p = 1 /\ e.bgn = Elapsed(e.i, 1, 0) /\ e.tmp = e.bgn
          /\ e.bgn - g \in 0 .. 2 * OpaTap - 1
       \/ /\ e.p \in 1 .. PhaseMax - 1 /\ e.bgn = Elapsed(e.i, e.p + 1, 0)
          /\ e.bgn - g \in 0 .. OpaTap - 1
          /\ e.tmp = e.bgn - OpaTap + e.d * EnTap
          /\ e.d > 0 => e.tmp - EnTap < g

(* What is known of the beginning: the opening was found at place f and phase *)
(* q. At phase 1 no taps were tried, and work_end stays a phase behind.       *)
Found(g, f, q, lag, bgn) ==
  LET t == Elapsed(f, q, 0)
  IN \/ /\ lag = 0 /\ q \in 2 .. PhaseMax /\ t - g \in 0 .. OpaTap - 1
        /\ bgn - g \in 0 .. EnTap - 1 /\ bgn <= t
     \/ lag = OpaTap /\ q = 1 /\ t - g \in 0 .. 2 * OpaTap - 1 /\ bgn = t

(* Step 4a has not passed the end by more than the next phase,                *)
EndAt(b, s, e, g, n, f, q, lag) ==
  /\ Within(b, s, n, g) /\ Found(g, f, q, lag, e.bgn) /\ e.i <= n /\ s.enDelay = 0
  /\ e.end + lag = Elapsed(n, e.p, 0)
  /\ LET x == e.end + lag - g
     IN /\ OpaTap <= x
        /\ IF e.p = 1 THEN 2 * OpaTap <= x /\ x - 2 * OpaTap < b.gateLength
           ELSE x - OpaTap < b.gateLength
        /\ e.first => x < b.gateLength
EndSought(b, s, e) ==
  \E g, n, f \in Int, q \in 1 .. PhaseMax, lag \in {0, OpaTap} : EndAt(b, s, e, g, n, f, q, lag)

(* and the taps of the last phase that passed are tried.                      *)
RightAt(b, s, e, g, n, f, q, lag) ==
  /\ Within(b, s, n, g) /\ Found(g, f, q, lag, e.bgn)
  /\ s.enPhase = e.p /\ e.p >= 1 /\ e.d <= EnDelayMax + 1
  /\ e.end + lag = Elapsed(n, e.p, e.d)
  /\ LET x == Elapsed(n, e.p, 0) - g
     IN /\ 0 <= x /\ x < b.gateLength
        /\ x + (IF e.p = PhaseMax THEN 2 * OpaTap ELSE OpaTap) >= b.gateLength
        /\ e.d > 0 => x + (e.d - 1) * EnTap < b.gateLength
RightSought(b, s, e) ==
  \E g, n, f \in Int, q \in 1 .. PhaseMax, lag \in {0, OpaTap} : RightAt(b, s, e, g, n, f, q, lag)

(* What is known of the end when the middle is taken.                         *)
EndSeen(b, g, lag, bgn, end) ==
  LET L == b.gateLength
      y == end - bgn
  IN /\ end - g < L
     /\ lag = 0 => end - g >= L - OpaTap
     /\ lag # 0 =>
          /\ \/ end - g + EnTap >= L
             \/ L <= bgn - g + Period /\ y >= Period - OpaTap
          /\ \/ y <= 2 * Period - 4 * OpaTap
             \/ y >= 2 * Period - 3 * OpaTap
             \/ \E t \in Nat : /\ y = 2 * Period - 4 * OpaTap + t * EnTap
                               /\ t * EnTap < OpaTap
EdgesAt(b, s, e, g, n, f, q, lag) ==
  /\ Placed(b, s, n, g) /\ Found(g, f, q, lag, e.bgn)
  /\ EndSeen(b, g, lag, e.bgn, e.end + lag)
EdgesFound(b, s, e) ==
  \E g, n, f \in Int, q \in 1 .. PhaseMax, lag \in {0, OpaTap} : EdgesAt(b, s, e, g, n, f, q, lag)

(* The centred setting is in the opening at one place of the FIFO only.       *)
Unique(b, at) ==
  /\ GateMargin <= at /\ at <= b.gateLength - 1 - GateMargin
  /\ at < Period /\ b.gateLength <= at + Period
FinalSought(b, s, e) ==
  \E at \in Int, n \in 0 .. VfifoSize - 1 :
    Unique(b, at) /\ Offset(b, s) = at + n * Period /\ (n = 0 \/ n > e.i)

GateSeen(b, at, s, e, found) ==
  /\ at = "en_fail"  => FailSought(b, s, e)
  /\ at = "en_begin" => BeginSought(b, s, e)
  /\ at = "en_left"  => LeftSought(b, s, e)
  /\ at = "en_end"   => EndSought(b, s, e)
  /\ at = "en_right" => RightSought(b, s, e)
  /\ at \in {"en_repass", "en_refail"} => EdgesFound(b, s, e)
  /\ at = "en_final" => FinalSought(b, s, e)
  /\ at = "en_return" =>
       found /\ GateMargin <= Offset(b, s) /\ Offset(b, s) <= b.gateLength - 1 - GateMargin
GInv == OneOpening => GateSeen(board, step, phy, en, result)
-----------------------------------------------------------------------------
(* The opening of a board is a pair of whole numbers of picoseconds.          *)
LEMMA OpeningType ==
  ASSUME board \in Boards
  PROVE  board.gate \in Int /\ board.gateLength \in Int
BY GateAssumption

(* The time of a setting on the delay chains.                                 *)
LEMMA TimeIs ==
  ASSUME NEW s \in Settings
  PROVE  /\ GateTime(s) = s.vfifo * Period + s.enPhase * OpaTap + s.enDelay * EnTap
         /\ s.vfifo \in 0 .. VfifoSize - 1 /\ s.enPhase \in 0 .. PhaseMax
         /\ s.enDelay \in 0 .. EnDelayMax
         /\ s.vfifo * Period \in Int /\ s.enPhase * OpaTap \in Int /\ s.enDelay * EnTap \in Int
         /\ GateTime(s) \in Int
<1>1. /\ s.vfifo \in 0 .. VfifoSize - 1 /\ s.enPhase \in 0 .. PhaseMax
      /\ s.enDelay \in 0 .. EnDelayMax
  BY DEF Settings
<1>2. /\ s.vfifo * Period \in Int /\ s.enPhase * OpaTap \in Int /\ s.enDelay * EnTap \in Int
  BY <1>1, Clock
<1> QED
  BY <1>1, <1>2 DEF GateTime

(* The place of the FIFO gives the offset of all its settings.                *)
LEMMA OffsetIs ==
  ASSUME board \in Boards, NEW s \in Settings, NEW n \in Int, NEW g \in Int, Placed(board, s, n, g)
  PROVE  LET x == Elapsed(n, s.enPhase, s.enDelay) - g
         IN  /\ Offset(board, s) = x % Cycle /\ x \in Int
             /\ 0 <= x /\ x < Cycle => Offset(board, s) = x
             /\ - Cycle <= x /\ x < 0 => Offset(board, s) = x + Cycle
             /\ Offset(board, s) \in 0 .. Cycle - 1
<1> DEFINE x == Elapsed(n, s.enPhase, s.enDelay) - g
           a == GateTime(s) - board.gate
           pp == s.enPhase * OpaTap
           dd == s.enDelay * EnTap
           np == n * Period
           vp == s.vfifo * Period
<1>1. /\ GateTime(s) = vp + pp + dd /\ vp \in Int /\ pp \in Int /\ dd \in Int
      /\ s.enPhase \in Int /\ s.enDelay \in Int
  <2>1. /\ GateTime(s) = vp + pp + dd /\ vp \in Int /\ pp \in Int /\ dd \in Int
        /\ s.enPhase \in 0 .. PhaseMax /\ s.enDelay \in 0 .. EnDelayMax
    BY TimeIs, Zenon
  <2> HIDE DEF vp, pp, dd
  <2> QED
    BY <2>1, Constants
<1>2. Elapsed(n, s.enPhase, s.enDelay) = np + pp + dd /\ np \in Int
  <2> DEFINE p == s.enPhase
             d == s.enDelay
  <2>1. p \in Int /\ d \in Int
    BY <1>1
  <2> HIDE DEF p, d
  <2>2. Elapsed(n, p, d) = n * Period + p * OpaTap + d * EnTap /\ n * Period \in Int
    BY <2>1, ElapsedIs
  <2> QED
    BY <2>2 DEF p, d
<1>3. board.gate \in Int
  BY OpeningType
<1>4. (vp - board.gate - (np - g)) % Cycle = 0
  BY DEF Placed
<1> HIDE DEF pp, dd, np, vp
<1>5. a \in Int /\ x \in Int /\ a - x = vp - board.gate - (np - g)
  BY <1>1, <1>2, <1>3
<1> HIDE DEF a, x
<1>6. a % Cycle = x % Cycle
  BY <1>4, <1>5, Clock, SameRest
<1>7. Offset(board, s) = a % Cycle
  BY DEF Offset, a
<1> QED
  BY <1>5, <1>6, <1>7, Clock, Rest, RestNear DEF x

(* A read passes where the gate is open: the offset of the setting is less    *)
(* than the length of the opening.                                            *)
LEMMA PassesInside ==
  ASSUME OneOpening, phy.mem = "open", NEW s, OnlyGate(phy, s)
  PROVE  Passes(s) <=> Offset(board, s) < board.gateLength
<1>1. s.mem = "open" /\ s.loaded /\ Aligned(s) = Aligned(phy) /\ Aligned(phy) # {}
  BY DEF OnlyGate, SameMemory, SameInput, Aligned, OneOpening
<1> QED
  BY <1>1 DEF Passes, ReadBits, Captured, GateOpen, Offset

(* The same said of the time since the search began: a read passes where that *)
(* time is in the opening, as long as the setting is not a turn of the FIFO   *)
(* away from it.                                                              *)
LEMMA PassesThere ==
  ASSUME board \in Boards, OneOpening, phy.mem = "open", NEW s, OnlyGate(phy, s),
         NEW n \in Int, NEW g \in Int, Placed(board, s, n, g),
         NEW x \in Int, x = Elapsed(n, s.enPhase, s.enDelay) - g,
         board.gateLength - Cycle <= x, x < Cycle
  PROVE  Passes(s) <=> 0 <= x /\ x < board.gateLength
<1>1. s \in Settings
  BY DEF OnlyGate
<1>2. board.gateLength \in Int /\ board.gateLength >= 0 /\ Cycle \in Nat
  BY OpeningType, Clock DEF OneOpening
<1>3. /\ 0 <= x /\ x < Cycle => Offset(board, s) = x
      /\ - Cycle <= x /\ x < 0 => Offset(board, s) = x + Cycle
  BY <1>1, OffsetIs
<1>4. Passes(s) <=> Offset(board, s) < board.gateLength
  BY PassesInside
<1> QED
  BY <1>2, <1>3, <1>4

(* Placed depends on the place of the FIFO only.                              *)
LEMMA SamePlace ==
  ASSUME NEW s, NEW t, t.vfifo = s.vfifo, NEW n, NEW g, Placed(board, s, n, g)
  PROVE  Placed(board, t, n, g)
BY DEF Placed

(* A turn more or less leaves the rest as it is.                              *)
LEMMA Turned ==
  ASSUME NEW c \in Nat \ {0}, NEW a \in Int, a % c = 0
  PROVE  (a - c) % c = 0 /\ (a + c) % c = 0
<1> DEFINE k == a \div c
<1>1. a = c * k /\ k \in Int
  BY Rest
<1> HIDE DEF k
<1>2. a - c = c * (k - 1) + 0 /\ a + c = c * (k + 1) + 0 /\ 0 \in 0 .. c - 1
  BY <1>1
<1>3. a - c \in Int /\ a + c \in Int /\ k - 1 \in Int /\ k + 1 \in Int
  BY <1>1
<1>4. (a - c) % c = 0
  BY <1>2, <1>3, RestIs
<1>5. (a + c) % c = 0
  BY <1>2, <1>3, RestIs
<1> QED
  BY <1>4, <1>5

(* The next place of the FIFO and the one before.                             *)
LEMMA PlaceMoved ==
  ASSUME NEW v \in 0 .. VfifoSize - 1
  PROVE  /\ (v + 1) % VfifoSize = IF v + 1 = VfifoSize THEN 0 ELSE v + 1
         /\ (v + VfifoSize - 1) % VfifoSize = IF v = 0 THEN VfifoSize - 1 ELSE v - 1
<1>1. VfifoSize \in Nat \ {0} /\ v \in Int /\ v + 1 \in Int /\ v + VfifoSize - 1 \in Int
  BY Clock
<1>2. (v + 1) % VfifoSize = IF v + 1 = VfifoSize THEN 0 ELSE v + 1
  <2>1. v + 1 = VfifoSize => (v + 1) % VfifoSize = (v + 1) - VfifoSize
    BY <1>1, RestNear
  <2>2. v + 1 # VfifoSize => (v + 1) % VfifoSize = v + 1
    <3>1. 0 <= v + 1 /\ (v + 1 # VfifoSize => v + 1 < VfifoSize)
      BY <1>1
    <3> QED
      BY <1>1, <3>1, RestNear, Zenon
  <2> QED
    BY <1>1, <2>1, <2>2
<1>3. (v + VfifoSize - 1) % VfifoSize = IF v = 0 THEN VfifoSize - 1 ELSE v - 1
  <2>1. v = 0 => (v + VfifoSize - 1) % VfifoSize = v + VfifoSize - 1
    BY <1>1, RestNear
  <2>2. v # 0 => (v + VfifoSize - 1) % VfifoSize = (v + VfifoSize - 1) - VfifoSize
    <3>1. v # 0 => VfifoSize <= v + VfifoSize - 1 /\ v + VfifoSize - 1 < 2 * VfifoSize
      BY <1>1
    <3> QED
      BY <1>1, <3>1, RestNear, Zenon
  <2> QED
    BY <1>1, <2>1, <2>2
<1> QED
  BY <1>2, <1>3

(* The time of the next place and of the one before.                          *)
LEMMA PlaceTime ==
  ASSUME NEW v \in 0 .. VfifoSize - 1
  PROVE  /\ ((v + 1) % VfifoSize) * Period
              = IF v + 1 = VfifoSize THEN v * Period + Period - Cycle ELSE v * Period + Period
         /\ ((v + VfifoSize - 1) % VfifoSize) * Period
              = IF v = 0 THEN v * Period - Period + Cycle ELSE v * Period - Period
<1> DEFINE u == (v + 1) % VfifoSize
           w == (v + VfifoSize - 1) % VfifoSize
<1>1. /\ u = IF v + 1 = VfifoSize THEN 0 ELSE v + 1
      /\ w = IF v = 0 THEN VfifoSize - 1 ELSE v - 1
  BY PlaceMoved, Zenon
<1>2. /\ Period \in Nat /\ VfifoSize \in Nat /\ Cycle \in Nat \ {0} /\ Cycle = VfifoSize * Period
  BY Clock
<1> HIDE DEF u, w
<1>3. v \in Int /\ v * Period \in Int
  BY <1>2
<1>4. (VfifoSize - 1) * Period = Cycle - Period /\ 0 * Period = 0
  BY <1>2
<1>5. u * Period = IF v + 1 = VfifoSize THEN v * Period + Period - Cycle ELSE v * Period + Period
  <2>1. CASE v + 1 = VfifoSize
    <3>1. u = 0 /\ v = VfifoSize - 1
      BY <1>1, <1>2, <1>3, <2>1
    <3> QED
      BY <1>2, <1>4, <2>1, <3>1
  <2>2. CASE v + 1 # VfifoSize
    <3>1. u = v + 1 /\ (v + 1) * Period = v * Period + Period
      BY <1>1, <1>2, <1>3, <2>2
    <3> QED
      BY <2>2, <3>1
  <2> QED
    BY <2>1, <2>2
<1>6. w * Period = IF v = 0 THEN v * Period - Period + Cycle ELSE v * Period - Period
  <2>1. CASE v = 0
    <3>1. w = VfifoSize - 1
      BY <1>1, <2>1
    <3> QED
      BY <1>2, <1>4, <2>1, <3>1
  <2>2. CASE v # 0
    <3>1. w = v - 1 /\ (v - 1) * Period = v * Period - Period
      BY <1>1, <1>2, <1>3, <2>2
    <3> QED
      BY <2>2, <3>1
  <2> QED
    BY <2>1, <2>2
<1> QED
  BY <1>5, <1>6 DEF u, w

(* Pushing the FIFO moves the place that is known by one.                     *)
LEMMA NextPlace ==
  ASSUME board \in Boards, NEW s \in Settings, NEW n \in Int, NEW g \in Int, Placed(board, s, n, g)
  PROVE  Placed(board, Push(s), n + 1, g) /\ Placed(board, Pull(s), n - 1, g)
<1> DEFINE v == s.vfifo
           a == v * Period - board.gate - (n * Period - g)
           u == (v + 1) % VfifoSize
           w == (v + VfifoSize - 1) % VfifoSize
           b == u * Period - board.gate - ((n + 1) * Period - g)
           c == w * Period - board.gate - ((n - 1) * Period - g)
<1>1. v \in 0 .. VfifoSize - 1
  BY TimeIs
<1>2. a % Cycle = 0
  BY DEF Placed
<1>3. Push(s).vfifo = u /\ Pull(s).vfifo = w
  BY DEF Push, Pull, Settings
<1>4. /\ u * Period = IF v + 1 = VfifoSize THEN v * Period + Period - Cycle ELSE v * Period + Period
      /\ w * Period = IF v = 0 THEN v * Period - Period + Cycle ELSE v * Period - Period
  BY <1>1, PlaceTime, Zenon
<1>5. /\ Period \in Nat /\ board.gate \in Int /\ Cycle \in Nat \ {0}
  BY Clock, OpeningType
<1> HIDE DEF v, u, w
<1>6. /\ (n + 1) * Period = n * Period + Period /\ (n - 1) * Period = n * Period - Period
      /\ n * Period \in Int /\ v * Period \in Int
  BY <1>1, <1>5
<1> DEFINE np == n * Period
           vp == v * Period
           up == u * Period
           wp == w * Period
<1>7. a = vp - board.gate - (np - g) /\ vp \in Int /\ np \in Int
  BY <1>6
<1>8. b = up - board.gate - ((np + Period) - g) /\ c = wp - board.gate - ((np - Period) - g)
  BY <1>6, Zenon
<1>9. /\ up = IF v + 1 = VfifoSize THEN vp + Period - Cycle ELSE vp + Period
      /\ wp = IF v = 0 THEN vp - Period + Cycle ELSE vp - Period
  BY <1>4, Zenon
<1> HIDE DEF a, b, c, np, vp, up, wp
<1>10. a \in Int /\ (b = a \/ b = a - Cycle) /\ (c = a \/ c = a + Cycle)
  BY <1>5, <1>7, <1>8, <1>9
<1>11. b % Cycle = 0 /\ c % Cycle = 0
  BY <1>2, <1>5, <1>10, Turned
<1> QED
  BY <1>3, <1>11 DEF Placed, b, c

(* A rest after a move by less than the divisor.                              *)
LEMMA RestMoved ==
  ASSUME NEW c \in Nat \ {0}, NEW a \in Int, NEW p \in 0 .. c, NEW b \in Int,
         b = a + p \/ b = a + p - c
  PROVE  b % c = IF (a % c) + p < c THEN (a % c) + p ELSE (a % c) + p - c
<1> DEFINE r == a % c
           q == a \div c
<1>1. r \in 0 .. c - 1 /\ a = c * q + r /\ q \in Int
  BY Rest
<1> HIDE DEF r, q
<1> DEFINE k == IF b = a + p THEN q ELSE q - 1
           e == IF r + p < c THEN r + p ELSE r + p - c
           m == IF r + p < c THEN k ELSE k + 1
<1>2. c * (q - 1) = c * q - c /\ c * (q + 1) = c * q + c /\ c * q \in Int /\ q - 1 + 1 = q
  BY <1>1
<1>3. e \in 0 .. c - 1 /\ m \in Int
  BY <1>1
<1>4. b = c * m + e
  BY <1>1, <1>2
<1> HIDE DEF k, m
<1>5. b % c = e
  <2> HIDE DEF e
  <2> QED
    BY <1>3, <1>4, RestIs
<1> QED
  BY <1>5 DEF r

(* The next place of the FIFO opens the gate a clock later.                   *)
LEMMA PushedOffset ==
  ASSUME board \in Boards, NEW s \in Settings
  PROVE  LET x == Offset(board, s)
         IN  /\ x \in 0 .. Cycle - 1
             /\ Offset(board, Push(s)) = IF x + Period < Cycle THEN x + Period
                                         ELSE x + Period - Cycle
<1> DEFINE v == s.vfifo
           u == (v + 1) % VfifoSize
           a == GateTime(s) - board.gate
           b == GateTime(Push(s)) - board.gate
           r == s.enPhase * OpaTap + s.enDelay * EnTap
           vp == v * Period
           up == u * Period
<1>1. v \in 0 .. VfifoSize - 1 /\ GateTime(s) = vp + r /\ vp \in Int /\ r \in Int
  BY TimeIs
<1>2. Push(s).vfifo = u /\ Push(s).enPhase = s.enPhase /\ Push(s).enDelay = s.enDelay
  BY DEF Push, Settings
<1>3. up = vp + Period \/ up = vp + Period - Cycle
  BY <1>1, PlaceTime
<1>4. /\ Period \in 0 .. Cycle /\ Cycle \in Nat \ {0} /\ board.gate \in Int /\ Period \in Int
  BY Clock, OpeningType
<1>5. up \in Int
  <2> HIDE DEF up, vp
  <2> QED
    BY <1>1, <1>3, <1>4
<1>6. GateTime(Push(s)) = up + r
  <2>1. u \in Int
    <3>1. u = IF v + 1 = VfifoSize THEN 0 ELSE v + 1
      BY <1>1, PlaceMoved, Zenon
    <3> HIDE DEF u
    <3> QED
      BY <1>1, <3>1, Clock
  <2> HIDE DEF u
  <2>2. GateTime(Push(s)) = u * Period + s.enPhase * OpaTap + s.enDelay * EnTap
    BY <1>2 DEF GateTime
  <2>3. s.enPhase * OpaTap \in Int /\ s.enDelay * EnTap \in Int
    BY TimeIs
  <2> QED
    BY <1>5, <2>2, <2>3
<1> HIDE DEF up, vp, r
<1>7. a \in Int /\ b \in Int /\ (b = a + Period \/ b = a + Period - Cycle)
  BY <1>1, <1>3, <1>4, <1>5, <1>6
<1> HIDE DEF a, b
<1>8. b % Cycle = IF (a % Cycle) + Period < Cycle THEN (a % Cycle) + Period
                  ELSE (a % Cycle) + Period - Cycle
  BY <1>4, <1>7, RestMoved, Zenon
<1>9. (a % Cycle) \in 0 .. Cycle - 1
  BY <1>4, <1>7, Rest
<1>10. Offset(board, s) = a % Cycle /\ Offset(board, Push(s)) = b % Cycle
  BY DEF Offset, a, b
<1> QED
  BY <1>8, <1>9, <1>10

(* What a step goes on with is what the invariant is about.                   *)
LEMMA GotoSeen ==
  ASSUME NEW next, NEW s, NEW l, EnGoto(next, s, l), GateSeen(board, next, s, l, result)
  PROVE  GateSeen(board, step', phy', en', result')
BY DEF EnGoto

(* The opening lasts a clock to two, and the FIFO four clocks.                *)
LEMMA OpeningLength ==
  ASSUME OneOpening, board \in Boards
  PROVE  /\ board.gateLength \in Int /\ Period <= board.gateLength
         /\ board.gateLength <= 2 * Period - OpaTap - EnTap
BY OpeningType, Clock DEF OneOpening

(* Step 1 of the search: after the second place that fails, the opening that  *)
(* step 2 looks for has not been passed.                                      *)
LEMMA FailSeen ==
  ASSUME TypeOK, phy.mem = "open", OneOpening, FailSought(board, phy, en), EnSeekFail
  PROVE  GateSeen(board, step', phy', en', result')
<1> DEFINE fails == IF Passes(phy) THEN en.fails ELSE en.fails + 1
           n == [en EXCEPT !.v = @ + 1, !.fails = fails]
           b == [EnIdle EXCEPT !.p = 1]
           x == Offset(board, phy)
           y == Offset(board, Push(phy))
           L == board.gateLength
<1>1. board \in Boards /\ phy \in Settings /\ en \in Search /\ en.v \in Nat /\ en.fails \in Nat
  BY DEF TypeOK, Search
<1>2. Passes(phy) <=> x < L
  <2>1. OnlyGate(phy, phy)
    BY <1>1, Unmoved
  <2> QED
    BY <2>1, PassesInside
<1>3. x \in 0 .. Cycle - 1 /\ y = IF x + Period < Cycle THEN x + Period ELSE x + Period - Cycle
  BY <1>1, PushedOffset
<1>4. L \in Int /\ Period <= L /\ L <= 2 * Period - OpaTap - EnTap
  BY <1>1, OpeningLength
<1>5. n.v = en.v + 1 /\ n.fails = fails
  BY <1>1 DEF Search
<1>6. phy.enPhase = 1 /\ phy.enDelay = 0
      /\ Push(phy).enPhase = phy.enPhase /\ Push(phy).enDelay = phy.enDelay
  BY <1>1 DEF Push, Settings, FailSought
<1>7. \/ /\ en.fails = 0
         /\ \/ en.v = 0
            \/ en.v = 1 /\ Period <= x /\ x < L + Period
            \/ en.v = 2 /\ 2 * Period <= x /\ x < L + Period
      \/ /\ en.fails = 1
         /\ \/ en.v = 1
            \/ en.v = 2 /\ Period <= x /\ x < L + Period
            \/ en.v = 3 /\ 2 * Period <= x /\ x < L + Period
            \/ en.v \in {2, 3} /\ L + Period <= x /\ x < L + 2 * Period
  BY DEF FailSought
<1>8. \/ fails = 2 /\ EnGoto("en_begin", phy, b)
      \/ fails # 2 /\ EnGoto("en_fail", Push(phy), n)
      \/ fails # 2 /\ ~ (en.v + 1 < VfifoSize)
  BY Zenon DEF EnSeekFail
<1> HIDE DEF n, b, x, y
<1>9. CASE fails = 2 /\ EnGoto("en_begin", phy, b)
  <2> DEFINE g == OpaTap - x + Cycle
             a == GateTime(phy) - board.gate
             k == a \div Cycle
             vp == phy.vfifo * Period
  <2>1. L <= x
    BY <1>2, <1>3, <1>4, <1>7, <1>9
  <2>2. /\ OpaTap \in Int /\ Cycle \in Nat \ {0} /\ board.gate \in Int /\ Period \in Int
        /\ OpaTap > 0 /\ EnTap \in Int
    BY <1>1, Clock, OpeningType
  <2>3. GateTime(phy) = vp + OpaTap /\ vp \in Int
    <3>1. GateTime(phy) = vp + phy.enPhase * OpaTap + phy.enDelay * EnTap /\ vp \in Int
      BY <1>1, TimeIs
    <3> HIDE DEF vp
    <3> QED
      BY <1>6, <2>2, <3>1
  <2> HIDE DEF vp
  <2>4. a \in Int /\ a = vp + OpaTap - board.gate
    BY <2>2, <2>3
  <2> HIDE DEF a
  <2>5. a = Cycle * k + x /\ k \in Int
    <3>1. x = a % Cycle
      BY DEF x, a, Offset
    <3> QED
      BY <2>2, <2>4, <3>1, Rest
  <2> HIDE DEF k
  <2>6. vp - board.gate - (0 * Period - g) = Cycle * (k + 1) + 0 /\ g \in Int
    BY <1>3, <2>2, <2>3, <2>4, <2>5
  <2>7. Placed(board, phy, 0, g)
    <3>1. vp - board.gate - (0 * Period - g) \in Int /\ 0 \in 0 .. Cycle - 1 /\ k + 1 \in Int
      BY <1>3, <2>2, <2>3, <2>5
    <3>2. (vp - board.gate - (0 * Period - g)) % Cycle = 0
      BY <2>2, <2>6, <3>1, RestIs
    <3> QED
      BY <3>2 DEF Placed, vp
  <2>8. b.i = 0 /\ b.p = 1 /\ b.d = 0
    BY DEF b, EnIdle
  <2>9. Elapsed(0, 1, 0) = OpaTap
    BY <2>2, Clock DEF Elapsed
  <2>10. g + L <= Cycle + OpaTap /\ L - Cycle <= OpaTap - g /\ OpaTap - g < 2 * OpaTap
    BY <1>3, <1>4, <2>1, <2>2
  <2>11. BeginSought(board, phy, b)
    <3> HIDE DEF g
    <3> QED
      BY <2>6, <2>7, <2>8, <2>9, <2>10 DEF BeginSought, Within
  <2>12. GateSeen(board, "en_begin", phy, b, result)
    BY <2>11 DEF GateSeen
  <2> QED
    BY <1>9, <2>12, GotoSeen
<1>10. CASE fails # 2 /\ EnGoto("en_fail", Push(phy), n)
  <2>1. Period \in Nat \ {0} /\ 4 * Period <= Cycle /\ OpaTap \in Nat /\ EnTap \in Nat /\ Cycle \in Nat
    BY Clock
  <2>2. /\ n.fails = 0 \/ n.fails = 1
        /\ \/ /\ n.fails = 0
              /\ \/ n.v = 0
                 \/ n.v = 1 /\ Period <= y /\ y < L + Period
                 \/ n.v = 2 /\ 2 * Period <= y /\ y < L + Period
           \/ /\ n.fails = 1
              /\ \/ n.v = 1
                 \/ n.v = 2 /\ Period <= y /\ y < L + Period
                 \/ n.v = 3 /\ 2 * Period <= y /\ y < L + Period
                 \/ n.v \in {2, 3} /\ L + Period <= y /\ y < L + 2 * Period
    BY <1>1, <1>2, <1>3, <1>4, <1>5, <1>7, <1>10, <2>1
  <2>3. FailSought(board, Push(phy), n)
    BY <1>6, <2>2 DEF FailSought, y
  <2>4. GateSeen(board, "en_fail", Push(phy), n, result)
    BY <2>3 DEF GateSeen
  <2> QED
    BY <1>10, <2>4, GotoSeen
<1>11. CASE fails # 2 /\ ~ (en.v + 1 < VfifoSize)
  <2>1. Period \in Nat \ {0} /\ OpaTap \in Nat /\ EnTap \in Nat /\ VfifoSize >= 4 /\ VfifoSize \in Nat
    BY Clock
  <2> QED
    BY <1>1, <1>2, <1>3, <1>4, <1>7, <1>11, <2>1
<1> QED
  BY <1>8, <1>9, <1>10, <1>11

(* The time of a setting some taps later.                                     *)
LEMMA ElapsedTaps ==
  ASSUME NEW n \in Int, NEW p \in Int, NEW d \in Int
  PROVE  /\ Elapsed(n, p, d) = Elapsed(n, p, 0) + d * EnTap
         /\ Elapsed(n, p, 0) \in Int /\ Elapsed(n, p, d) \in Int /\ d * EnTap \in Int
<1>1. 0 * EnTap = 0 /\ 0 \in Int
  BY Clock
<1>2. Elapsed(n, p, 0) = n * Period + p * OpaTap + 0 * EnTap
  BY <1>1, ElapsedIs
<1>3. Elapsed(n, p, d) = n * Period + p * OpaTap + d * EnTap
  BY ElapsedIs
<1>4. n * Period \in Int /\ p * OpaTap \in Int /\ d * EnTap \in Int
  BY ElapsedIs
<1> QED
  BY <1>1, <1>2, <1>3, <1>4

(* The time of a setting one phase later and, around the FIFO, two.           *)
LEMMA ElapsedNext ==
  ASSUME NEW n \in Int, NEW p \in Int, NEW d \in Int
  PROVE  /\ Elapsed(n, p + 1, d) = Elapsed(n, p, d) + OpaTap
         /\ Elapsed(n, p - 1, d) = Elapsed(n, p, d) - OpaTap
         /\ Elapsed(n, PhaseMax + 1, d) = Elapsed(n + 1, 0, d)
         /\ Elapsed(n + 1, 0, d) = Elapsed(n, PhaseMax, d) + OpaTap
         /\ Elapsed(n + 1, 1, d) = Elapsed(n, PhaseMax, d) + 2 * OpaTap
         /\ Elapsed(n, p, d) \in Int
<1> DEFINE np == n * Period
           po == p * OpaTap
           dt == d * EnTap
<1>1. /\ OpaTap \in Int /\ EnTap \in Int /\ PhaseMax \in Int /\ Period \in Int
      /\ PhaseMax * OpaTap = Period - OpaTap
  BY Clock
<1>2. /\ np \in Int /\ po \in Int /\ dt \in Int
      /\ (p + 1) * OpaTap = po + OpaTap
      /\ (p - 1) * OpaTap = po - OpaTap /\ (n + 1) * Period = np + Period
      /\ (PhaseMax + 1) * OpaTap = Period /\ 0 * OpaTap = 0 /\ 1 * OpaTap = OpaTap
  BY <1>1
<1>3. /\ d + 1 \in Int /\ p + 1 \in Int /\ p - 1 \in Int /\ n + 1 \in Int /\ PhaseMax + 1 \in Int
      /\ 0 \in Int /\ 1 \in Int
  BY <1>1
<1>4. Elapsed(n, p, d) = np + po + dt
  BY <1>1, <1>3, ElapsedIs
<1>5. /\ Elapsed(n, p + 1, d) = np + (p + 1) * OpaTap + dt
      /\ Elapsed(n, p - 1, d) = np + (p - 1) * OpaTap + dt
  BY <1>1, <1>3, ElapsedIs
<1>6. /\ Elapsed(n, PhaseMax + 1, d) = np + (PhaseMax + 1) * OpaTap + dt
      /\ Elapsed(n, PhaseMax, d) = np + PhaseMax * OpaTap + dt
  BY <1>1, <1>3, ElapsedIs
<1>7. /\ Elapsed(n + 1, 0, d) = (n + 1) * Period + 0 * OpaTap + dt
      /\ Elapsed(n + 1, 1, d) = (n + 1) * Period + 1 * OpaTap + dt
  BY <1>1, <1>3, ElapsedIs
<1> HIDE DEF np, po, dt
<1> QED
  BY <1>1, <1>2, <1>4, <1>5, <1>6, <1>7

(* The order of two places is that of their times.                            *)
LEMMA Below ==
  ASSUME NEW i \in Int, NEW v \in Int, i * Period < v * Period
  PROVE  i < v
<1>1. Period \in Nat
  BY Clock
<1> SUFFICES ASSUME i >= v PROVE FALSE
  OBVIOUS
<1>2. (i - v) * Period >= 0 /\ (i - v) * Period = i * Period - v * Period
  BY <1>1
<1> QED
  BY <1>1, <1>2

(* Step 2: the first phase that passes is less than a phase into the opening, *)
(* or less than two when it is phase 1.                                       *)
LEMMA BeginSeen ==
  ASSUME TypeOK, GateSearch, phy.mem = "open", OneOpening, BeginSought(board, phy, en), EnSeekBegin
  PROVE  GateSeen(board, step', phy', en', result')
<1> DEFINE s == [phy EXCEPT !.enPhase = en.p, !.enDelay = en.d]
           at == Elapsed(en.i, en.p, en.d)
           i == en.i
           p == en.p
           q == IF en.p = 1 THEN 1 ELSE en.p - 1
           t == IF en.p = 1 THEN at ELSE at - OpaTap
           l == [en EXCEPT !.p = q, !.bgn = at, !.end = at, !.tmp = t]
           n == [en EXCEPT !.p = @ + 1]
           m == [en EXCEPT !.i = @ + 1, !.p = 1]
           L == board.gateLength
<1>1. /\ board \in Boards /\ phy \in Settings /\ en \in Search /\ en.i \in Nat
      /\ step = "en_begin"
  BY DEF TypeOK, Search, EnSeekBegin
<1>2. en.p \in 1 .. PhaseMax
  <2>1. en.p \in 0 .. PhaseMax /\ en.p >= 1
    BY <1>1 DEF Search, GateSearch, EnReady
  <2> QED
    BY <2>1, Constants
<1>3. PICK g \in Int :
        /\ Placed(board, phy, en.i, g) /\ g + L <= Cycle + OpaTap /\ en.d = 0
        /\ L - Cycle <= Elapsed(en.i, en.p, 0) - g
        /\ Elapsed(en.i, en.p, 0) - g < IF en.p = 1 THEN 2 * OpaTap ELSE OpaTap
  BY DEF BeginSought, Within
<1> DEFINE x == at - g
<1>4. /\ L \in Int /\ Period <= L /\ L <= 2 * Period - OpaTap - EnTap
  BY <1>1, OpeningLength
<1>5. /\ Period \in Nat /\ Cycle \in Nat /\ OpaTap \in Nat \ {0} /\ EnTap \in Nat /\ PhaseMax \in Nat
      /\ PhaseMax >= 3 /\ 4 * OpaTap <= Period /\ 4 * Period <= Cycle /\ VfifoSize \in Nat
      /\ Cycle = VfifoSize * Period
  BY Clock
<1>6. /\ at = Elapsed(i, p, 0) /\ i \in Nat /\ p \in 1 .. PhaseMax
  BY <1>1, <1>2, <1>3
<1>7. at \in Int /\ x \in Int
  <2> HIDE DEF i, p
  <2>1. Elapsed(i, p, 0) \in Int
    BY <1>5, <1>6, ElapsedIs
  <2> QED
    BY <1>6, <2>1
<1>8. L - Cycle <= x /\ x < 2 * OpaTap /\ (en.p # 1 => x < OpaTap)
  <2>1. at = Elapsed(en.i, en.p, 0)
    BY <1>3
  <2> HIDE DEF at
  <2> QED
    BY <1>3, <1>5, <1>7, <2>1
<1>9. s \in Settings /\ OnlyGate(phy, s)
  <2>1. en.p \in 0 .. PhaseMax /\ en.d \in 0 .. EnDelayMax
    BY <1>2, <1>3, Constants
  <2>2. OnlyGate(phy, [phy EXCEPT !.enPhase = en.p])
    BY <1>1, <2>1, Unmoved, PhaseSet
  <2>3. OnlyGate(phy, [[phy EXCEPT !.enPhase = en.p] EXCEPT !.enDelay = en.d])
    BY <2>1, <2>2, TapSet, Zenon
  <2>4. OnlyGate(phy, s)
    BY <2>3
  <2> QED
    BY <2>4 DEF OnlyGate
<1>10. s.vfifo = phy.vfifo /\ s.enPhase = en.p /\ s.enDelay = en.d
  BY <1>1 DEF Settings
<1> HIDE DEF s
<1>11. Placed(board, s, en.i, g)
  BY <1>3, <1>10, SamePlace
<1>12. x = Elapsed(en.i, s.enPhase, s.enDelay) - g
  BY <1>10
<1>13. Passes(s) <=> 0 <= x /\ x < L
  <2>1. x < Cycle
    <3> HIDE DEF x
    <3> QED
      BY <1>5, <1>7, <1>8
  <2> HIDE DEF x
  <2> QED
    BY <1>1, <1>3, <1>7, <1>8, <1>9, <1>11, <1>12, <2>1, PassesThere
<1>14. \/ Passes(s) /\ EnGoto("en_left", [s EXCEPT !.enPhase = q], l)
       \/ en.d > 0
       \/ ~ Passes(s) /\ en.p < PhaseMax /\ EnGoto("en_begin", s, n)
       \/ ~ Passes(s) /\ en.p = PhaseMax /\ en.i + 1 < VfifoSize /\ EnGoto("en_begin", Push(s), m)
       \/ ~ Passes(s) /\ en.p = PhaseMax /\ ~ (en.i + 1 < VfifoSize)
  BY Zenon DEF EnSeekBegin, s
<1>15. /\ Elapsed(en.i, en.p + 1, 0) = at + OpaTap /\ at = Elapsed(en.i, en.p, 0)
       /\ en.p = PhaseMax => Elapsed(en.i + 1, 1, 0) = at + 2 * OpaTap
  <2> HIDE DEF i, p, at
  <2>1. /\ Elapsed(i, p + 1, 0) = at + OpaTap /\ at = Elapsed(i, p, 0)
        /\ p = PhaseMax => Elapsed(i + 1, 1, 0) = at + 2 * OpaTap
    BY <1>5, <1>6, ElapsedNext
  <2> QED
    BY <2>1 DEF i, p
<1> HIDE DEF at, q, t
<1>16. CASE Passes(s) /\ EnGoto("en_left", [s EXCEPT !.enPhase = q], l)
  <2> DEFINE u == [s EXCEPT !.enPhase = q]
  <2>1. u.vfifo = s.vfifo /\ u.enPhase = q
    BY <1>9 DEF Settings
  <2>2. l.p = q /\ l.bgn = at /\ l.end = at /\ l.tmp = t /\ l.i = en.i /\ l.d = 0
    BY <1>1, <1>3 DEF Search
  <2> HIDE DEF u, l
  <2>3. Placed(board, u, l.i, g)
    BY <1>11, <2>1, <2>2, SamePlace
  <2>4. x \in 0 .. 2 * OpaTap - 1 /\ (en.p # 1 => x \in 0 .. OpaTap - 1)
    BY <1>5, <1>7, <1>8, <1>13, <1>16
  <2>5. CASE en.p = 1
    <3>1. q = 1 /\ t = at /\ at = Elapsed(en.i, 1, 0)
      BY <1>15, <2>5 DEF q, t
    <3> QED
      BY <1>3, <2>1, <2>2, <2>3, <2>4, <3>1, <1>16, GotoSeen DEF LeftSought, Within, GateSeen, u
  <2>6. CASE en.p # 1
    <3>1. q = en.p - 1 /\ t = at - OpaTap
      BY <2>6 DEF q, t
    <3>2. q \in 1 .. PhaseMax - 1 /\ at = Elapsed(en.i, q + 1, 0)
      <4>1. q + 1 = en.p /\ q \in 1 .. PhaseMax - 1
        BY <1>2, <1>5, <2>6, <3>1
      <4> QED
        BY <1>15, <4>1
    <3>3. t = at - OpaTap + 0 * EnTap
      BY <1>5, <1>7, <3>1
    <3>4. LeftSought(board, u, l)
      <4>1. ~ (l.d > 0) /\ l.tmp = l.bgn - OpaTap + l.d * EnTap
        BY <2>2, <3>3
      <4>2. l.bgn - g \in 0 .. OpaTap - 1 /\ l.bgn = Elapsed(l.i, l.p + 1, 0)
            /\ l.p \in 1 .. PhaseMax - 1 /\ u.enPhase = l.p /\ l.end = l.bgn
        BY <2>1, <2>2, <2>4, <2>6, <3>2
      <4> QED
        BY <1>3, <2>3, <4>1, <4>2 DEF LeftSought, Within
    <3>5. GateSeen(board, "en_left", u, l, result)
      BY <3>4 DEF GateSeen
    <3> QED
      BY <1>16, <3>5, GotoSeen DEF u
  <2> QED
    BY <2>5, <2>6
<1>17. CASE ~ Passes(s) /\ en.p < PhaseMax /\ EnGoto("en_begin", s, n)
  <2>1. n.p = en.p + 1 /\ n.i = en.i /\ n.d = 0
    BY <1>1, <1>3 DEF Search
  <2> HIDE DEF n
  <2>2. x < 0
    BY <1>4, <1>5, <1>7, <1>8, <1>13, <1>17
  <2>3. n.p # 1
    BY <1>2, <2>1
  <2>4. Elapsed(n.i, n.p, 0) - g = x + OpaTap
    BY <1>5, <1>7, <1>15, <2>1
  <2>5. L - Cycle <= Elapsed(n.i, n.p, 0) - g /\ Elapsed(n.i, n.p, 0) - g < OpaTap
    BY <1>4, <1>5, <1>7, <1>8, <2>2, <2>4
  <2>6. BeginSought(board, s, n)
    BY <1>3, <1>11, <2>1, <2>3, <2>5 DEF BeginSought, Within
  <2>7. GateSeen(board, "en_begin", s, n, result)
    BY <2>6 DEF GateSeen
  <2> QED
    BY <1>17, <2>7, GotoSeen
<1>18. CASE ~ Passes(s) /\ en.p = PhaseMax /\ en.i + 1 < VfifoSize /\ EnGoto("en_begin", Push(s), m)
  <2>1. m.p = 1 /\ m.i = en.i + 1 /\ m.d = 0
    BY <1>1, <1>3 DEF Search
  <2> HIDE DEF m
  <2>2. x < 0
    BY <1>4, <1>5, <1>7, <1>8, <1>13, <1>18
  <2>3. Placed(board, Push(s), m.i, g)
    <3>1. en.i \in Int
      BY <1>1
    <3> QED
      BY <1>1, <1>9, <1>11, <2>1, <3>1, NextPlace
  <2>4. Elapsed(m.i, m.p, 0) - g = x + 2 * OpaTap
    BY <1>5, <1>7, <1>15, <1>18, <2>1
  <2>5. L - Cycle <= Elapsed(m.i, m.p, 0) - g /\ Elapsed(m.i, m.p, 0) - g < 2 * OpaTap
    BY <1>4, <1>5, <1>7, <1>8, <2>2, <2>4
  <2>6. BeginSought(board, Push(s), m)
    BY <1>3, <2>1, <2>3, <2>5 DEF BeginSought, Within
  <2>7. GateSeen(board, "en_begin", Push(s), m, result)
    BY <2>6 DEF GateSeen
  <2> QED
    BY <1>18, <2>7, GotoSeen
<1>19. CASE ~ Passes(s) /\ en.p = PhaseMax /\ ~ (en.i + 1 < VfifoSize)
  <2>1. x < 0
    BY <1>4, <1>5, <1>7, <1>8, <1>13, <1>19
  <2>2. at = en.i * Period + PhaseMax * OpaTap + 0 * EnTap /\ en.i * Period \in Int
    <3>1. p = PhaseMax
      BY <1>19
    <3> HIDE DEF i, p
    <3>2. at = i * Period + PhaseMax * OpaTap + 0 * EnTap /\ i * Period \in Int
      BY <1>5, <1>6, <3>1, ElapsedIs
    <3> QED
      BY <3>2 DEF i
  <2>3. PhaseMax * OpaTap = Period - OpaTap /\ 0 * EnTap = 0
    BY Clock
  <2>4. (VfifoSize - 1) * Period = Cycle - Period
    BY <1>5
  <2>5. en.i * Period < (VfifoSize - 1) * Period
    BY <1>3, <1>4, <1>5, <1>7, <2>1, <2>2, <2>3, <2>4
  <2>6. en.i < VfifoSize - 1
    <3>1. en.i \in Int /\ VfifoSize - 1 \in Int
      BY <1>1, <1>5
    <3> QED
      BY <2>5, <3>1, Below
  <2> QED
    BY <1>1, <1>5, <1>19, <2>6
<1> QED
  BY <1>3, <1>14, <1>16, <1>17, <1>18, <1>19

(* Going on after the left edge: step 4a starts from the phase that passed    *)
(* and may be the next place of the FIFO.                                     *)
LEMMA ForwardSeen ==
  ASSUME TypeOK, OneOpening, en.p \in 1 .. PhaseMax - 1, NEW s \in Settings, NEW g \in Int,
         Within(board, s, en.i, g), NEW bgn \in Int, NEW q \in 1 .. PhaseMax,
         NEW lag \in {0, OpaTap}, Found(g, en.i, q, lag, bgn),
         en.end + OpaTap + lag = Elapsed(en.i, en.p + 2, 0),
         OpaTap <= en.end + OpaTap + lag - g,
         en.end + OpaTap + lag - g < board.gateLength,
         EnForward(s, bgn)
  PROVE  GateSeen(board, step', phy', en', result')
<1> DEFINE p == en.p + 2
           r == p % (PhaseMax + 1)
           t == IF p > PhaseMax THEN Push(s) ELSE s
           u == [t EXCEPT !.enDelay = 0]
           i == en.i
           c == en.end + OpaTap
           l == [en EXCEPT !.p = r, !.bgn = bgn, !.end = c, !.d = 0, !.tmp = 0, !.first = TRUE]
           n == IF p > PhaseMax THEN i + 1 ELSE i
           L == board.gateLength
<1>1. board \in Boards /\ en \in Search /\ i \in Nat /\ i \in Int /\ en.end \in Int
  BY DEF TypeOK, Search
<1>2. PhaseMax \in Nat /\ PhaseMax >= 3 /\ OpaTap \in Nat \ {0}
  BY Clock
<1>3. Placed(board, s, i, g) /\ g + L <= Cycle + OpaTap
  BY DEF Within
<1>4. p \in Int /\ p >= 3 /\ p <= PhaseMax + 1
  BY <1>2
<1>5. r = IF p > PhaseMax THEN 0 ELSE p
  <2> HIDE DEF p
  <2> DEFINE e == PhaseMax + 1
  <2>1. e \in Nat \ {0} /\ 0 <= p /\ p <= e /\ p \in Int
    BY <1>2, <1>4
  <2>2. p > PhaseMax <=> p = e
    BY <1>2, <1>4
  <2> HIDE DEF e, p
  <2>3. p < e => p % e = p
    BY <2>1, RestNear, Zenon
  <2>4. p = e => p % e = 0
    BY <2>1
  <2>5. p % e = IF p = e THEN 0 ELSE p
    BY <2>1, <2>3, <2>4
  <2> QED
    BY <2>2, <2>5 DEF e
<1>6. EnGoto("en_end", u, l)
  BY Zenon DEF EnForward
<1>7. l.p = r /\ l.bgn = bgn /\ l.end = c /\ l.first = TRUE /\ l.i = i
  BY <1>1 DEF Search
<1>8. u.vfifo = t.vfifo /\ u.enDelay = 0
  <2>1. t \in Settings
    <3>1. Push(s) \in Settings
      <4>1. OnlyGate(s, Push(s))
        BY Unmoved, Pushed
      <4> QED
        BY <4>1 DEF OnlyGate
    <3> QED
      BY <3>1
  <2> QED
    BY <2>1 DEF Settings
<1> HIDE DEF u, l, r, i
<1>9. Placed(board, t, n, g)
  <2>1. Placed(board, Push(s), i + 1, g)
    BY <1>1, <1>3, NextPlace
  <2> QED
    BY <1>3, <2>1
<1>10. Placed(board, u, n, g)
  BY <1>8, <1>9, SamePlace
<1>11. c + lag = Elapsed(n, r, 0)
  <2>1. c + lag = Elapsed(i, p, 0)
    BY DEF i
  <2>2. Elapsed(i, PhaseMax + 1, 0) = Elapsed(i + 1, 0, 0)
    BY <1>1, <1>2, ElapsedNext
  <2> HIDE DEF c, p
  <2>3. CASE p > PhaseMax
    <3>1. p = PhaseMax + 1 /\ n = i + 1 /\ r = 0
      BY <1>2, <1>4, <1>5, <2>3
    <3> QED
      BY <2>1, <2>2, <3>1
  <2>4. CASE ~ (p > PhaseMax)
    BY <1>5, <2>1, <2>4
  <2> QED
    BY <2>3, <2>4
<1>12. /\ OpaTap <= c + lag - g /\ c + lag - g < L /\ r # 1 /\ c \in Int /\ lag \in Int
  <2>1. r # 1
    BY <1>4, <1>5
  <2> QED
    BY <1>1, <1>2, <2>1
<1>13. n \in Int /\ i <= n
  BY <1>1
<1>14. L \in Int /\ c + lag - g - OpaTap < L
  BY <1>1, <1>2, <1>12, OpeningType
<1>15. Found(g, i, q, lag, bgn)
  BY DEF i
<1> HIDE DEF c, n, p, t
<1>16. EndAt(board, u, l, g, n, i, q, lag)
  <2>1. /\ Within(board, u, n, g) /\ Found(g, i, q, lag, l.bgn) /\ l.i <= n /\ u.enDelay = 0
        /\ l.end + lag = Elapsed(n, l.p, 0)
        /\ OpaTap <= l.end + lag - g /\ l.p # 1
        /\ l.end + lag - g - OpaTap < L /\ l.end + lag - g < L
    BY <1>3, <1>7, <1>8, <1>10, <1>11, <1>12, <1>13, <1>14, <1>15 DEF Within
  <2> QED
    BY <1>2, <1>7, <1>12, <1>14, <2>1 DEF EndAt
<1>17. GateSeen(board, "en_end", u, l, result)
  BY <1>1, <1>13, <1>16 DEF GateSeen, EndSought
<1> QED
  BY <1>6, <1>17, GotoSeen

(* Step 3a: the exact left edge is less than a tap into the opening, or is    *)
(* the first phase itself when that is phase 1.                               *)
LEMMA LeftEdgeSeen ==
  ASSUME TypeOK, phy.mem = "open", OneOpening, LeftSought(board, phy, en), EnSeekLeft
  PROVE  GateSeen(board, step', phy', en', result')
<1> DEFINE s == [phy EXCEPT !.enDelay = en.d]
           l == [en EXCEPT !.d = @ + 1, !.tmp = @ + EnTap]
           more == en.d <= EnDelayMax /\ en.tmp < en.bgn
           L == board.gateLength
           i == en.i
           p == en.p
           d == en.d
           dt == d * EnTap
<1>1. /\ board \in Boards /\ phy \in Settings /\ en \in Search /\ i \in Int
      /\ d \in Nat /\ en.tmp \in Int /\ en.bgn \in Int /\ en.end \in Int
  BY DEF TypeOK, Search
<1>2. PICK g \in Int :
        /\ Within(board, phy, i, g) /\ phy.enPhase = p /\ en.end = en.bgn
        /\ \/ /\ p = 1 /\ en.bgn = Elapsed(i, 1, 0) /\ en.tmp = en.bgn
              /\ en.bgn - g \in 0 .. 2 * OpaTap - 1
           \/ /\ p \in 1 .. PhaseMax - 1 /\ en.bgn = Elapsed(i, p + 1, 0)
              /\ en.bgn - g \in 0 .. OpaTap - 1
              /\ en.tmp = en.bgn - OpaTap + dt
              /\ d > 0 => en.tmp - EnTap < g
  BY DEF LeftSought
<1>3. /\ L \in Int /\ Period <= L /\ L <= 2 * Period - OpaTap - EnTap
  BY <1>1, OpeningLength
<1>4. /\ Period \in Nat /\ Cycle \in Nat /\ OpaTap \in Nat \ {0} /\ EnTap \in Nat \ {0}
      /\ PhaseMax \in Nat /\ PhaseMax >= 3 /\ 4 * OpaTap <= Period /\ 4 * Period <= Cycle
      /\ EnDelayMax \in Nat /\ EnDelayMax * EnTap >= OpaTap /\ 2 * EnTap <= OpaTap
  BY Clock
<1>5. p \in 1 .. PhaseMax - 1 /\ p \in Int
  BY <1>2, <1>4
<1>6. \/ more /\ ~ Passes(s) /\ EnGoto("en_left", s, l)
      \/ more /\ Passes(s) /\ EnForward(s, en.tmp)
      \/ ~ more /\ EnForward(phy, en.bgn)
  BY Zenon DEF EnSeekLeft
<1>7. /\ Elapsed(i, 3, 0) = Elapsed(i, 1, 0) + 2 * OpaTap
      /\ Elapsed(i, p + 2, 0) = Elapsed(i, p + 1, 0) + OpaTap
      /\ Elapsed(i, p + 1, 0) = Elapsed(i, p, d) - dt + OpaTap
      /\ Elapsed(i, p + 1, 0) \in Int /\ Elapsed(i, 1, 0) \in Int /\ Elapsed(i, p, d) \in Int
  <2> HIDE DEF i, p, d
  <2>1. Elapsed(i, 1, 0) = i * Period + 1 * OpaTap + 0 * EnTap
    BY <1>1, ElapsedIs
  <2>2. i * Period \in Int
    BY <1>1, <1>4
  <2>3. Elapsed(i, 3, 0) = i * Period + 3 * OpaTap + 0 * EnTap
    BY <1>1, ElapsedIs
  <2>4. i \in Int /\ p \in Int /\ d \in Int /\ p + 1 \in Int /\ p + 1 + 1 = p + 2
    BY <1>1, <1>5
  <2>5. Elapsed(i, p + 1 + 1, 0) = Elapsed(i, p + 1, 0) + OpaTap /\ Elapsed(i, p + 1, 0) \in Int
    BY <2>4, ElapsedNext
  <2>6. Elapsed(i, p + 1, 0) = Elapsed(i, p, 0) + OpaTap
    BY <2>4, ElapsedNext
  <2>7. /\ Elapsed(i, p, d) = Elapsed(i, p, 0) + dt /\ dt \in Int
        /\ Elapsed(i, p, 0) \in Int /\ Elapsed(i, p, d) \in Int
    BY <2>4, ElapsedTaps
  <2>8. Elapsed(i, 3, 0) = Elapsed(i, 1, 0) + 2 * OpaTap /\ Elapsed(i, 1, 0) \in Int
    BY <1>4, <2>1, <2>3, <2>2
  <2> HIDE DEF dt
  <2> QED
    BY <1>4, <2>4, <2>5, <2>6, <2>7, <2>8
<1>8. CASE p = 1 /\ en.bgn = Elapsed(i, 1, 0) /\ en.tmp = en.bgn /\ en.bgn - g \in 0 .. 2 * OpaTap - 1
  <2>1. EnForward(phy, en.bgn)
    BY <1>1, <1>6, <1>8
  <2>2. Found(g, i, 1, OpaTap, en.bgn)
    BY <1>8 DEF Found
  <2>3. en.end + OpaTap + OpaTap = Elapsed(i, p + 2, 0)
    <3>1. p + 2 = 3
      BY <1>8
    <3> HIDE DEF p
    <3> QED
      BY <1>1, <1>2, <1>4, <1>7, <1>8, <3>1
  <2>4. OpaTap <= en.end + OpaTap + OpaTap - g /\ en.end + OpaTap + OpaTap - g < L
    BY <1>1, <1>2, <1>3, <1>4, <1>8
  <2>5. 1 \in 1 .. PhaseMax /\ OpaTap \in {0, OpaTap}
    BY <1>4
  <2> QED
    BY <1>1, <1>2, <1>5, <2>1, <2>2, <2>3, <2>4, <2>5, ForwardSeen
<1>9. CASE /\ en.bgn = Elapsed(i, p + 1, 0) /\ en.bgn - g \in 0 .. OpaTap - 1
           /\ en.tmp = en.bgn - OpaTap + dt
           /\ d > 0 => en.tmp - EnTap < g
  <2> DEFINE x == en.tmp - g
  <2>1. dt \in Nat /\ x \in Int /\ en.tmp = Elapsed(i, p, d) /\ - OpaTap <= x
    <3>1. dt \in Nat
      BY <1>1, <1>4
    <3> HIDE DEF dt
    <3> QED
      BY <1>1, <1>4, <1>7, <1>9, <3>1
  <2>2. ASSUME more
        PROVE  s \in Settings /\ (Passes(s) <=> 0 <= x) /\ Within(board, s, i, g)
    <3>1. d \in 0 .. EnDelayMax
      BY <1>1, <1>4, <2>2
    <3>2. s \in Settings /\ OnlyGate(phy, s) /\ s.vfifo = phy.vfifo /\ s.enPhase = p /\ s.enDelay = d
      <4>1. OnlyGate(phy, s)
        BY <1>1, <3>1, Unmoved, TapSet
      <4> QED
        BY <1>1, <1>2, <4>1 DEF OnlyGate, Settings
    <3> HIDE DEF s
    <3>3. Placed(board, s, i, g) /\ Within(board, s, i, g)
      BY <1>2, <3>2, SamePlace DEF Within
    <3>4. x < OpaTap /\ L - Cycle <= x /\ x < Cycle /\ x < L
      BY <1>1, <1>3, <1>4, <1>9, <2>1, <2>2
    <3>5. x = Elapsed(i, s.enPhase, s.enDelay) - g
      BY <2>1, <3>2
    <3> HIDE DEF x, i
    <3>6. Passes(s) <=> 0 <= x /\ x < L
      BY <1>1, <2>1, <3>2, <3>3, <3>4, <3>5, PassesThere
    <3> QED
      BY <3>2, <3>3, <3>4, <3>6
  <2>3. ASSUME NEW v \in Settings, NEW b \in Int, Within(board, v, i, g), EnForward(v, b),
               b - g \in 0 .. EnTap - 1, b <= en.bgn
        PROVE  GateSeen(board, step', phy', en', result')
    <3>1. Found(g, i, p + 1, 0, b) /\ p + 1 \in 1 .. PhaseMax
      <4>1. p + 1 \in 2 .. PhaseMax /\ p + 1 \in 1 .. PhaseMax
        BY <1>4, <1>5
      <4> HIDE DEF p
      <4> QED
        BY <1>9, <2>3, <4>1 DEF Found
    <3>2. en.end + OpaTap + 0 = Elapsed(i, p + 2, 0)
      <4> HIDE DEF p, i, dt
      <4> QED
        BY <1>1, <1>2, <1>4, <1>7, <1>9
    <3>3. OpaTap <= en.end + OpaTap + 0 - g /\ en.end + OpaTap + 0 - g < L
      BY <1>1, <1>2, <1>3, <1>4, <1>9
    <3>4. 0 \in {0, OpaTap}
      OBVIOUS
    <3> QED
      BY <1>1, <1>5, <2>3, <3>1, <3>2, <3>3, <3>4, ForwardSeen
  <2>4. CASE more /\ ~ Passes(s) /\ EnGoto("en_left", s, l)
    <3>1. l.d = d + 1 /\ l.tmp = en.tmp + EnTap /\ l.p = p /\ l.i = i /\ l.bgn = en.bgn
          /\ l.end = en.end
      BY <1>1 DEF Search
    <3>2. s.enPhase = p
      BY <1>1, <1>2 DEF Settings
    <3>3. Within(board, s, i, g) /\ x < 0
      BY <2>1, <2>2, <2>4
    <3>4. l.tmp = l.bgn - OpaTap + l.d * EnTap /\ l.tmp - EnTap < g
      <4>1. (d + 1) * EnTap = dt + EnTap /\ dt \in Int
        BY <1>1, <1>4
      <4> HIDE DEF dt, l
      <4> QED
        BY <1>1, <1>4, <1>9, <3>1, <3>3, <4>1
    <3> HIDE DEF l, s
    <3>5. LeftSought(board, s, l)
      <4>1. /\ Within(board, s, l.i, g) /\ s.enPhase = l.p /\ l.end = l.bgn
            /\ l.p \in 1 .. PhaseMax - 1 /\ l.bgn = Elapsed(l.i, l.p + 1, 0)
            /\ l.bgn - g \in 0 .. OpaTap - 1
            /\ l.tmp = l.bgn - OpaTap + l.d * EnTap
            /\ l.d > 0 => l.tmp - EnTap < g
        BY <1>2, <1>5, <1>9, <3>1, <3>2, <3>3, <3>4
      <4> QED
        BY <4>1, Zenon DEF LeftSought
    <3>6. GateSeen(board, "en_left", s, l, result)
      BY <3>5 DEF GateSeen
    <3> QED
      BY <2>4, <3>6, GotoSeen
  <2>5. CASE more /\ Passes(s) /\ EnForward(s, en.tmp)
    <3>1. s \in Settings /\ Within(board, s, i, g) /\ 0 <= x
      BY <2>2, <2>5
    <3>2. en.tmp - g \in 0 .. EnTap - 1 /\ en.tmp <= en.bgn
      <4>1. d = 0 => dt = 0
        BY <1>4
      <4> HIDE DEF dt
      <4> QED
        BY <1>1, <1>4, <1>9, <2>1, <2>5, <3>1, <4>1
    <3> HIDE DEF s
    <3> QED
      BY <1>1, <2>3, <2>5, <3>1, <3>2
  <2>6. CASE ~ more /\ EnForward(phy, en.bgn)
    <3>1. en.tmp >= en.bgn /\ dt >= OpaTap
      <4>1. d > EnDelayMax => dt >= EnDelayMax * EnTap
        <5>1. d > EnDelayMax => (d - EnDelayMax) * EnTap >= 0
          BY <1>1, <1>4
        <5>2. (d - EnDelayMax) * EnTap = dt - EnDelayMax * EnTap /\ EnDelayMax * EnTap \in Int
          BY <1>1, <1>4
        <5> HIDE DEF dt
        <5> QED
          BY <1>1, <1>4, <2>1, <5>1, <5>2
      <4>2. EnDelayMax * EnTap \in Int
        BY <1>4
      <4> HIDE DEF dt
      <4> QED
        BY <1>1, <1>4, <1>9, <2>1, <2>6, <4>1, <4>2
    <3>2. d > 0
      BY <1>1, <1>4, <3>1
    <3>3. en.bgn - g \in 0 .. EnTap - 1
      BY <1>1, <1>4, <1>9, <3>1, <3>2
    <3> QED
      BY <1>1, <1>2, <2>3, <2>6, <3>3
  <2> QED
    BY <1>6, <2>4, <2>5, <2>6
<1> QED
  BY <1>2, <1>8, <1>9

(* Step 5a goes back to the last phase that passed.                           *)
LEMMA BackOffSeen ==
  ASSUME TypeOK, OneOpening, en.p \in 1 .. PhaseMax, NEW s \in Settings,
         NEW g \in Int, NEW n \in Int, NEW f \in Int, NEW q \in 1 .. PhaseMax,
         NEW lag \in {0, OpaTap},
         Within(board, s, n, g), Found(g, f, q, lag, en.bgn),
         en.end + lag = Elapsed(n, en.p, 0),
         NEW x \in Int, x = Elapsed(n, en.p, 0) - g, board.gateLength <= x, OpaTap <= x,
         IF en.p = 1 THEN 2 * OpaTap <= x /\ x - 2 * OpaTap < board.gateLength
         ELSE x - OpaTap < board.gateLength,
         EnBackOff(s)
  PROVE  GateSeen(board, step', phy', en', result')
<1> DEFINE p == en.p
           c == en.end - 2 * OpaTap
           b == en.end - OpaTap
           l == [en EXCEPT !.p = PhaseMax, !.end = c, !.d = 0, !.first = FALSE]
           m == [en EXCEPT !.p = p - 1, !.end = b, !.d = 0, !.first = FALSE]
           u == [Pull(s) EXCEPT !.enPhase = PhaseMax]
           v == [s EXCEPT !.enPhase = p - 1]
           L == board.gateLength
<1>1. board \in Boards /\ en \in Search /\ en.end \in Int /\ L \in Int
  BY OpeningType DEF TypeOK, Search
<1>2. PhaseMax \in Nat /\ PhaseMax >= 3 /\ OpaTap \in Nat \ {0} /\ EnDelayMax \in Nat /\ lag \in Int
  BY Clock
<1>3. Placed(board, s, n, g) /\ g + L <= Cycle + OpaTap
  BY DEF Within
<1>4. CASE p = 1
  <2>1. EnGoto("en_right", u, l)
    BY <1>4, Zenon DEF EnBackOff
  <2>2. l.p = PhaseMax /\ l.bgn = en.bgn /\ l.end = c /\ l.d = 0
    BY <1>1 DEF Search
  <2>3. u.vfifo = Pull(s).vfifo /\ u.enPhase = PhaseMax
    <3>1. Pull(s) \in Settings
      BY Unmoved, Pushed DEF OnlyGate
    <3> QED
      BY <3>1 DEF Settings
  <2> HIDE DEF u, l
  <2>4. Within(board, u, n - 1, g)
    <3>1. Placed(board, Pull(s), n - 1, g)
      BY <1>1, <1>3, NextPlace
    <3>2. Placed(board, u, n - 1, g)
      BY <2>3, <3>1, SamePlace
    <3> QED
      BY <1>3, <3>2 DEF Within
  <2>5. Elapsed(n - 1, PhaseMax, 0) = Elapsed(n, 1, 0) - 2 * OpaTap
    <3>1. Elapsed(n - 1 + 1, 1, 0) = Elapsed(n - 1, PhaseMax, 0) + 2 * OpaTap
          /\ Elapsed(n - 1, PhaseMax, 0) \in Int
      BY <1>2, ElapsedNext
    <3>2. n - 1 + 1 = n
      OBVIOUS
    <3> QED
      BY <1>2, <3>1, <3>2
  <2>6. x = Elapsed(n, 1, 0) - g /\ en.end + lag = Elapsed(n, 1, 0) /\ Elapsed(n, 1, 0) \in Int
        /\ 2 * OpaTap <= x /\ x - 2 * OpaTap < L
    <3>1. Elapsed(n, 1, 0) \in Int
      BY ElapsedNext
    <3> QED
      BY <1>4, <3>1
  <2> DEFINE h == Elapsed(n - 1, PhaseMax, 0)
             k == Elapsed(n, 1, 0)
  <2> HIDE DEF h, k
  <2>7. l.end + lag = h /\ 0 <= h - g /\ h - g < L /\ h - g + 2 * OpaTap >= L
    <3>1. h = k - 2 * OpaTap /\ x = k - g /\ en.end + lag = k /\ k \in Int
          /\ 2 * OpaTap <= x /\ x - 2 * OpaTap < L
      BY <2>5, <2>6 DEF h, k
    <3> QED
      BY <1>1, <1>2, <2>2, <3>1
  <2>8. RightAt(board, u, l, g, n - 1, f, q, lag)
    <3>1. PhaseMax >= 1 /\ 0 <= EnDelayMax + 1 /\ ~ (0 > 0)
      BY <1>2
    <3> QED
      BY <2>2, <2>3, <2>4, <2>7, <3>1 DEF RightAt, h
  <2>9. GateSeen(board, "en_right", u, l, result)
    <3>1. n - 1 \in Int
      OBVIOUS
    <3> QED
      BY <2>8, <3>1 DEF GateSeen, RightSought
  <2> QED
    BY <2>1, <2>9, GotoSeen
<1>5. CASE p # 1
  <2>1. EnGoto("en_right", v, m)
    BY <1>5, Zenon DEF EnBackOff
  <2>2. m.p = p - 1 /\ m.bgn = en.bgn /\ m.end = b /\ m.d = 0
    BY <1>1 DEF Search
  <2>3. v.vfifo = s.vfifo /\ v.enPhase = p - 1
    BY DEF Settings
  <2> HIDE DEF v, m
  <2>4. Within(board, v, n, g)
    BY <1>3, <2>3, SamePlace DEF Within
  <2>5. p - 1 \in 1 .. PhaseMax - 1
    BY <1>2, <1>5
  <2> DEFINE h == Elapsed(n, p - 1, 0)
             k == Elapsed(n, p, 0)
  <2>6. h = k - OpaTap /\ k \in Int
    <3>1. p \in Int
      BY <1>2
    <3> HIDE DEF p
    <3>2. 0 \in Int
      OBVIOUS
    <3> DEFINE e == p - 1
    <3>3. e \in Int /\ e + 1 = p
      BY <3>1
    <3> HIDE DEF e
    <3>4. Elapsed(n, e + 1, 0) = Elapsed(n, e, 0) + OpaTap /\ Elapsed(n, e, 0) \in Int
      BY <3>2, <3>3, ElapsedNext
    <3>5. Elapsed(n, p, 0) = Elapsed(n, e, 0) + OpaTap
      BY <3>3, <3>4
    <3> QED
      BY <1>2, <3>4, <3>5 DEF e
  <2>7. x = k - g /\ en.end + lag = k /\ x - OpaTap < L
    BY <1>5
  <2> HIDE DEF h, k
  <2>8. m.end + lag = h /\ 0 <= h - g /\ h - g < L /\ h - g + OpaTap >= L
    BY <1>1, <1>2, <2>2, <2>6, <2>7
  <2>9. RightAt(board, v, m, g, n, f, q, lag)
    <3>1. m.p # PhaseMax /\ m.p >= 1 /\ 0 <= EnDelayMax + 1 /\ ~ (0 > 0)
      BY <1>2, <2>2, <2>5
    <3> QED
      BY <2>2, <2>3, <2>4, <2>8, <3>1 DEF RightAt, h
  <2>10. GateSeen(board, "en_right", v, m, result)
    BY <2>9 DEF GateSeen, RightSought
  <2> QED
    BY <2>1, <2>10, GotoSeen
<1> QED
  BY <1>4, <1>5

(* Step 4a: the first phase that fails is less than a phase after the end.    *)
LEMMA EndFound ==
  ASSUME TypeOK, phy.mem = "open", OneOpening, EndSought(board, phy, en), EnSeekEnd
  PROVE  GateSeen(board, step', phy', en', result')
<1> DEFINE p == en.p
           s == [phy EXCEPT !.enPhase = p]
           c == en.end + OpaTap
           b == IF en.first /\ ~ Passes(s) THEN en.end ELSE en.bgn
           k == [en EXCEPT !.end = c, !.first = FALSE, !.bgn = b]
           l == [en EXCEPT !.p = 1, !.end = c, !.first = FALSE]
           m == [k EXCEPT !.p = p + 1]
           r == [k EXCEPT !.p = 0, !.i = en.i + 1]
           L == board.gateLength
<1>1. /\ board \in Boards /\ phy \in Settings /\ en \in Search /\ en.i \in Nat /\ p \in 0 .. PhaseMax
      /\ en.end \in Int /\ en.bgn \in Int
  BY DEF TypeOK, Search
<1>2. PICK g, n, f \in Int, q \in 1 .. PhaseMax, lag \in {0, OpaTap} :
        EndAt(board, phy, en, g, n, f, q, lag)
  BY DEF EndSought
<1> DEFINE x == en.end + lag - g
<1>3. /\ Within(board, phy, n, g) /\ Found(g, f, q, lag, en.bgn) /\ en.i <= n /\ phy.enDelay = 0
      /\ en.end + lag = Elapsed(n, p, 0) /\ OpaTap <= x
      /\ IF p = 1 THEN 2 * OpaTap <= x /\ x - 2 * OpaTap < L ELSE x - OpaTap < L
      /\ en.first => x < L
  BY <1>2 DEF EndAt
<1>4. /\ L \in Int /\ Period <= L /\ L <= 2 * Period - OpaTap - EnTap
  BY <1>1, OpeningLength
<1>5. /\ Period \in Nat /\ Cycle \in Nat /\ OpaTap \in Nat \ {0} /\ EnTap \in Nat \ {0}
      /\ PhaseMax \in Nat /\ PhaseMax >= 3 /\ 4 * OpaTap <= Period /\ 4 * Period <= Cycle
      /\ VfifoSize \in Nat /\ Cycle = VfifoSize * Period /\ PhaseMax * OpaTap = Period - OpaTap
      /\ lag \in Int
  BY Clock
<1>6. x \in Int /\ x < Cycle /\ L - Cycle <= x
  <2>1. x \in Int
    BY <1>1, <1>5
  <2> HIDE DEF x
  <2> QED
    BY <1>3, <1>4, <1>5, <2>1
<1>7. s \in Settings /\ OnlyGate(phy, s) /\ s.vfifo = phy.vfifo /\ s.enPhase = p /\ s.enDelay = 0
  <2>1. OnlyGate(phy, s)
    BY <1>1, Unmoved, PhaseSet
  <2> QED
    BY <1>1, <1>3, <2>1 DEF OnlyGate, Settings
<1>8. Within(board, s, n, g)
  <2> HIDE DEF s
  <2> QED
    BY <1>3, <1>7, SamePlace DEF Within
<1>9. Passes(s) <=> x < L
  <2> HIDE DEF s
  <2>1. Placed(board, s, n, g)
    BY <1>8 DEF Within
  <2>2. x = Elapsed(n, s.enPhase, s.enDelay) - g
    <3>1. en.end + lag = Elapsed(n, s.enPhase, s.enDelay)
      BY <1>3, <1>7
    <3> HIDE DEF p
    <3> QED
      BY <1>1, <1>5, <3>1
  <2> HIDE DEF x
  <2>3. Passes(s) <=> 0 <= x /\ x < L
    BY <1>1, <1>6, <1>7, <2>1, <2>2, PassesThere
  <2> QED
    BY <1>3, <1>5, <1>6, <2>3
<1>10. b = en.bgn
  BY <1>3, <1>9
<1>11. k \in Search /\ k.end = c /\ k.first = FALSE /\ k.bgn = en.bgn /\ k.p = p /\ k.i = en.i
  <2>1. c \in Int /\ b \in Int /\ FALSE \in BOOLEAN
    BY <1>1, <1>5, <1>10
  <2>2. k \in Search
    <3> HIDE DEF c, b
    <3> QED
      BY <1>1, <2>1, SearchSet, Zenon
  <2> HIDE DEF c, b
  <2>3. k.end = c /\ k.first = FALSE /\ k.bgn = b /\ k.p = p /\ k.i = en.i
    BY <1>1 DEF Search
  <2> QED
    BY <1>10, <2>2, <2>3
<1>12. \/ p = 0 /\ EnGoto("en_end", phy, l)
       \/ p > 0 /\ ~ Passes(s) /\ EnBackOff(s)
       \/ p > 0 /\ (en.first \/ Passes(s)) /\ p < PhaseMax /\ EnGoto("en_end", s, m)
       \/ /\ p > 0 /\ (en.first \/ Passes(s)) /\ p >= PhaseMax /\ en.i < VfifoSize
          /\ EnGoto("en_end", Push(s), r)
       \/ p > 0 /\ (en.first \/ Passes(s)) /\ p >= PhaseMax /\ ~ (en.i < VfifoSize)
  <2>1. \/ p = 0 /\ EnGoto("en_end", phy, l)
        \/ p > 0 /\ ~ Passes(s) /\ EnBackOff(s)
        \/ p > 0 /\ (en.first \/ Passes(s)) /\ p < PhaseMax
             /\ EnGoto("en_end", s, [k EXCEPT !.p = @ + 1])
        \/ /\ p > 0 /\ (en.first \/ Passes(s)) /\ ~ (p < PhaseMax) /\ en.i < VfifoSize
           /\ EnGoto("en_end", Push(s), [k EXCEPT !.p = 0, !.i = @ + 1])
        \/ p > 0 /\ (en.first \/ Passes(s)) /\ ~ (p < PhaseMax) /\ ~ (en.i < VfifoSize)
    BY Zenon DEF EnSeekEnd
  <2>2. m = [k EXCEPT !.p = @ + 1] /\ r = [k EXCEPT !.p = 0, !.i = @ + 1]
    BY <1>11
  <2>3. ~ (p < PhaseMax) => p >= PhaseMax
    BY <1>1, <1>5
  <2> HIDE DEF m, r, k, s, p, l
  <2> QED
    BY <2>1, <2>2, <2>3
<1>13. m.p = p + 1 /\ m.i = en.i /\ m.end = c /\ m.bgn = en.bgn /\ m.first = FALSE
  <2> HIDE DEF k
  <2> QED
    BY <1>11 DEF Search
<1>14. r.p = 0 /\ r.i = en.i + 1 /\ r.end = c /\ r.bgn = en.bgn /\ r.first = FALSE
  <2> HIDE DEF k
  <2> QED
    BY <1>11 DEF Search
<1>15. l.p = 1 /\ l.i = en.i /\ l.end = c /\ l.bgn = en.bgn /\ l.first = FALSE
  BY <1>1 DEF Search
<1> HIDE DEF s, b, k, l, m, r
<1>16. /\ Elapsed(n, p + 1, 0) = Elapsed(n, p, 0) + OpaTap
       /\ Elapsed(n + 1, 0, 0) = Elapsed(n, PhaseMax, 0) + OpaTap
       /\ p + 1 \in Int /\ n + 1 \in Int
  <2>1. p \in Int
    BY <1>1, <1>5
  <2> HIDE DEF p
  <2> QED
    BY <1>5, <2>1, ElapsedNext
<1>17. c + lag = en.end + lag + OpaTap /\ c + lag - g = x + OpaTap /\ c \in Int
       /\ c + lag - g - OpaTap = x
  BY <1>1, <1>5
<1>18. ASSUME NEW t, NEW e, NEW w \in Int, Within(board, t, w, g), t.enDelay = 0, e.bgn = en.bgn,
              e.i <= w, e.end = c, c + lag = Elapsed(w, e.p, 0), e.first = FALSE,
              IF e.p = 1 THEN x - OpaTap < L ELSE x < L, EnGoto("en_end", t, e)
       PROVE  GateSeen(board, step', phy', en', result')
  <2>1. OpaTap <= c + lag - g /\ 2 * OpaTap <= c + lag - g
    <3> HIDE DEF x
    <3> QED
      BY <1>3, <1>5, <1>6, <1>17
  <2>2. IF e.p = 1 THEN c + lag - g - 2 * OpaTap < L ELSE c + lag - g - OpaTap < L
    <3>1. c + lag - g - 2 * OpaTap = x - OpaTap
      BY <1>1, <1>5
    <3> HIDE DEF x, c
    <3> QED
      BY <1>17, <1>18, <3>1
  <2> HIDE DEF c, x
  <2>3. EndAt(board, t, e, g, w, f, q, lag)
    BY <1>3, <1>5, <1>17, <1>18, <2>1, <2>2 DEF EndAt
  <2>4. GateSeen(board, "en_end", t, e, result)
    BY <1>18, <2>3 DEF GateSeen, EndSought
  <2> QED
    BY <1>18, <2>4, GotoSeen
<1>19. CASE p = 0 /\ EnGoto("en_end", phy, l)
  <2>1. c + lag = Elapsed(n, 1, 0) /\ x - OpaTap < L
    <3>1. p + 1 = 1
      BY <1>19
    <3> HIDE DEF p, c, x
    <3> QED
      BY <1>3, <1>16, <1>17, <1>19, <3>1
  <2> HIDE DEF c, x, p
  <2> QED
    BY <1>3, <1>15, <1>18, <1>19, <2>1
<1>20. CASE p > 0 /\ ~ Passes(s) /\ EnBackOff(s)
  <2>1. p \in 1 .. PhaseMax /\ L <= x
    <3> HIDE DEF x
    <3> QED
      BY <1>1, <1>4, <1>5, <1>6, <1>9, <1>20
  <2>2. x = Elapsed(n, p, 0) - g
    <3>1. en.end + lag = Elapsed(n, p, 0)
      BY <1>3
    <3> HIDE DEF p
    <3> QED
      BY <1>1, <1>5, <3>1
  <2> HIDE DEF x
  <2> QED
    BY <1>3, <1>6, <1>7, <1>8, <1>20, <2>1, <2>2, BackOffSeen
<1>21. CASE p > 0 /\ (en.first \/ Passes(s)) /\ p < PhaseMax /\ EnGoto("en_end", s, m)
  <2>1. c + lag = Elapsed(n, p + 1, 0) /\ x < L /\ p + 1 # 1
    <3>1. p + 1 # 1
      BY <1>1, <1>21
    <3> HIDE DEF p, c, x
    <3> QED
      BY <1>3, <1>9, <1>16, <1>17, <1>21, <3>1
  <2> HIDE DEF c, x, p
  <2> QED
    BY <1>3, <1>7, <1>8, <1>13, <1>18, <1>21, <2>1
<1>22. CASE /\ p > 0 /\ (en.first \/ Passes(s)) /\ p >= PhaseMax /\ en.i < VfifoSize
            /\ EnGoto("en_end", Push(s), r)
  <2>1. p = PhaseMax
    BY <1>1, <1>5, <1>22
  <2>2. c + lag = Elapsed(n + 1, 0, 0) /\ x < L /\ 0 # 1 /\ en.i + 1 <= n + 1
    <3>1. en.i + 1 <= n + 1
      BY <1>1, <1>3
    <3> HIDE DEF p, c, x
    <3> QED
      BY <1>3, <1>9, <1>16, <1>17, <1>22, <2>1, <3>1
  <2>3. Within(board, Push(s), n + 1, g) /\ Push(s).enDelay = 0
    <3>1. Placed(board, Push(s), n + 1, g)
      BY <1>1, <1>7, <1>8, NextPlace DEF Within
    <3> QED
      BY <1>7, <1>8, <3>1 DEF Within, Push, Settings
  <2> HIDE DEF c, x, p
  <2> QED
    BY <1>14, <1>16, <1>18, <1>22, <2>2, <2>3
<1>23. CASE p > 0 /\ (en.first \/ Passes(s)) /\ p >= PhaseMax /\ ~ (en.i < VfifoSize)
  <2>1. p = PhaseMax /\ x < L
    <3>1. p = PhaseMax
      BY <1>1, <1>5, <1>23
    <3> QED
      BY <1>3, <1>9, <1>23, <3>1
  <2>2. Elapsed(n, PhaseMax, 0) = n * Period + PhaseMax * OpaTap + 0 * EnTap /\ n * Period \in Int
    BY <1>5, ElapsedIs
  <2>3. n * Period < VfifoSize * Period
    <3>1. en.end + lag = n * Period + Period - OpaTap
      <4>1. 0 * EnTap = 0
        BY <1>5
      <4> QED
        BY <1>3, <1>5, <2>1, <2>2, <4>1
    <3>2. g + L <= Cycle + OpaTap
      BY <1>3 DEF Within
    <3> QED
      BY <1>1, <1>4, <1>5, <2>1, <2>2, <3>1, <3>2
  <2>4. n < VfifoSize
    BY <1>5, <2>3, Below
  <2> QED
    BY <1>1, <1>3, <1>5, <1>23, <2>4
<1> QED
  BY <1>12, <1>19, <1>20, <1>21, <1>22, <1>23

(* Multiples grow with what is multiplied.                                    *)
LEMMA Multiples ==
  ASSUME NEW a \in Int, NEW b \in Int, NEW c \in Nat
  PROVE  /\ a * c \in Int /\ b * c \in Int
         /\ a = b => a * c = b * c
         /\ a = b + 1 => a * c = b * c + c
         /\ a >= b => a * c >= b * c
         /\ a >= b + 1 => a * c >= b * c + c
         /\ a >= b + 2 => a * c >= b * c + 2 * c
<1> DEFINE k == a - b
<1>1. k \in Int /\ a = b + k
  OBVIOUS
<1> HIDE DEF k
<1>2. a * c = b * c + k * c /\ a * c \in Int /\ b * c \in Int /\ k * c \in Int
  BY <1>1
<1>3. /\ k = 0 => k * c = 0
      /\ k = 1 => k * c = c
      /\ k >= 0 => k * c >= 0
      /\ k >= 1 => k * c >= c
      /\ k >= 2 => k * c >= 2 * c
  <2>1. k >= 1 => (k - 1) * c >= 0
    BY <1>1
  <2>2. k >= 2 => (k - 2) * c >= 0
    BY <1>1
  <2>3. (k - 1) * c = k * c - c /\ (k - 2) * c = k * c - 2 * c
    BY <1>1
  <2> QED
    BY <1>1, <1>2, <2>1, <2>2, <2>3
<1> QED
  BY <1>1, <1>2, <1>3

(* The arithmetic of the last tap that passes. What is left between both ends *)
(* decides whether the middle is late, so the case in which it could be is    *)
(* named.                                                                     *)
LEMMA EndIsSeen ==
  ASSUME TypeOK, OneOpening, NEW g \in Int, NEW n \in Int, NEW f \in Int,
         NEW q \in 1 .. PhaseMax, NEW lag \in {0, OpaTap},
         RightAt(board, phy, en, g, n, f, q, lag), en.d # 0,
         en.d <= EnDelayMax => Elapsed(n, en.p, 0) - g + en.d * EnTap >= board.gateLength
  PROVE  /\ EndSeen(board, g, lag, en.bgn, en.end - EnTap + lag)
         /\ en.end - EnTap >= en.bgn
<1> DEFINE p == en.p
           d == en.d
           bgn == en.bgn
           x == Elapsed(n, p, 0) - g
           L == board.gateLength
           e == (d - 1) * EnTap
           a == bgn - g
           np == n * Period
           fp == f * Period
           po == p * OpaTap
<1>1. /\ board \in Boards /\ p \in 1 .. PhaseMax /\ d \in 1 .. EnDelayMax + 1 /\ bgn \in Int
      /\ en.end \in Int /\ Elapsed(n, p, d) = Elapsed(n, p, 0) + d * EnTap
      /\ Elapsed(n, p, 0) \in Int
  <2>1. /\ board \in Boards /\ bgn \in Int /\ en.end \in Int /\ d \in Nat /\ p \in 0 .. PhaseMax
    BY DEF TypeOK, Search
  <2>2. d # 0 /\ d <= EnDelayMax + 1 /\ p >= 1
    BY DEF RightAt
  <2> HIDE DEF p, d, bgn
  <2>3. p \in 1 .. PhaseMax /\ d \in 1 .. EnDelayMax + 1 /\ p \in Int /\ d \in Int
    BY <2>1, <2>2, Clock
  <2> QED
    BY <2>1, <2>3, ElapsedTaps
<1>2. /\ Found(g, f, q, lag, bgn) /\ 0 <= x /\ x < board.gateLength /\ x \in Int
      /\ x + (IF p = PhaseMax THEN 2 * OpaTap ELSE OpaTap) >= board.gateLength
      /\ x + (d - 1) * EnTap < board.gateLength
      /\ d <= EnDelayMax => x + d * EnTap >= board.gateLength
      /\ en.end + lag = Elapsed(n, p, d) /\ x = Elapsed(n, p, 0) - g
  BY <1>1 DEF RightAt
<1> HIDE DEF p, d, bgn, x
<1>3. en.end + lag = g + x + e + EnTap
  BY <1>1, <1>2, Clock
<1> USE <1>1, <1>2
<1>4. L \in Int /\ Period <= L /\ L <= 2 * Period - OpaTap - EnTap
  BY OpeningLength
<1>5. /\ Period \in Nat /\ OpaTap \in Nat \ {0} /\ EnTap \in Nat \ {0} /\ PhaseMax \in Nat
      /\ PhaseMax >= 3 /\ 4 * OpaTap <= Period /\ EnDelayMax \in Nat
      /\ EnDelayMax * EnTap >= OpaTap /\ 2 * EnTap <= OpaTap /\ lag \in Int
      /\ PhaseMax * OpaTap = Period - OpaTap
  BY Clock
<1>6. e \in Nat /\ d - 1 \in Nat
  BY <1>5
<1>7. d <= EnDelayMax => x + e + EnTap >= L
  <2>1. d * EnTap = e + EnTap
    BY <1>5
  <2> HIDE DEF e
  <2> QED
    BY <1>5, <1>6, <2>1
<1>8. ~ (d <= EnDelayMax) => p = PhaseMax /\ e >= OpaTap
  <2>1. ~ (d <= EnDelayMax) => d - 1 = EnDelayMax
    BY <1>5
  <2>2. ~ (d <= EnDelayMax) => e >= OpaTap
    BY <1>5, <2>1
  <2>3. x + e < L
    OBVIOUS
  <2> HIDE DEF e
  <2> QED
    BY <1>4, <1>5, <1>6, <2>2, <2>3
<1>9. x + e < L /\ x + e >= L - OpaTap /\ (p # PhaseMax => e < OpaTap)
  <2>1. x + e < L
    OBVIOUS
  <2> HIDE DEF e
  <2> QED
    BY <1>4, <1>5, <1>6, <1>7, <1>8, <2>1
<1>10. a \in Int /\ (lag = 0 => a < EnTap)
  <2>1. a \in Int
    OBVIOUS
  <2> QED
    BY <1>5, <2>1 DEF Found
<1>11. lag # 0 =>
         /\ lag = OpaTap /\ 0 <= a /\ a < 2 * OpaTap /\ bgn = fp + OpaTap /\ fp \in Int
  <2>1. Elapsed(f, 1, 0) = fp + OpaTap /\ fp \in Int
    <3>1. Elapsed(f, 1, 0) = fp + 1 * OpaTap + 0 * EnTap /\ fp \in Int
      BY ElapsedIs
    <3> HIDE DEF fp
    <3> QED
      BY <1>5, <3>1
  <2> HIDE DEF fp
  <2>2. lag # 0 => lag = OpaTap /\ bgn = Elapsed(f, q, 0) /\ q = 1 /\ bgn - g \in 0 .. 2 * OpaTap - 1
    BY <1>5 DEF Found
  <2> QED
    BY <1>5, <2>1, <2>2
<1>12. g + x = np + po /\ np \in Int /\ po \in Int
  <2>1. Elapsed(n, p, 0) = np + po + 0 * EnTap /\ np \in Int /\ po \in Int
    BY ElapsedIs
  <2> HIDE DEF np, po
  <2> QED
    BY <1>5, <2>1
<1>13. /\ n = f => np = fp
       /\ n = f + 1 => np = fp + Period
       /\ n >= f + 1 => np >= fp + Period
       /\ n >= f + 2 => np >= fp + 2 * Period
       /\ f >= n + 1 => fp >= np + Period
  BY <1>5, Multiples
<1>14. /\ p = PhaseMax => po = Period - OpaTap
       /\ p = PhaseMax - 1 => po = Period - 2 * OpaTap
       /\ p = PhaseMax - 2 => po = Period - 3 * OpaTap
       /\ p <= PhaseMax - 3 => po <= Period - 4 * OpaTap
  <2>1. /\ (PhaseMax - 1) * OpaTap = PhaseMax * OpaTap - OpaTap
        /\ (PhaseMax - 2) * OpaTap = PhaseMax * OpaTap - 2 * OpaTap
        /\ (PhaseMax - 3) * OpaTap = PhaseMax * OpaTap - 3 * OpaTap
    BY <1>5
  <2>2. PhaseMax - 3 >= p => (PhaseMax - 3) * OpaTap >= po
    <3>1. p \in Int /\ PhaseMax - 3 \in Int /\ OpaTap \in Nat
      BY <1>5
    <3> QED
      BY <3>1, Multiples
  <2> QED
    BY <1>5, <1>12, <2>1, <2>2
<1>15. lag = 0 \/ lag # 0
  OBVIOUS
<1>16. (d - 1) * EnTap = e /\ d - 1 \in Nat
  BY <1>6
<1>17. x < L /\ 0 <= x /\ x + (IF p = PhaseMax THEN 2 * OpaTap ELSE OpaTap) >= L
  OBVIOUS
<1>18. bgn = g + a
  OBVIOUS
<1>19. bgn \in Int /\ x \in Int /\ p \in 1 .. PhaseMax /\ p \in Int /\ en.end \in Int
  BY <1>5
<1> HIDE <1>1, <1>2 DEF e, a, np, fp, po, L
<1>20. g + x + e - lag >= bgn
  BY <1>4, <1>5, <1>19, <1>6, <1>9, <1>10, <1>11, <1>18
<1>21. ASSUME lag # 0
       PROVE  \/ x + e + EnTap >= L
              \/ L <= a + Period /\ x + e - a >= Period - OpaTap
  <2>1. ASSUME ~ (d <= EnDelayMax)
        PROVE  L <= a + Period /\ x + e - a >= Period - OpaTap
    <3>1. p = PhaseMax /\ e >= OpaTap /\ po = Period - OpaTap /\ x + 2 * OpaTap >= L
      BY <1>8, <1>14, <1>17, <2>1
    <3>2. n = f
      BY <1>4, <1>5, <1>19, <1>6, <1>9, <1>10, <1>11, <1>12, <1>13, <1>17, <1>18, <1>21, <3>1
    <3> QED
      BY <1>4, <1>5, <1>19, <1>6, <1>10, <1>11, <1>12, <1>13, <1>18, <1>21, <3>1, <3>2
  <2> QED
    BY <1>7, <2>1
<1>22. ASSUME lag # 0
       PROVE  \/ x + e - a <= 2 * Period - 4 * OpaTap
              \/ x + e - a >= 2 * Period - 3 * OpaTap
              \/ x + e - a = 2 * Period - 4 * OpaTap + e /\ e < OpaTap
  <2>1. n >= f
    BY <1>4, <1>5, <1>19, <1>10, <1>11, <1>12, <1>13, <1>14, <1>17, <1>18, <1>22
  <2>2. CASE n = f
    BY <1>4, <1>5, <1>19, <1>6, <1>9, <1>10, <1>11, <1>12, <1>13, <1>14, <1>17, <1>18, <1>22, <2>2
  <2>3. CASE n = f + 1
    BY <1>4, <1>5, <1>19, <1>6, <1>9, <1>10, <1>11, <1>12, <1>13, <1>14, <1>17, <1>18, <1>22, <2>3
  <2>4. CASE n >= f + 2
    <3>1. po >= OpaTap
      <4>1. p \in Int /\ OpaTap \in Nat /\ p >= 0 + 1
        BY <1>5, <1>19
      <4>2. p * OpaTap >= 0 * OpaTap + OpaTap
        BY <4>1, Multiples
      <4> QED
        BY <1>5, <4>2 DEF po
    <3> QED
      BY <1>4, <1>5, <1>19, <1>6, <1>10, <1>11, <1>12, <1>13, <1>18, <1>22, <2>4, <3>1
  <2> QED
    BY <2>1, <2>2, <2>3, <2>4
<1>23. EndSeen(board, g, lag, bgn, g + x + e)
  <2> DEFINE end == g + x + e
  <2>1. end - g = x + e /\ end - bgn = x + e - a
    BY <1>5, <1>6, <1>10, <1>18, <1>19
  <2> HIDE DEF end
  <2>2. lag # 0 => \/ end - bgn <= 2 * Period - 4 * OpaTap
                   \/ end - bgn >= 2 * Period - 3 * OpaTap
                   \/ \E t \in Nat : /\ end - bgn = 2 * Period - 4 * OpaTap + t * EnTap
                                     /\ t * EnTap < OpaTap
    BY <1>16, <1>22, <2>1
  <2>3. /\ end - g < L /\ (lag = 0 => end - g >= L - OpaTap)
        /\ lag # 0 => \/ end - g + EnTap >= L
                      \/ L <= a + Period /\ end - bgn >= Period - OpaTap
    BY <1>9, <1>21, <2>1
  <2> QED
    BY <2>2, <2>3 DEF EndSeen, L, end, a
<1> QED
  <2>1. en.end - EnTap + lag = g + x + e /\ en.end - EnTap = g + x + e - lag
    BY <1>5, <1>6, <1>10, <1>3, <1>19
  <2> QED
    BY <1>20, <1>23, <2>1 DEF bgn

(* The right edge: the taps go on to the last that passes, and the edges are  *)
(* known.                                                                     *)
LEMMA RightFound ==
  ASSUME TypeOK, phy.mem = "open", OneOpening, RightSought(board, phy, en), EnSeekRight
  PROVE  GateSeen(board, step', phy', en', result')
<1> DEFINE p == en.p
           d == en.d
           s == [phy EXCEPT !.enDelay = d]
           good == d <= EnDelayMax /\ Passes(s)
           t == IF d <= EnDelayMax THEN s ELSE phy
           c == IF d # 0 THEN en.end - EnTap ELSE en.end
           k == [en EXCEPT !.end = c, !.from = d]
           l == [en EXCEPT !.d = @ + 1, !.end = @ + EnTap]
           L == board.gateLength
           dt == d * EnTap
           et == (d - 1) * EnTap
           ft == (d + 1) * EnTap
<1>1. /\ board \in Boards /\ phy \in Settings /\ en \in Search /\ p \in 0 .. PhaseMax
      /\ d \in Nat /\ en.end \in Int /\ en.bgn \in Int
  BY DEF TypeOK, Search
<1>2. PICK g, n, f \in Int, q \in 1 .. PhaseMax, lag \in {0, OpaTap} :
        RightAt(board, phy, en, g, n, f, q, lag)
  BY DEF RightSought
<1> DEFINE x == Elapsed(n, p, 0) - g
<1>3. /\ Within(board, phy, n, g) /\ Found(g, f, q, lag, en.bgn) /\ phy.enPhase = p /\ p >= 1
      /\ d <= EnDelayMax + 1 /\ en.end + lag = Elapsed(n, p, d)
      /\ 0 <= x /\ x < L /\ x + (IF p = PhaseMax THEN 2 * OpaTap ELSE OpaTap) >= L
      /\ d > 0 => x + et < L
  BY <1>2 DEF RightAt
<1>4. /\ L \in Int /\ Period <= L /\ L <= 2 * Period - OpaTap - EnTap
  BY <1>1, OpeningLength
<1>5. /\ Period \in Nat /\ Cycle \in Nat /\ OpaTap \in Nat \ {0} /\ EnTap \in Nat \ {0}
      /\ PhaseMax \in Nat /\ EnDelayMax \in Nat /\ 4 * Period <= Cycle /\ lag \in Int
  BY Clock
<1>6. p \in 1 .. PhaseMax /\ p \in Int /\ d \in Int
  BY <1>1, <1>3, <1>5
<1>7. x \in Int /\ Elapsed(n, p, d) = g + x + dt /\ dt \in Nat /\ en.end + lag = g + x + dt
  <2>1. dt \in Nat
    BY <1>1, <1>5
  <2>2. Elapsed(n, p, d) = Elapsed(n, p, 0) + dt /\ Elapsed(n, p, 0) \in Int
    <3> HIDE DEF p, d
    <3> QED
      BY <1>6, ElapsedTaps
  <2> HIDE DEF dt
  <2> QED
    BY <1>3, <2>1, <2>2
<1>8. et = dt - EnTap /\ (d = 0 => dt = 0) /\ ft = dt + EnTap
  BY <1>1, <1>5
<1>9. ASSUME d <= EnDelayMax
      PROVE  /\ s \in Settings /\ Within(board, s, n, g) /\ s.enPhase = p
             /\ Passes(s) <=> x + dt < L
  <2>1. d \in 0 .. EnDelayMax
    BY <1>1, <1>5, <1>9
  <2>2. OnlyGate(phy, s)
    BY <1>1, <2>1, Unmoved, TapSet
  <2>3. s \in Settings /\ s.vfifo = phy.vfifo /\ s.enPhase = p /\ s.enDelay = d
    BY <1>1, <1>3, <2>2 DEF OnlyGate, Settings
  <2> HIDE DEF s
  <2>4. Within(board, s, n, g) /\ Placed(board, s, n, g)
    BY <1>3, <2>3, SamePlace DEF Within
  <2> DEFINE y == x + dt
  <2>5. y \in Int /\ 0 <= y /\ L - Cycle <= y /\ y < Cycle
    <3> HIDE DEF x, dt, et
    <3> QED
      BY <1>1, <1>3, <1>4, <1>5, <1>7, <1>8
  <2>6. y = Elapsed(n, s.enPhase, s.enDelay) - g
    <3>1. Elapsed(n, s.enPhase, s.enDelay) = g + x + dt
      BY <1>7, <2>3
    <3> HIDE DEF x, dt
    <3> QED
      BY <1>7, <3>1
  <2> HIDE DEF y
  <2>7. Passes(s) <=> 0 <= y /\ y < L
    BY <1>1, <2>2, <2>4, <2>5, <2>6, PassesThere
  <2> QED
    BY <2>3, <2>4, <2>5, <2>7 DEF y
<1>10. \/ good /\ EnGoto("en_right", s, l)
       \/ ~ good /\ c < en.bgn
       \/ ~ good /\ EnGoto("en_repass", [Pull(t) EXCEPT !.enPhase = PhaseMax],
                           [k EXCEPT !.p = PhaseMax])
       \/ ~ good /\ EnGoto("en_repass", [t EXCEPT !.enPhase = p - 1], [k EXCEPT !.p = @ - 1])
  BY Zenon DEF EnSeekRight
<1>11. CASE good /\ EnGoto("en_right", s, l)
  <2>1. l.p = p /\ l.d = d + 1 /\ l.bgn = en.bgn /\ l.end = en.end + EnTap
    BY <1>1 DEF Search
  <2> HIDE DEF l, s
  <2>2. Within(board, s, n, g) /\ s.enPhase = p /\ x + dt < L
    BY <1>9, <1>11
  <2>3. l.end + lag = Elapsed(n, p, d + 1)
    <3>1. Elapsed(n, p, d + 1) = Elapsed(n, p, 0) + ft /\ d + 1 \in Int
      <4>1. d + 1 \in Int
        BY <1>1
      <4> HIDE DEF p, d
      <4> QED
        BY <1>6, <4>1, ElapsedTaps
    <3>2. Elapsed(n, p, 0) = g + x /\ Elapsed(n, p, 0) \in Int
      <4>1. Elapsed(n, p, 0) \in Int
        <5> HIDE DEF p
        <5> QED
          BY <1>6, ElapsedTaps
      <4> QED
        BY <4>1
    <3> HIDE DEF dt, et, ft, x
    <3> QED
      BY <1>1, <1>5, <1>7, <1>8, <2>1, <3>1, <3>2
  <2>4. d + 1 - 1 = d /\ l.d <= EnDelayMax + 1
    BY <1>1, <1>5, <1>11, <2>1
  <2>5. RightAt(board, s, l, g, n, f, q, lag)
    <3>1. l.d > 0 => x + (l.d - 1) * EnTap < L
      <4>1. (l.d - 1) * EnTap = dt
        <5>1. l.d - 1 = d
          BY <1>1, <2>1
        <5> QED
          BY <5>1
      <4> HIDE DEF dt, x
      <4> QED
        BY <2>2, <4>1
    <3>2. l.end + lag = Elapsed(n, l.p, l.d) /\ x = Elapsed(n, l.p, 0) - g
      BY <2>1, <2>3
    <3> HIDE DEF x
    <3>3. /\ Within(board, s, n, g) /\ Found(g, f, q, lag, l.bgn)
          /\ s.enPhase = l.p /\ l.p >= 1 /\ l.d <= EnDelayMax + 1
          /\ 0 <= x /\ x < L
          /\ x + (IF l.p = PhaseMax THEN 2 * OpaTap ELSE OpaTap) >= L
      BY <1>3, <2>1, <2>2, <2>4
    <3> QED
      BY <3>1, <3>2, <3>3 DEF RightAt
  <2>6. GateSeen(board, "en_right", s, l, result)
    BY <2>5 DEF GateSeen, RightSought
  <2> QED
    BY <1>11, <2>6, GotoSeen
<1>12. ASSUME ~ good
       PROVE  c >= en.bgn /\ c \in Int /\ EndSeen(board, g, lag, en.bgn, c + lag)
  <2>1. d # 0
    <3> SUFFICES ASSUME d = 0 PROVE FALSE
      OBVIOUS
    <3>1. d <= EnDelayMax /\ x + dt = x
      <4>1. dt = 0 /\ d <= EnDelayMax
        BY <1>5, <1>8
      <4> HIDE DEF dt, x
      <4> QED
        BY <1>7, <4>1
    <3> HIDE DEF s, x, dt
    <3> QED
      BY <1>3, <1>9, <1>12, <3>1
  <2>2. c = en.end - EnTap
    BY <2>1
  <2>3. d <= EnDelayMax => x + dt >= L
    <3> HIDE DEF s, dt, x
    <3> QED
      BY <1>4, <1>7, <1>9, <1>12
  <2>4. en.d <= EnDelayMax => Elapsed(n, en.p, 0) - g + en.d * EnTap >= board.gateLength
    BY <2>3
  <2>5. EndSeen(board, g, lag, en.bgn, en.end - EnTap + lag) /\ en.end - EnTap >= en.bgn
    <3> HIDE DEF x, c, s, good, dt, et
    <3> QED
      BY Zenon, <1>2, <2>1, <2>4, EndIsSeen
  <2>6. c \in Int
    BY <1>1, <1>5, <2>2
  <2> HIDE DEF c, x, L, p, d
  <2> QED
    BY <2>2, <2>5, <2>6
<1>13. ASSUME ~ good, NEW u, NEW w, NEW m \in Int, Placed(board, u, m, g), w.bgn = en.bgn,
              w.end = c, EnGoto("en_repass", u, w)
       PROVE  GateSeen(board, step', phy', en', result')
  <2> HIDE DEF c, good
  <2>1. EdgesAt(board, u, w, g, m, f, q, lag)
    BY <1>3, <1>12, <1>13 DEF EdgesAt
  <2>2. GateSeen(board, "en_repass", u, w, result)
    BY <1>13, <2>1 DEF GateSeen, EdgesFound
  <2> QED
    BY <1>13, <2>2, GotoSeen
<1>14. t \in Settings /\ Placed(board, t, n, g)
  <2> HIDE DEF s
  <2> QED
    BY <1>1, <1>3, <1>9 DEF Within
<1>15. k.bgn = en.bgn /\ k.end = c /\ k.p = p /\ DOMAIN k = DOMAIN en
  BY <1>1 DEF Search
<1>16. CASE ~ good /\ EnGoto("en_repass", [Pull(t) EXCEPT !.enPhase = PhaseMax],
                             [k EXCEPT !.p = PhaseMax])
  <2> DEFINE u == [Pull(t) EXCEPT !.enPhase = PhaseMax]
             w == [k EXCEPT !.p = PhaseMax]
  <2>1. w.bgn = en.bgn /\ w.end = c
    BY <1>1 DEF Search
  <2>2. Placed(board, u, n - 1, g) /\ n - 1 \in Int
    <3> HIDE DEF t
    <3>1. Placed(board, Pull(t), n - 1, g)
      BY <1>1, <1>14, NextPlace
    <3>2. u.vfifo = Pull(t).vfifo
      <4>1. Pull(t) \in Settings
        BY <1>14, Unmoved, Pushed DEF OnlyGate
      <4> QED
        BY <4>1 DEF Settings
    <3> HIDE DEF u
    <3> QED
      BY <3>1, <3>2, SamePlace
  <2>3. EnGoto("en_repass", u, w)
    BY <1>16
  <2> HIDE DEF u, w, good, c
  <2> QED
    BY <1>13, <1>16, <2>1, <2>2, <2>3
<1>17. CASE ~ good /\ EnGoto("en_repass", [t EXCEPT !.enPhase = p - 1], [k EXCEPT !.p = @ - 1])
  <2> DEFINE u == [t EXCEPT !.enPhase = p - 1]
             w == [k EXCEPT !.p = @ - 1]
  <2>1. w.bgn = en.bgn /\ w.end = c
    BY <1>1 DEF Search
  <2>2. Placed(board, u, n, g)
    <3> HIDE DEF t
    <3>1. u.vfifo = t.vfifo
      BY <1>14 DEF Settings
    <3> HIDE DEF u
    <3> QED
      BY <1>14, <3>1, SamePlace
  <2>3. EnGoto("en_repass", u, w)
    BY <1>17
  <2> HIDE DEF u, w, good, c
  <2> QED
    BY <1>13, <1>17, <2>1, <2>2, <2>3
<1>18. CASE ~ good /\ c < en.bgn
  <2> HIDE DEF good, c
  <2> QED
    BY <1>1, <1>12, <1>18
<1> QED
  BY <1>10, <1>11, <1>16, <1>17, <1>18

(* The middle is split by the last phase before it and the first tap from     *)
(* there that reaches it; phase 1 takes no taps.                              *)
SplitAt(work, phi) ==
  \/ work <= OpaTap /\ phi = OpaTap
  \/ \E q \in 1 .. PhaseMax :
       /\ q * OpaTap < work /\ work <= q * OpaTap + OpaTap /\ work <= phi /\ phi < work + EnTap
       /\ \A t \in Nat : q * OpaTap + t * EnTap >= work => phi <= q * OpaTap + t * EnTap

(* A middle that is Split is in whole phases and whole taps, not before half  *)
(* of the window and less than a tap after it.                                *)
LEMMA SplitIs ==
  ASSUME NEW work \in 1 .. Period, NEW p, NEW d,
         p = SmallestOf({ q \in 0 .. PhaseMax + 1 : q = PhaseMax + 1 \/ q * OpaTap >= work }),
         d = SmallestOf({ t \in 0 .. EnDelayMax + 1 :
                            t = EnDelayMax + 1 \/ (p - 1) * OpaTap + t * EnTap >= work })
  PROVE  /\ p \in 1 .. PhaseMax + 1 /\ d \in 0 .. EnDelayMax
         /\ SplitAt(work, IF p = 1 THEN OpaTap ELSE (p - 1) * OpaTap + d * EnTap)
<1> DEFINE S == { q \in 0 .. PhaseMax + 1 : q = PhaseMax + 1 \/ q * OpaTap >= work }
           T == { t \in 0 .. EnDelayMax + 1 :
                    t = EnDelayMax + 1 \/ (p - 1) * OpaTap + t * EnTap >= work }
           e == (p - 1) * OpaTap
           dt == d * EnTap
<1>1. p \in 1 .. PhaseMax + 1 /\ d \in 0 .. EnDelayMax
  BY MiddleSplit
<1>2. PhaseMax \in Nat /\ OpaTap \in Nat \ {0} /\ EnTap \in Nat \ {0} /\ EnDelayMax \in Nat
      /\ Period = (PhaseMax + 1) * OpaTap
  BY Clock DEF Period
<1>3. S \subseteq Nat /\ T \subseteq Nat /\ PhaseMax + 1 \in S /\ EnDelayMax + 1 \in T
  BY <1>2
<1>4. p \in S /\ \A q \in S : p <= q
  <2> HIDE DEF S
  <2> QED
    BY <1>3, SmallestIsLeast, Zenon DEF S
<1>5. d \in T /\ \A t \in T : d <= t
  <2> HIDE DEF T
  <2> QED
    BY <1>3, SmallestIsLeast, Zenon DEF T
<1>6. e \in Int /\ e < work /\ work <= e + OpaTap /\ dt \in Int
  <2>1. p * OpaTap = e + OpaTap /\ e \in Int /\ dt \in Int
    BY <1>1, <1>2
  <2>2. work <= p * OpaTap
    BY <1>1, <1>2, <1>4
  <2>3. p - 1 \in 0 .. PhaseMax /\ ~ (p <= p - 1) /\ p - 1 # PhaseMax + 1
    BY <1>1, <1>2
  <2>4. ~ (e >= work)
    BY <1>2, <1>4, <2>3
  <2> HIDE DEF e
  <2> QED
    BY <1>2, <2>1, <2>2, <2>4
<1>7. e + dt >= work
  BY <1>1, <1>2, <1>5
<1>8. e + dt < work + EnTap
  <2>1. CASE d = 0
    <3>1. dt = 0
      BY <1>2, <2>1
    <3> HIDE DEF e, dt
    <3> QED
      BY <1>2, <1>6, <3>1
  <2>2. CASE d # 0
    <3> DEFINE c == d - 1
    <3>1. c \in 0 .. EnDelayMax + 1 /\ ~ (d <= c) /\ c * EnTap = dt - EnTap
      BY <1>1, <1>2, <2>2
    <3> HIDE DEF c, e, dt
    <3>2. ~ (e + c * EnTap >= work)
      <4>1. e + c * EnTap >= work => c \in T
        BY <3>1 DEF e
      <4> HIDE DEF T
      <4> QED
        BY <1>5, <3>1, <4>1
    <3> QED
      BY <1>2, <1>6, <3>1, <3>2
  <2> QED
    BY <2>1, <2>2
<1>9. ASSUME NEW t \in Nat, e + t * EnTap >= work
      PROVE  e + dt <= e + t * EnTap
  <2>1. d <= t
    <3>1. CASE t <= EnDelayMax
      <4>1. t \in T
        BY <1>2, <1>9, <3>1
      <4> QED
        BY <1>5, <4>1
    <3>2. CASE t > EnDelayMax
      BY <1>1, <1>2, <3>2
    <3> QED
      BY <1>2, <3>1, <3>2
  <2>2. dt <= t * EnTap /\ t * EnTap \in Int
    BY <1>1, <1>2, <2>1, Multiples
  <2> HIDE DEF e, dt
  <2> QED
    BY <1>6, <2>2
<1>10. CASE p = 1
  <2>1. e = 0
    BY <1>2, <1>10
  <2>2. work <= OpaTap
    BY <1>2, <1>6, <2>1
  <2> QED
    BY <1>1, <1>10, <2>2 DEF SplitAt
<1>11. CASE p # 1
  <2>1. p - 1 \in 1 .. PhaseMax
    BY <1>1, <1>2, <1>11
  <2> HIDE DEF S, T, dt
  <2>2. SplitAt(work, e + dt)
    BY <1>6, <1>7, <1>8, <1>9, <2>1, Zenon DEF SplitAt
  <2> QED
    BY <1>1, <1>11, <2>2 DEF dt
<1> QED
  BY <1>10, <1>11

(* What the middle of the window is set to.                                   *)
LEMMA CentreIs ==
  ASSUME TypeOK, en.bgn > 0, en.end >= en.bgn, NEW s, OnlyGate(phy, s), NEW taps,
         EnCentre(s, taps)
  PROVE  \E w \in Int, work \in 1 .. Period, phi \in Int, u \in Settings :
           /\ (en.bgn + en.end) \div 2 = w * Period + work /\ SplitAt(work, phi)
           /\ u.vfifo = s.vfifo /\ u.enPhase * OpaTap + u.enDelay * EnTap = phi
           /\ EnGoto("en_final", u, EnIdle)
<1> DEFINE mid  == (en.bgn + en.end) \div 2
           work == IF mid > Period THEN ((mid - 1) % Period) + 1 ELSE mid
           w    == IF mid > Period THEN (mid - 1) \div Period ELSE 0
           p    == SmallestOf({ q \in 0 .. PhaseMax + 1 : q = PhaseMax + 1 \/ q * OpaTap >= work })
           d    == SmallestOf({ t \in 0 .. EnDelayMax + 1 :
                                 t = EnDelayMax + 1 \/ (p - 1) * OpaTap + t * EnTap >= work })
           h    == IF p = 1 THEN 1 ELSE p - 1
           k    == IF p = 1 THEN 0 ELSE d
           phi  == IF p = 1 THEN OpaTap ELSE (p - 1) * OpaTap + d * EnTap
           u    == [s EXCEPT !.enPhase = h, !.enDelay = k]
<1>1. Period \in Nat \ {0} /\ OpaTap \in Nat /\ EnTap \in Nat /\ PhaseMax \in Nat \ {0}
      /\ EnDelayMax \in Nat
  BY Clock
<1>2. mid \in Nat \ {0}
  BY DEF TypeOK, Search
<1>3. work \in 1 .. Period /\ w \in Int /\ mid = w * Period + work
  <2> HIDE DEF mid
  <2>1. mid - 1 \in Int
    BY <1>2
  <2>2. ((mid - 1) % Period) \in 0 .. Period - 1 /\ (mid - 1) \div Period \in Int
        /\ mid - 1 = Period * ((mid - 1) \div Period) + ((mid - 1) % Period)
    BY <1>1, <2>1, Rest
  <2>3. CASE mid > Period
    <3> DEFINE r == (mid - 1) % Period
               v == (mid - 1) \div Period
    <3>1. work = r + 1 /\ w = v
      BY <2>3
    <3> HIDE DEF r, v, work, w
    <3> QED
      BY <1>1, <1>2, <2>2, <3>1 DEF r, v
  <2>4. CASE ~ (mid > Period)
    BY <1>1, <1>2, <2>4
  <2> QED
    BY <2>3, <2>4
<1>4. EnGoto("en_final", u, EnIdle)
  BY Zenon DEF EnCentre
<1> HIDE DEF work
<1>5. /\ p \in 1 .. PhaseMax + 1 /\ d \in 0 .. EnDelayMax /\ SplitAt(work, phi)
  BY <1>3, SplitIs, Zenon
<1> HIDE DEF p, d
<1>6. /\ h \in 0 .. PhaseMax /\ k \in 0 .. EnDelayMax /\ phi = h * OpaTap + k * EnTap
      /\ phi \in Int
  <2>1. CASE p = 1
    <3>1. h = 1 /\ k = 0 /\ phi = OpaTap
      BY <2>1
    <3> HIDE DEF h, k, phi
    <3> QED
      BY <1>1, <3>1
  <2>2. CASE p # 1
    <3>1. h = p - 1 /\ k = d /\ phi = h * OpaTap + k * EnTap
      BY <2>2
    <3> HIDE DEF h, k, phi
    <3>2. h \in 0 .. PhaseMax /\ k \in 0 .. EnDelayMax
      BY <1>1, <1>5, <3>1
    <3> QED
      BY <1>1, <3>1, <3>2
  <2> QED
    BY <2>1, <2>2
<1> HIDE DEF h, k, phi
<1>7. u \in Settings /\ u.vfifo = s.vfifo /\ u.enPhase = h /\ u.enDelay = k
  <2>1. s \in Settings
    BY DEF OnlyGate
  <2> QED
    BY <1>6, <2>1 DEF Settings
<1> HIDE DEF u, w, mid
<1>8. mid = w * Period + work /\ u.enPhase * OpaTap + u.enDelay * EnTap = phi
  BY <1>3, <1>6, <1>7
<1> QED
  BY <1>3, <1>4, <1>5, <1>6, <1>7, <1>8, Zenon DEF mid

(* Half a number is rounded down.                                             *)
LEMMA Halved ==
  ASSUME NEW n \in Int, NEW k \in Int, n \div 2 = k
  PROVE  2 * k = n \/ 2 * k = n - 1
OBVIOUS

(* Where the middle is: after a window found by phases its phase may be later *)
(* than it is, when that is phase 1.                                          *)
LEMMA PhasesFit ==
  ASSUME board \in Boards, OneOpening, NEW g \in Int, NEW f \in Int, NEW q \in 1 .. PhaseMax,
         NEW bgn \in Int, NEW end \in Int, Found(g, f, q, 0, bgn),
         EndSeen(board, g, 0, bgn, end), NEW w \in Int, NEW work \in 1 .. Period,
         NEW phi \in Int, (bgn + end) \div 2 = w * Period + work, SplitAt(work, phi)
  PROVE  Unique(board, w * Period + phi - g)
<1> DEFINE L == board.gateLength
           M == GateMargin
           wp == w * Period
           fp == f * Period
           qo == q * OpaTap
           at == wp + phi - g
           a == Elapsed(f, q, 0) - g
           b == bgn - g
           z == end - g
<1>1. L \in Int /\ Period <= L /\ L <= 2 * Period - OpaTap - EnTap
  BY OpeningLength
<1>2. /\ Period \in Nat /\ OpaTap \in Nat \ {0} /\ EnTap \in Nat \ {0} /\ PhaseMax \in Nat
      /\ 4 * OpaTap <= Period /\ 2 * EnTap <= OpaTap /\ PhaseMax * OpaTap = Period - OpaTap
  BY Clock
<1>3. PICK m \in Nat : /\ M = m * OpaTap /\ M \in Nat
                       /\ Period = 2 * M + 2 * OpaTap \/ Period = 2 * M + 3 * OpaTap
  BY Margin
<1>4. /\ fp + qo = g + a /\ a \in Int /\ fp \in Int /\ qo \in Int /\ wp \in Int
  <2>1. Elapsed(f, q, 0) = fp + qo + 0 * EnTap /\ fp \in Int /\ qo \in Int
    BY ElapsedIs
  <2>2. wp \in Int
    BY <1>2
  <2> HIDE DEF fp, qo, wp
  <2> QED
    BY <1>2, <2>1, <2>2
<1>5. q \in 2 .. PhaseMax /\ 0 <= a /\ a < OpaTap /\ 0 <= b /\ b < EnTap /\ b <= a /\ b \in Int
  <2> DEFINE t == Elapsed(f, q, 0)
  <2>1. OpaTap # 0
    BY <1>2
  <2>2. /\ q \in 2 .. PhaseMax /\ t - g \in 0 .. OpaTap - 1
        /\ bgn - g \in 0 .. EnTap - 1 /\ bgn <= t
    BY <2>1 DEF Found
  <2>3. t \in Int
    BY ElapsedIs
  <2> HIDE DEF t
  <2>4. a = t - g
    BY DEF t
  <2> HIDE DEF a
  <2> QED
    BY <1>2, <2>2, <2>3, <2>4
<1>6. 2 * OpaTap <= qo /\ qo <= Period - OpaTap
  <2>1. q \in Int /\ PhaseMax \in Int /\ q >= 2 /\ PhaseMax >= q /\ OpaTap \in Nat
    BY <1>2, <1>5
  <2>2. q * OpaTap >= 2 * OpaTap /\ PhaseMax * OpaTap >= q * OpaTap
    BY <2>1, Multiples
  <2> QED
    BY <1>2, <2>2
<1>7. L - OpaTap <= z /\ z < L /\ z \in Int
  BY DEF EndSeen
<1>8. 2 * (wp + work) = bgn + end \/ 2 * (wp + work) = bgn + end - 1
  BY <1>4, Halved
<1>9. \/ work <= phi /\ phi < work + EnTap
      \/ work <= OpaTap /\ phi = OpaTap
  BY DEF SplitAt
<1>10. /\ (f + 1) * Period = fp + Period /\ (f + 2) * Period = fp + 2 * Period
       /\ w >= f + 2 => wp >= fp + 2 * Period
       /\ ((w - f) * (PhaseMax + 1) + 1 - q) * OpaTap = wp - fp + OpaTap - qo
  <2>1. (f + 1) * Period = fp + Period /\ (f + 2) * Period = fp + 2 * Period
    BY <1>2
  <2>2. w >= f + 2 => wp >= fp + 2 * Period
    BY <1>2, Multiples
  <2>3. ((w - f) * (PhaseMax + 1) + 1 - q) * OpaTap = (w - f) * Period + OpaTap - qo
    BY <1>2 DEF Period
  <2>4. (w - f) * Period = wp - fp
    BY <1>2
  <2> QED
    BY <2>1, <2>2, <2>3, <2>4
<1>11. ASSUME fp + Period < wp PROVE wp >= fp + 2 * Period
  <2>1. f + 1 \in Int /\ (f + 1) * Period < w * Period
    BY <1>10, <1>11
  <2>2. f + 1 < w
    BY <2>1, Below
  <2> QED
    BY <1>10, <2>2
<1>12. bgn = g + b /\ end = g + z
  OBVIOUS
<1> HIDE DEF L, M, wp, fp, qo, a, b, z
<1>13. at \in Int /\ at = wp + phi - g
  BY <1>4
<1> HIDE DEF at
<1>14. M <= at /\ L <= at + Period
  BY <1>1, <1>2, <1>3, <1>4, <1>5, <1>7, <1>8, <1>9, <1>12, <1>13
<1>15. CASE work <= phi /\ phi < work + EnTap
  <2>1. at <= L - 1 - M /\ at < Period
    BY <1>1, <1>2, <1>3, <1>4, <1>5, <1>7, <1>8, <1>12, <1>13, <1>15
  <2> QED
    BY <1>14, <2>1 DEF Unique, L, M, at, wp
<1>16. CASE work <= OpaTap /\ phi = OpaTap
  <2>1. at < Period
    <3> SUFFICES ASSUME at >= Period PROVE FALSE
      BY <1>2, <1>13
    <3>1. fp + Period < wp
      BY <1>2, <1>4, <1>5, <1>6, <1>13, <1>16
    <3>2. wp >= fp + 2 * Period
      BY <1>11, <3>1
    <3> QED
      BY <1>1, <1>2, <1>4, <1>5, <1>6, <1>7, <1>8, <1>12, <1>13, <1>16, <3>2
  <2>2. at <= L - 1 - M
    <3> SUFFICES ASSUME at >= L - M PROVE FALSE
      BY <1>1, <1>3, <1>13
    <3> DEFINE k == (w - f) * (PhaseMax + 1) + 1 - q
               ko == k * OpaTap
    <3>1. ko = at - a /\ k \in Int
      <4>1. ko = wp - fp + OpaTap - qo
        BY <1>10
      <4>2. k \in Int
        BY <1>2
      <4> HIDE DEF ko
      <4> QED
        BY <1>2, <1>4, <1>13, <1>16, <4>1, <4>2
    <3> HIDE DEF k
    <3>2. /\ (m + 1) * OpaTap = M + OpaTap /\ (m + 2) * OpaTap = M + 2 * OpaTap
          /\ (m + 3) * OpaTap = M + 3 * OpaTap
          /\ m + 1 >= k => (m + 1) * OpaTap >= ko
          /\ k >= m + 3 => ko >= (m + 3) * OpaTap
          /\ k = m + 2 => ko = (m + 2) * OpaTap
      <4>1. /\ m + 1 \in Int /\ m + 3 \in Int /\ OpaTap \in Nat /\ k \in Int
        BY <1>2, <1>3, <3>1
      <4>2. (m + 1 >= k => (m + 1) * OpaTap >= ko) /\ (k >= m + 3 => ko >= (m + 3) * OpaTap)
        BY <4>1, Multiples
      <4>3. /\ (m + 1) * OpaTap = M + OpaTap /\ (m + 2) * OpaTap = M + 2 * OpaTap
            /\ (m + 3) * OpaTap = M + 3 * OpaTap
        BY <1>2, <1>3
      <4> QED
        BY <4>2, <4>3
    <3> HIDE DEF ko
    <3>3. ko < M + 3 * OpaTap /\ M + OpaTap < ko /\ Period = 2 * M + 2 * OpaTap
      BY <1>1, <1>2, <1>3, <1>4, <1>5, <1>7, <1>8, <1>12, <1>13, <1>16, <3>1
    <3>4. ko = M + 2 * OpaTap
      BY <1>2, <1>3, <3>1, <3>2, <3>3
    <3> QED
      BY <1>1, <1>2, <1>3, <1>4, <1>5, <1>7, <1>8, <1>12, <1>13, <1>16, <3>1, <3>3, <3>4
  <2> QED
    BY <1>14, <2>1, <2>2 DEF Unique, L, M, at, wp
<1> QED
  BY <1>9, <1>15, <1>16

(* After a window found at phase 1, of which work_end is a phase behind, the  *)
(* phase of the middle is earlier than the middle.                            *)
LEMMA EdgeFits ==
  ASSUME board \in Boards, OneOpening, NEW g \in Int, NEW f \in Int, NEW q \in 1 .. PhaseMax,
         NEW bgn \in Int, NEW end \in Int, Found(g, f, q, OpaTap, bgn), end >= bgn,
         EndSeen(board, g, OpaTap, bgn, end + OpaTap), NEW w \in Int, NEW work \in 1 .. Period,
         NEW phi \in Int, (bgn + end) \div 2 = w * Period + work, SplitAt(work, phi)
  PROVE  Unique(board, w * Period + phi - g)
<1> DEFINE L == board.gateLength
           M == GateMargin
           wp == w * Period
           fp == f * Period
           at == wp + phi - g
           a == bgn - g
           y == (end + OpaTap) - bgn
<1>1. L \in Int /\ Period <= L /\ L <= 2 * Period - OpaTap - EnTap
  BY OpeningLength
<1>2. /\ Period \in Nat /\ OpaTap \in Nat \ {0} /\ EnTap \in Nat \ {0} /\ PhaseMax \in Nat
      /\ 4 * OpaTap <= Period /\ 2 * EnTap <= OpaTap /\ PhaseMax * OpaTap = Period - OpaTap
  BY Clock
<1>3. PICK m \in Nat : /\ M = m * OpaTap /\ M \in Nat
                       /\ Period = 2 * M + 2 * OpaTap \/ Period = 2 * M + 3 * OpaTap
  BY Margin
<1>4. /\ bgn = fp + OpaTap /\ fp \in Int /\ wp \in Int /\ a \in Int /\ 0 <= a /\ a < 2 * OpaTap
  <2>1. Elapsed(f, 1, 0) = fp + 1 * OpaTap + 0 * EnTap /\ fp \in Int
    BY ElapsedIs
  <2>2. bgn = Elapsed(f, q, 0) /\ q = 1 /\ bgn - g \in 0 .. 2 * OpaTap - 1
    BY <1>2 DEF Found
  <2>3. wp \in Int
    BY <1>2
  <2> HIDE DEF fp, wp
  <2> QED
    BY <1>2, <2>1, <2>2, <2>3
<1>5. /\ y \in Int /\ y >= OpaTap /\ a + y < L
      /\ a + y + EnTap >= L \/ (L <= a + Period /\ y >= Period - OpaTap)
  <2>1. OpaTap # 0 /\ OpaTap \in Int
    BY <1>2
  <2> QED
    BY <1>1, <1>2, <2>1 DEF EndSeen
<1>6. \/ y <= 2 * Period - 4 * OpaTap
      \/ y >= 2 * Period - 3 * OpaTap
      \/ \E t \in Nat : y = 2 * Period - 4 * OpaTap + t * EnTap /\ t * EnTap < OpaTap
  <2>1. OpaTap # 0
    BY <1>2
  <2> QED
    BY <2>1 DEF EndSeen
<1>7. 2 * (wp + work) = bgn + end \/ 2 * (wp + work) = bgn + end - 1
  BY <1>4, Halved
<1>8. bgn = g + a /\ end = bgn + y - OpaTap
  BY <1>2
<1>9. /\ wp < fp + Period => w < f + 1
      /\ fp < wp + Period => f < w + 1
      /\ w = f => wp = fp
  <2>1. (f + 1) * Period = fp + Period /\ (w + 1) * Period = wp + Period
    BY <1>2
  <2>2. /\ w * Period < (f + 1) * Period => w < f + 1
        /\ f * Period < (w + 1) * Period => f < w + 1
    BY Below
  <2> QED
    BY <2>1, <2>2
<1> HIDE DEF L, M, wp, fp, a, y
<1>10. wp = fp
  <2>1. wp < fp + Period /\ fp < wp + Period
    BY <1>1, <1>2, <1>4, <1>5, <1>7, <1>8
  <2> QED
    BY <1>9, <2>1
<1> DEFINE h == work - OpaTap
           u == phi - OpaTap
<1>11. h \in Int /\ u \in Int /\ 0 <= h /\ h <= u /\ u < h + EnTap
       /\ (2 * h = y - OpaTap \/ 2 * h = y - OpaTap - 1)
  <2>1. h \in Int /\ 0 <= h /\ (2 * h = y - OpaTap \/ 2 * h = y - OpaTap - 1)
    BY <1>2, <1>4, <1>5, <1>7, <1>8, <1>10
  <2>2. \/ work <= phi /\ phi < work + EnTap
        \/ work <= OpaTap /\ phi = OpaTap
    BY DEF SplitAt
  <2> QED
    BY <1>2, <2>1, <2>2
<1>12. at = a + u /\ at \in Int
  BY <1>2, <1>4, <1>8, <1>10
<1>13. work = OpaTap + h /\ phi = OpaTap + u
  BY <1>2
<1> HIDE DEF at, h, u
<1>14. M <= at /\ L <= at + Period /\ at <= L - 1 - M
  BY <1>1, <1>2, <1>3, <1>4, <1>5, <1>11, <1>12
<1>15. at < Period
  <2>1. CASE y <= 2 * Period - 4 * OpaTap
    BY <1>2, <1>4, <1>5, <1>11, <1>12, <2>1
  <2>2. CASE y >= 2 * Period - 3 * OpaTap
    BY <1>1, <1>2, <1>4, <1>5, <1>11, <1>12, <2>2
  <2>3. ASSUME NEW t \in Nat, y = 2 * Period - 4 * OpaTap + t * EnTap, t * EnTap < OpaTap
        PROVE  at < Period
    <3> DEFINE z == t * EnTap
    <3>1. z \in Nat /\ y = 2 * Period - 4 * OpaTap + z /\ z < OpaTap /\ (t + 1) * EnTap = z + EnTap
      BY <1>2, <2>3
    <3>2. PICK o \in 1 .. PhaseMax :
            /\ o * OpaTap < work /\ work <= o * OpaTap + OpaTap
            /\ \A i \in Nat : o * OpaTap + i * EnTap >= work => phi <= o * OpaTap + i * EnTap
      <4>1. ~ (work <= OpaTap)
        <5> HIDE DEF z
        <5> QED
          BY <1>2, <1>11, <1>13, <3>1
      <4> QED
        BY <4>1, Zenon DEF SplitAt
    <3> HIDE DEF z
    <3>3. o * OpaTap = Period - 2 * OpaTap
      <4> DEFINE e == o * OpaTap
      <4>1. /\ o >= PhaseMax => e >= PhaseMax * OpaTap
            /\ PhaseMax - 2 >= o => (PhaseMax - 2) * OpaTap >= e
            /\ PhaseMax - 1 = o => (PhaseMax - 1) * OpaTap = e
            /\ e \in Int
        <5>1. o \in Int /\ PhaseMax \in Int /\ PhaseMax - 2 \in Int /\ PhaseMax - 1 \in Int
              /\ OpaTap \in Nat
          BY <1>2
        <5> QED
          BY <5>1, Multiples
      <4>2. /\ (PhaseMax - 2) * OpaTap = Period - 3 * OpaTap
            /\ (PhaseMax - 1) * OpaTap = Period - 2 * OpaTap
        BY <1>2
      <4>3. e < work /\ work <= e + OpaTap
        BY <3>2
      <4> HIDE DEF e
      <4>4. ~ (e >= Period - OpaTap) /\ ~ (e <= Period - 3 * OpaTap)
        BY <1>2, <1>11, <1>13, <3>1, <4>1, <4>3
      <4>5. e = Period - 2 * OpaTap
        BY <1>2, <4>1, <4>2, <4>4
      <4> QED
        BY <4>5 DEF e
    <3>4. z + EnTap >= h - (Period - 3 * OpaTap) => u <= Period - 3 * OpaTap + z + EnTap
      <4>1. t + 1 \in Nat
        OBVIOUS
      <4>2. o * OpaTap + (t + 1) * EnTap >= work => phi <= o * OpaTap + (t + 1) * EnTap
        BY <3>2, <4>1
      <4>3. Period - 2 * OpaTap + z + EnTap >= work => phi <= Period - 2 * OpaTap + z + EnTap
        BY <1>2, <3>1, <3>3, <4>2
      <4> QED
        BY <1>2, <1>11, <1>13, <3>1, <4>3
    <3> QED
      BY <1>1, <1>2, <1>4, <1>5, <1>11, <1>12, <3>1, <3>4
  <2> QED
    BY <1>6, <2>1, <2>2, <2>3
<1> QED
  BY <1>14, <1>15 DEF Unique, L, M, at, wp

(* The time of a setting since the search began, at a place of the FIFO.      *)
LEMMA SettingElapsed ==
  ASSUME NEW u \in Settings, NEW n \in Int
  PROVE  /\ Elapsed(n, u.enPhase, u.enDelay)
              = n * Period + (u.enPhase * OpaTap + u.enDelay * EnTap)
         /\ u.enPhase * OpaTap + u.enDelay * EnTap \in Int /\ n * Period \in Int
<1> DEFINE h == u.enPhase
           d == u.enDelay
           np == n * Period
           ho == h * OpaTap
           dt == d * EnTap
<1>1. h \in Int /\ d \in Int
  <2>1. h \in 0 .. PhaseMax /\ d \in 0 .. EnDelayMax
    BY DEF Settings
  <2> QED
    BY <2>1, Clock
<1> HIDE DEF h, d
<1>2. Elapsed(n, h, d) = np + ho + dt /\ np \in Int /\ ho \in Int /\ dt \in Int
  BY <1>1, ElapsedIs
<1> HIDE DEF np, ho, dt
<1>3. Elapsed(n, h, d) = np + (ho + dt) /\ ho + dt \in Int
  BY <1>2
<1> QED
  BY <1>2, <1>3 DEF h, d, np, ho, dt

(* The middle opens the gate a number of clocks late, up to a turn.           *)
LEMMA CentreSeen ==
  ASSUME TypeOK, OneOpening, EdgesFound(board, phy, en), en.bgn > 0, en.end >= en.bgn,
         NEW s, OnlyGate(phy, s), s.vfifo = phy.vfifo, NEW taps, EnCentre(s, taps)
  PROVE  GateSeen(board, step', phy', en', result')
<1> DEFINE bgn == en.bgn
           end == en.end
<1>1. board \in Boards /\ bgn \in Int /\ end \in Int
  BY DEF TypeOK, Search
<1>2. PICK g, n, f \in Int, q \in 1 .. PhaseMax, lag \in {0, OpaTap} :
        EdgesAt(board, phy, en, g, n, f, q, lag)
  BY DEF EdgesFound
<1>3. PICK w \in Int, work \in 1 .. Period, phi \in Int, u \in Settings :
        /\ (bgn + end) \div 2 = w * Period + work /\ SplitAt(work, phi)
        /\ u.vfifo = s.vfifo /\ u.enPhase * OpaTap + u.enDelay * EnTap = phi
        /\ EnGoto("en_final", u, EnIdle)
  BY CentreIs, Zenon
<1> DEFINE at == w * Period + phi - g
<1>4. /\ Placed(board, phy, n, g) /\ Found(g, f, q, lag, bgn)
      /\ EndSeen(board, g, lag, bgn, end + lag) /\ end >= bgn
  BY <1>2 DEF EdgesAt
<1>5. Unique(board, at)
  <2> HIDE DEF bgn, end
  <2>1. CASE lag = 0
    <3>1. end + lag = end
      BY <1>1, <2>1
    <3>2. Found(g, f, q, 0, bgn) /\ EndSeen(board, g, 0, bgn, end)
      BY <1>4, <2>1, <3>1
    <3> QED
      BY <1>1, <1>3, <3>2, PhasesFit, Zenon
  <2>2. CASE lag = OpaTap
    <3>1. Found(g, f, q, OpaTap, bgn) /\ EndSeen(board, g, OpaTap, bgn, end + OpaTap) /\ end >= bgn
      BY <1>4, <2>2
    <3> QED
      BY <1>1, <1>3, <3>1, EdgeFits, Zenon
  <2> QED
    BY <2>1, <2>2
<1>6. Placed(board, u, n, g)
  BY <1>3, <1>4, SamePlace
<1> DEFINE x == Elapsed(n, u.enPhase, u.enDelay) - g
           r == (n - w) % VfifoSize
           k == (n - w) \div VfifoSize
           np == n * Period
           wp == w * Period
           rp == r * Period
           ck == Cycle * k
<1>7. Offset(board, u) = x % Cycle /\ x \in Int
  BY <1>1, <1>6, OffsetIs
<1>8. x = np + phi - g /\ np \in Int /\ wp \in Int
  <2> DEFINE t == Elapsed(n, u.enPhase, u.enDelay)
  <2>1. t = np + phi /\ np \in Int
    BY Zenon, <1>3, SettingElapsed
  <2>2. x = t - g /\ wp \in Int
    BY Clock
  <2> HIDE DEF t, x, np, wp
  <2> QED
    BY <2>1, <2>2
<1>9. /\ r \in 0 .. VfifoSize - 1 /\ k \in Int /\ n - w = VfifoSize * k + r
      /\ VfifoSize \in Nat \ {0} /\ Period \in Nat \ {0} /\ Cycle \in Nat \ {0}
      /\ Cycle = VfifoSize * Period
  BY Clock, Rest
<1> HIDE DEF r, k
<1>10. np = wp + ck + rp /\ ck \in Int /\ rp \in Nat /\ rp <= Cycle - Period
  <2>1. n = w + VfifoSize * k + r /\ VfifoSize * k \in Int /\ r \in Nat /\ VfifoSize - 1 >= r
    BY <1>9
  <2>2. np = wp + (VfifoSize * k) * Period + rp /\ (VfifoSize * k) * Period = ck
    BY <1>9, <2>1
  <2>3. (VfifoSize - 1) * Period >= rp /\ (VfifoSize - 1) * Period = Cycle - Period
    <3>1. VfifoSize - 1 \in Int /\ r \in Int /\ Period \in Nat
      BY <1>9, <2>1
    <3>2. (VfifoSize - 1) * Period >= rp
      BY <2>1, <3>1, Multiples
    <3> QED
      BY <1>9, <3>2
  <2>4. ck \in Int /\ rp \in Nat
    BY <1>9, <2>1
  <2> HIDE DEF np, wp, rp, ck
  <2> QED
    BY <1>9, <2>2, <2>3, <2>4
<1>11. at \in Int /\ at = wp + phi - g
  BY <1>8
<1>12. 0 <= at /\ at < Period
  <2> HIDE DEF at
  <2> QED
    BY <1>5, <1>11, Margin DEF Unique
<1> HIDE DEF at, x, np, wp, rp
<1>13. x = ck + (at + rp) /\ at + rp \in 0 .. Cycle - 1
  <2> HIDE DEF ck
  <2> QED
    BY <1>7, <1>8, <1>9, <1>10, <1>11, <1>12
<1>14. x % Cycle = at + rp
  BY <1>7, <1>9, <1>13, RestIs
<1>15. FinalSought(board, u, EnIdle)
  <2>1. Offset(board, u) = at + r * Period /\ (r = 0 \/ r > EnIdle.i)
    <3>1. EnIdle.i = 0
      BY DEF EnIdle
    <3> QED
      BY <1>7, <1>9, <1>14, <3>1 DEF rp
  <2> QED
    BY <1>5, <1>9, <1>11, <2>1 DEF FinalSought
<1>16. GateSeen(board, "en_final", u, EnIdle, result)
  BY <1>15 DEF GateSeen
<1> QED
  BY <1>3, <1>16, GotoSeen

(* The edges are known until the middle is taken, which the passes and        *)
(* failures in between leave as they are.                                     *)
LEMMA RePassSeen ==
  ASSUME TypeOK, OneOpening, GateSearch, EdgesFound(board, phy, en), EnRePass \/ EnReFail
  PROVE  GateSeen(board, step', phy', en', result')
<1> DEFINE s == [phy EXCEPT !.enDelay = en.d]
           l == [en EXCEPT !.d = @ + 1]
<1>1. /\ step \in {"en_repass", "en_refail"} /\ en \in Search /\ phy \in Settings
      /\ en.d \in Nat
  BY DEF EnRePass, EnReFail, TypeOK, Search
<1>2. en.bgn > 0 /\ en.end >= en.bgn
  BY <1>1 DEF GateSearch, EnReady
<1>3. OnlyGate(phy, phy)
  BY <1>1, Unmoved
<1>4. s.vfifo = phy.vfifo /\ l.bgn = en.bgn /\ l.end = en.end
  BY <1>1 DEF Search, Settings
<1>5. ASSUME ~ (en.d > EnDelayMax) PROVE OnlyGate(phy, s)
  <2>1. en.d \in 0 .. EnDelayMax
    BY <1>1, <1>5, Constants
  <2> QED
    BY <1>3, <2>1, TapSet, Zenon
<1>6. \/ EnCentre(phy, DtapsPerPtap)
      \/ ~ (en.d > EnDelayMax) /\ EnCentre(s, en.d - en.from)
      \/ EnGoto("en_refail", s, l) \/ EnGoto("en_repass", s, l)
  <2>1. CASE EnRePass
    BY <2>1, Zenon DEF EnRePass
  <2>2. CASE EnReFail
    BY <2>2, Zenon DEF EnReFail
  <2> QED
    BY <2>1, <2>2
<1>7. EdgesFound(board, s, l)
  <2> HIDE DEF s, l
  <2>1. PICK g, n, f \in Int, q \in 1 .. PhaseMax, lag \in {0, OpaTap} :
          EdgesAt(board, phy, en, g, n, f, q, lag)
    BY DEF EdgesFound
  <2>2. EdgesAt(board, s, l, g, n, f, q, lag)
    BY <1>4, <2>1 DEF EdgesAt, Placed
  <2> QED
    BY <2>2 DEF EdgesFound
<1> HIDE DEF s, l
<1>8. GateSeen(board, "en_refail", s, l, result) /\ GateSeen(board, "en_repass", s, l, result)
  BY <1>7 DEF GateSeen
<1>9. CASE EnCentre(phy, DtapsPerPtap)
  BY <1>2, <1>3, <1>9, CentreSeen
<1>10. CASE ~ (en.d > EnDelayMax) /\ EnCentre(s, en.d - en.from)
  BY <1>2, <1>4, <1>5, <1>10, CentreSeen
<1> QED
  BY <1>6, <1>8, <1>9, <1>10, GotoSeen

(* The FIFO is pushed to the one place in which the middle reads.             *)
LEMMA FinalSeen ==
  ASSUME TypeOK, OneOpening, phy.mem = "open", FinalSought(board, phy, en), EnFinal
  PROVE  GateSeen(board, step', phy', en', result')
<1> DEFINE l == [en EXCEPT !.i = @ + 1]
           i == en.i
           L == board.gateLength
           x == Offset(board, phy)
<1>1. /\ board \in Boards /\ en \in Search /\ phy \in Settings /\ i \in Nat
  BY DEF TypeOK, Search
<1>2. l.i = i + 1
  BY <1>1 DEF Search
<1>3. PICK at \in Int, n \in 0 .. VfifoSize - 1 :
        Unique(board, at) /\ x = at + n * Period /\ (n = 0 \/ n > i)
  BY DEF FinalSought
<1> DEFINE np == n * Period
<1>4. /\ L \in Int /\ L <= at + Period /\ 0 <= at /\ at < L /\ GateMargin <= at
      /\ at <= L - 1 - GateMargin /\ at < Period
  <2>1. L \in Int /\ GateMargin \in Nat
    BY <1>1, OpeningType, Margin
  <2> QED
    BY <1>3, <2>1 DEF Unique
<1>5. /\ Period \in Nat /\ Cycle \in Nat /\ VfifoSize \in Nat /\ Cycle = VfifoSize * Period
  BY Clock
<1>6. /\ n = 0 => np = 0
      /\ n # 0 => np >= Period
      /\ (n + 1) * Period = np + Period /\ n \in Int /\ np \in Int
      /\ VfifoSize - 1 >= n => Cycle - Period >= np
      /\ n = VfifoSize - 1 => np = Cycle - Period
      /\ VfifoSize - 2 >= n => Cycle - 2 * Period >= np
  <2>1. n \in Int /\ VfifoSize - 1 \in Int /\ VfifoSize - 2 \in Int /\ 1 \in Int /\ Period \in Nat
    BY <1>5
  <2>2. n >= 1 => np >= 1 * Period
    BY <2>1, Multiples
  <2>3. /\ VfifoSize - 1 >= n => (VfifoSize - 1) * Period >= np
        /\ VfifoSize - 2 >= n => (VfifoSize - 2) * Period >= np
        /\ n = VfifoSize - 1 => np = (VfifoSize - 1) * Period
    BY <2>1, Multiples
  <2>4. (VfifoSize - 1) * Period = Cycle - Period /\ (VfifoSize - 2) * Period = Cycle - 2 * Period
    BY <1>5
  <2>5. (n + 1) * Period = np + Period /\ np \in Int /\ (n = 0 => np = 0)
    BY <2>1
  <2> HIDE DEF np
  <2> QED
    BY <2>1, <2>2, <2>3, <2>4, <2>5
<1>7. Passes(phy) <=> x < L
  BY <1>1, Unmoved, PassesInside
<1>8. x = at + np
  BY <1>3
<1>9. x \in 0 .. Cycle - 1
      /\ Offset(board, Push(phy)) = IF x + Period < Cycle THEN x + Period ELSE x + Period - Cycle
  BY <1>1, PushedOffset
<1> HIDE DEF x, np, L
<1>10. Passes(phy) <=> n = 0
  BY <1>4, <1>5, <1>6, <1>7, <1>8
<1>11. \/ Passes(phy) /\ EnReturn(TRUE, phy)
       \/ ~ Passes(phy) /\ i + 1 < VfifoSize /\ EnGoto("en_final", Push(phy), l)
       \/ ~ Passes(phy) /\ ~ (i + 1 < VfifoSize)
  <2> HIDE DEF l
  <2> QED
    BY Zenon DEF EnFinal, l, i
<1>12. CASE Passes(phy) /\ EnReturn(TRUE, phy)
  <2>1. x = at
    BY <1>6, <1>8, <1>10, <1>12
  <2>2. GateSeen(board, "en_return", phy, EnIdle, TRUE)
    BY <1>4, <2>1 DEF GateSeen, x, L
  <2> QED
    BY <1>12, <2>2 DEF EnReturn
<1>13. CASE ~ Passes(phy) /\ i + 1 < VfifoSize /\ EnGoto("en_final", Push(phy), l)
  <2> DEFINE m == IF n = VfifoSize - 1 THEN 0 ELSE n + 1
  <2>1. m \in 0 .. VfifoSize - 1 /\ (m = 0 \/ m > l.i)
    <3> HIDE DEF l
    <3> QED
      BY <1>1, <1>2, <1>3, <1>5, <1>10, <1>13
  <2>2. Offset(board, Push(phy)) = at + m * Period
    <3>1. CASE n = VfifoSize - 1
      <4>1. m * Period = 0
        BY <1>5, <3>1
      <4> HIDE DEF m
      <4> QED
        BY <1>4, <1>5, <1>6, <1>8, <1>9, <3>1, <4>1
    <3>2. CASE n # VfifoSize - 1
      <4>1. m * Period = np + Period /\ VfifoSize - 2 >= n
        BY <1>5, <1>6, <3>2
      <4> HIDE DEF m
      <4> QED
        BY <1>4, <1>5, <1>6, <1>8, <1>9, <4>1
    <3> QED
      BY <3>1, <3>2
  <2> HIDE DEF m, l
  <2>3. FinalSought(board, Push(phy), l)
    BY <1>3, <2>1, <2>2 DEF FinalSought
  <2>4. GateSeen(board, "en_final", Push(phy), l, result)
    BY <2>3 DEF GateSeen
  <2> QED
    BY <1>13, <2>4, GotoSeen
<1>14. CASE ~ Passes(phy) /\ ~ (i + 1 < VfifoSize)
  BY <1>1, <1>3, <1>5, <1>10, <1>14
<1> QED
  BY <1>11, <1>12, <1>13, <1>14

(* Every step of the search goes on with what the next one needs.             *)
LEMMA SearchSeen ==
  ASSUME TypeOK, GateSearch, phy.mem = "open", OneOpening,
         GateSeen(board, step, phy, en, result), FindDqsEnPhase
  PROVE  GateSeen(board, step', phy', en', result')
<1>1. CASE EnSeekFail
  <2>1. FailSought(board, phy, en)
    BY <1>1 DEF EnSeekFail, GateSeen
  <2> QED
    BY <1>1, <2>1, FailSeen
<1>2. CASE EnSeekBegin
  <2>1. BeginSought(board, phy, en)
    BY <1>2 DEF EnSeekBegin, GateSeen
  <2> QED
    BY <1>2, <2>1, BeginSeen
<1>3. CASE EnSeekLeft
  <2>1. LeftSought(board, phy, en)
    BY <1>3 DEF EnSeekLeft, GateSeen
  <2> QED
    BY <1>3, <2>1, LeftEdgeSeen
<1>4. CASE EnSeekEnd
  <2>1. EndSought(board, phy, en)
    BY <1>4 DEF EnSeekEnd, GateSeen
  <2> QED
    BY <1>4, <2>1, EndFound
<1>5. CASE EnSeekRight
  <2>1. RightSought(board, phy, en)
    BY <1>5 DEF EnSeekRight, GateSeen
  <2> QED
    BY <1>5, <2>1, RightFound
<1>6. CASE EnRePass \/ EnReFail
  <2>1. EdgesFound(board, phy, en)
    BY <1>6 DEF EnRePass, EnReFail, GateSeen
  <2> QED
    BY <1>6, <2>1, RePassSeen
<1>7. CASE EnFinal
  <2>1. FinalSought(board, phy, en)
    BY <1>7 DEF EnFinal, GateSeen
  <2> QED
    BY <1>7, <2>1, FinalSeen
<1> QED
  BY <1>1, <1>2, <1>3, <1>4, <1>5, <1>6, <1>7 DEF FindDqsEnPhase

(* Nothing is known, nor needed, where the gate is not searched.              *)
LEMMA OutsideSeen ==
  ASSUME step' \notin EnStep
  PROVE  GInv'
BY DEF GInv, GateSeen, EnStep

(* Every step preserves what is known of the opening.                         *)
LEMMA NextGInv == IInv /\ GInv /\ [Next]_vars => GInv'
<1> SUFFICES ASSUME IInv, GInv, [Next]_vars PROVE GInv'
  OBVIOUS
<1>1. TypeOK /\ GateSearch /\ StrobeInChain /\ Control
  BY DEF IInv
<1>2. CASE FindDqsEnPhase /\ UNCHANGED <<rd, wr, vf, reg, saved>>
  <2>1. EnGoes /\ step \in EnStep
    BY <1>1, <1>2, SearchGoes
  <2>2. OneOpening' => OneOpening
    BY <2>1 DEF EnGoes, OnlyGate, SameMemory, SameInput, OneOpening, Aligned
  <2>3. phy.mem = "open"
    BY <1>1, <2>1, Classes DEF Control, EnStep
  <2>4. OneOpening => GateSeen(board, step', phy', en', result')
    BY <1>1, <1>2, <2>3, SearchSeen DEF GInv
  <2>5. board' = board
    BY <2>1 DEF EnGoes
  <2> QED
    BY <2>2, <2>4, <2>5 DEF GInv
<1>3. CASE SweepDqIn
  <2>1. step' = "en_fail" /\ phy'.enPhase = 1 /\ phy'.enDelay = 0 /\ en' = EnIdle
    BY <1>1, <1>3 DEF SweepDqIn, EnEnter, TypeOK, Settings
  <2>2. FailSought(board', phy', en')
    BY <2>1 DEF FailSought, EnIdle
  <2> QED
    BY <2>1, <2>2 DEF GInv, GateSeen
<1>4. CASE \/ VfifoCenter /\ UNCHANGED <<en, wr, dtaps, vf, reg, saved>>
           \/ WritesCenter /\ UNCHANGED <<en, dtaps, vf, reg, saved>>
  <2>1. step' \in RdStep \cup WrStep
    BY <1>1, <1>4, DeskewGoes, WritesGoes DEF RdGoes, WrGoes, IInv
  <2> QED
    BY <2>1, Classes, OutsideSeen
<1>5. CASE InitializeRegisters \/ TakePhy \/ MemCalibrate \/ GuaranteedRead \/ LowerLatency
  <2>1. step' \in {"run", "calibrate", "vfifo", "vfifo_try", "lfifo", "handoff"}
    BY <1>5 DEF InitializeRegisters, TakePhy, MemCalibrate, GuaranteedRead, NextOutDelay, Finish,
         LowerLatency, LowerBy
  <2> QED
    BY <2>1, OutsideSeen DEF EnStep
<1>6. CASE GateSearched \/ ReadSideDone \/ WriteSideDone \/ ReadSideDoneAgain
  <2>1. step' \in {"rd_left", "wr_left", "vfifo", "vfifo_try", "lfifo", "handoff"}
    BY <1>6 DEF GateSearched, ReadSideDone, WriteSideDone, ReadSideDoneAgain, RdEnter, WrEnter,
         NextStrobeDelay, NextOutDelay, Finish
  <2> QED
    BY <2>1, OutsideSeen DEF EnStep
<1>7. CASE ReleaseMemory \/ HandOff \/ RestoreTracking \/ Report
  <2>1. step' \in {"mux", "restore", "report", "done"}
    BY <1>7 DEF ReleaseMemory, HandOff, RestoreTracking, Report
  <2> QED
    BY <2>1, OutsideSeen DEF EnStep
<1>8. CASE Done \/ UNCHANGED vars
  <2>1. UNCHANGED <<board, phy, step, en, result>>
    BY <1>8 DEF Done, vars
  <2> QED
    BY <2>1 DEF GInv, OneOpening, Aligned
<1> QED
  BY <1>2, <1>3, <1>4, <1>5, <1>6, <1>7, <1>8 DEF Next

(* Whatever the board: a gate that may open for at least a clock and for less *)
(* than two clocks but a phase and a tap is found, and the setting chosen     *)
(* keeps half a clock less a phase from either end of it                      *)
(* (rw_mgr_mem_calibrate_vfifo_find_dqs_en_phase).                            *)
THEOREM GateIsCentred == Spec => []GateCentred
<1>1. Init => GInv
  <2>1. Init => step \notin EnStep
    BY DEF Init, EnStep
  <2> QED
    BY <2>1 DEF GInv, GateSeen, EnStep
<1>2. IInv /\ GInv => GateCentred
  <2> SUFFICES ASSUME IInv, GInv, step = "en_return", phy.loaded, Aligned(phy) # {},
                      board.gateLength \in Period .. 2 * Period - OpaTap - EnTap
               PROVE  /\ result /\ Offset(board, phy) >= GateMargin
                      /\ board.gateLength - 1 - Offset(board, phy) >= GateMargin
    BY DEF GateCentred, Offset
  <2>1. /\ result /\ GateMargin <= Offset(board, phy)
        /\ Offset(board, phy) <= board.gateLength - 1 - GateMargin
    BY DEF GInv, OneOpening, GateSeen
  <2>2. board \in Boards /\ phy \in Settings
    BY DEF IInv, TypeOK
  <2>3. GateMargin \in Nat /\ board.gateLength \in Int /\ Offset(board, phy) \in Int
    BY <2>2, Margin, OpeningType, PushedOffset, Clock
  <2> QED
    BY <2>1, <2>3
<1>3. Init /\ [][Next]_vars => [](IInv /\ GInv)
  BY <1>1, InitIInv, NextIInv, NextGInv, PTL
<1> QED
  BY <1>2, <1>3, PTL DEF Spec
=============================================================================
