------------------------------ MODULE HalProofs ------------------------------
(***************************************************************************)
(* Proofs about two services of the HAL of the Nios.                       *)
(*                                                                         *)
(* The system clock, for every number of alarms, every word size and every *)
(* tick rate.  The inductive invariant adds to the links (1) what alt_tick *)
(* still has ahead of it, as the closure of the link next from where it    *)
(* stands, (2) the range of the ticks left, which makes the comparison of  *)
(* the words exact, and (3) the offset that settimeofday leaves in         *)
(* alt_resettime.                                                          *)
(*                                                                         *)
(* The descriptor table, for every size of the table, every set of devices *)
(* and every choice of standard streams.                                   *)
(***************************************************************************)
EXTENDS SystemClock, FileTable, TLAPS

(* An alarm that is not in the list was never linked or links to itself.   *)
SelfLinked ==
  \A a \in Alarms \ registered :
    next[a] \in {a, Null} /\ previous[a] = next[a]

(* From where alt_tick stands it reaches every alarm it has not passed.    *)
ReachesRest ==
  \A S \in SUBSET Linked :
    alarm \in S /\ (\A x \in S \ {alt_alarm_list} : next[x] \in S)
      => registered \ seen \subseteq S

InTheList == alarm \in Linked /\ (InTick => ReachesRest)

DueInRange ==
  \A a \in registered :
    /\ TicksLeft(a) \in 0 .. W - 1
    /\ (InTick /\ a \notin seen) \/ TicksLeft(a) > 0

(* An alarm passed by the tick that wrapped the counter has no flag left.  *)
PassedUnrolled ==
  InTick /\ nticks = 0 => \A a \in registered \cap seen : ~rollover[a]

SetOffset ==
  set # NotSet =>
    /\ set.ticks \in 0 .. nticks
    /\ set.time \in Nat
    /\ tv_sec * ALT_US + tv_usec = set.time - set.ticks * MicrosPerTick

IInv ==
  /\ TypeOK /\ LinksAgree /\ SelfLinked /\ InTheList
  /\ DueInRange /\ PassedUnrolled /\ SetOffset
----------------------------------------------------------------------------
(* Arithmetic of seconds and microseconds.                                 *)
LEMMA QuotientUnique ==
  ASSUME NEW m \in Nat, NEW d \in Nat \ {0}, NEW q \in Nat, NEW r \in 0 .. d - 1,
         m = q * d + r
  PROVE  m \div d = q /\ m % d = r
<1> DEFINE p == m \div d
<1>1. p \in Int /\ p * d <= m /\ m < p * d + d
  OBVIOUS
<1>2. ~(p < q)
  <2>1. SUFFICES ASSUME p + 1 <= q PROVE FALSE
    BY <1>1
  <2>2. (p + 1) * d <= q * d
    BY <1>1, <2>1
  <2>3. (p + 1) * d = p * d + d
    BY <1>1
  <2> QED
    BY <1>1, <2>2, <2>3
<1>3. ~(q < p)
  <2>1. SUFFICES ASSUME q + 1 <= p PROVE FALSE
    BY <1>1
  <2>2. (q + 1) * d <= p * d
    BY <1>1, <2>1
  <2>3. (q + 1) * d = q * d + d
    OBVIOUS
  <2> QED
    BY <1>1, <2>2, <2>3
<1>4. p = q
  BY <1>1, <1>2, <1>3
<1>5. m % d = m - p * d
  OBVIOUS
<1> QED
  BY <1>4, <1>5

(* Ticks, split into seconds and microseconds, are their microseconds.     *)
LEMMA TicksAsTime ==
  ASSUME NEW n \in Nat
  PROVE  /\ n \div Rate \in Nat
         /\ (n * MicrosPerTick) % ALT_US \in 0 .. ALT_US - 1
         /\ (n \div Rate) * ALT_US + ((n * MicrosPerTick) % ALT_US)
              = n * MicrosPerTick
<1> DEFINE q == n \div Rate
           r == n % Rate
           k == MicrosPerTick
<1>1. Rate \in Nat \ {0} /\ k \in Nat \ {0}
  BY RateAssumption
<1>2. q \in Nat /\ r \in 0 .. Rate - 1 /\ n = q * Rate + r
  BY <1>1
<1>3. ALT_US \in Nat \ {0}
  BY <1>1 DEF ALT_US
<1>4. q * (Rate * k) = (q * Rate) * k
  BY <1>1, <1>2
<1>5. (q * Rate + r) * k = (q * Rate) * k + r * k
  BY <1>1, <1>2
<1>6. n * k = q * ALT_US + r * k
  BY <1>2, <1>4, <1>5 DEF ALT_US
<1>7. r * k \in Nat /\ n * k \in Nat
  BY <1>1, <1>2
<1>8. r * k < ALT_US
  <2>1. (r + 1) * k <= Rate * k
    BY <1>1, <1>2
  <2>2. (r + 1) * k = r * k + k
    BY <1>1, <1>2
  <2> QED
    BY <1>1, <1>7, <2>1, <2>2 DEF ALT_US
<1>9. (n * k) % ALT_US = r * k
  BY <1>2, <1>3, <1>6, <1>7, <1>8, QuotientUnique
<1> QED
  BY <1>2, <1>3, <1>6, <1>7, <1>8, <1>9
----------------------------------------------------------------------------
(* The macros of alt_llist.h.                                              *)
Links == LinksAgree /\ SelfLinked

LEMMA InsertLinks ==
  ASSUME TypeOK, Links, NEW a \in Alarms \ registered, Insert(a)
  PROVE  /\ Links'
         /\ Linked' = Linked \union {a}
<1> DEFINE h == alt_alarm_list
           f == next[h]
<1> USE ListAssumption
<1>1. Linked' = Linked \union {a} /\ a \notin Linked /\ h \in Linked /\ a # h
  BY DEF Insert, Linked
<1>2. f \in Linked /\ previous[f] = h /\ f # a
  BY <1>1 DEF Links, LinksAgree
<1>3. Linked \subseteq Nodes /\ a \in Nodes /\ h \in Nodes
  BY DEF Linked, Nodes, TypeOK
<1>4. /\ next' = [next EXCEPT ![a] = f, ![h] = a]
      /\ previous' = [previous EXCEPT ![a] = h, ![f] = a]
      /\ registered' = registered \union {a}
  BY DEF Insert
<1>5. /\ next'[a] = f /\ next'[h] = a
      /\ \A x \in Nodes \ {a, h} : next'[x] = next[x]
  BY <1>1, <1>3, <1>4 DEF TypeOK
<1>6. /\ previous'[a] = h /\ previous'[f] = a
      /\ \A x \in Nodes \ {a, f} : previous'[x] = previous[x]
  BY <1>1, <1>2, <1>3, <1>4 DEF TypeOK
<1>7. \A x \in Linked' : next'[x] \in Linked' /\ previous'[next'[x]] = x
  <2> SUFFICES ASSUME NEW x \in Linked'
               PROVE  next'[x] \in Linked' /\ previous'[next'[x]] = x
    OBVIOUS
  <2>1. CASE x = a
    BY <2>1, <1>1, <1>2, <1>5, <1>6
  <2>2. CASE x = h
    BY <2>2, <1>1, <1>5, <1>6
  <2>3. CASE x \notin {a, h}
    <3>1. x \in Linked /\ next'[x] = next[x] /\ next[x] \in Linked
          /\ previous[next[x]] = x
      BY <2>3, <1>1, <1>3, <1>5 DEF Links, LinksAgree
    <3>2. next[x] # f /\ next[x] # a
      BY <3>1, <2>3, <1>1, <1>2
    <3> QED
      BY <3>1, <3>2, <1>1, <1>3, <1>6
  <2> QED
    BY <2>1, <2>2, <2>3
<1>8. \A x \in Linked' : previous'[x] \in Linked' /\ next'[previous'[x]] = x
  <2> SUFFICES ASSUME NEW x \in Linked'
               PROVE  previous'[x] \in Linked' /\ next'[previous'[x]] = x
    OBVIOUS
  <2>1. CASE x = a
    BY <2>1, <1>1, <1>2, <1>5, <1>6
  <2>2. CASE x = f
    BY <2>2, <1>1, <1>2, <1>5, <1>6
  <2>3. CASE x \notin {a, f}
    <3>1. x \in Linked /\ previous'[x] = previous[x] /\ previous[x] \in Linked
          /\ next[previous[x]] = x
      BY <2>3, <1>1, <1>3, <1>6 DEF Links, LinksAgree
    <3>2. previous[x] # h /\ previous[x] # a
      BY <3>1, <2>3, <1>1, <1>2
    <3> QED
      BY <3>1, <3>2, <1>1, <1>3, <1>5
  <2> QED
    BY <2>1, <2>2, <2>3
<1>9. ASSUME NEW S \in SUBSET Linked', h \in S, \A x \in S : next'[x] \in S
      PROVE  S = Linked'
  <2> DEFINE T == S \ {a}
  <2>1. a \in S /\ f \in S
    BY <1>5, <1>9
  <2>2. T \in SUBSET Linked /\ h \in T
    BY <1>1, <1>9
  <2>3. \A x \in T : next[x] \in T
    <3> SUFFICES ASSUME NEW x \in T PROVE next[x] \in T
      OBVIOUS
    <3>1. next[x] \in Linked
      BY <2>2 DEF Links, LinksAgree
    <3>2. CASE x = h
      BY <3>2, <2>1, <1>2
    <3>3. CASE x # h
      BY <3>1, <3>3, <2>2, <1>1, <1>3, <1>5, <1>9
    <3> QED
      BY <3>2, <3>3
  <2>4. T = Linked
    BY <2>2, <2>3 DEF Links, LinksAgree
  <2> QED
    BY <2>1, <2>4, <1>1, <1>9
<1>10. SelfLinked'
  <2> SUFFICES ASSUME NEW b \in Alarms \ registered'
               PROVE  next'[b] \in {b, Null} /\ previous'[b] = next'[b]
    BY DEF SelfLinked
  <2>1. b \in Alarms \ registered /\ b # a /\ b # h /\ b # f /\ b \in Nodes
    BY <1>2, <1>4 DEF Linked, Nodes
  <2> QED
    BY <2>1, <1>5, <1>6 DEF Links, SelfLinked
<1> QED
  BY <1>1, <1>7, <1>8, <1>9, <1>10 DEF Links, LinksAgree

(* No entry of the list links to itself while another one is in it.        *)
LEMMA NotSelf ==
  ASSUME TypeOK, Links, NEW a \in registered
  PROVE  next[a] # a /\ previous[a] # a
<1> DEFINE T == Linked \ {a}
<1> USE ListAssumption
<1>1. a \in Linked /\ a # alt_alarm_list
  BY DEF Linked, TypeOK
<1>2. SUFFICES ASSUME next[a] = a PROVE FALSE
  BY <1>1 DEF Links, LinksAgree
<1>3. \A x \in T : next[x] \in T
  BY <1>1, <1>2 DEF Links, LinksAgree
<1>4. T \in SUBSET Linked /\ alt_alarm_list \in T
  BY <1>1 DEF Linked
<1>5. T = Linked
  BY <1>3, <1>4 DEF Links, LinksAgree
<1> QED
  BY <1>1, <1>5

LEMMA RemoveLinks ==
  ASSUME TypeOK, Links, NEW a \in registered, Remove(a)
  PROVE  /\ Links'
         /\ Linked' = Linked \ {a}
         /\ next'[previous[a]] = next[a] /\ next'[a] = a
         /\ \A x \in Linked \ {a, previous[a]} : next'[x] = next[x]
<1> DEFINE h == alt_alarm_list
           n == next[a]
           p == previous[a]
<1> USE ListAssumption
<1>1. a \in Linked /\ h \in Linked /\ a # h /\ Linked \subseteq Nodes
  BY DEF Linked, Nodes, TypeOK
<1>2. /\ n \in Linked /\ p \in Linked /\ n # a /\ p # a
      /\ previous[n] = a /\ next[p] = a
  BY <1>1, NotSelf DEF Links, LinksAgree
<1>3. /\ next' = [next EXCEPT ![p] = n, ![a] = a]
      /\ previous' = [previous EXCEPT ![n] = p, ![a] = a]
      /\ registered' = registered \ {a}
  BY DEF Remove
<1>4. Linked' = Linked \ {a}
  BY <1>1, <1>3 DEF Linked
<1>5. /\ next'[a] = a /\ next'[p] = n
      /\ \A x \in Nodes \ {a, p} : next'[x] = next[x]
  BY <1>1, <1>2, <1>3 DEF TypeOK
<1>6. /\ previous'[a] = a /\ previous'[n] = p
      /\ \A x \in Nodes \ {a, n} : previous'[x] = previous[x]
  BY <1>1, <1>2, <1>3 DEF TypeOK
<1>7. \A x \in Linked' : next'[x] \in Linked' /\ previous'[next'[x]] = x
  <2> SUFFICES ASSUME NEW x \in Linked'
               PROVE  next'[x] \in Linked' /\ previous'[next'[x]] = x
    OBVIOUS
  <2>1. CASE x = p
    BY <2>1, <1>2, <1>4, <1>5, <1>6
  <2>2. CASE x # p
    <3>1. x \in Linked /\ x # a /\ next'[x] = next[x] /\ next[x] \in Linked
          /\ previous[next[x]] = x
      BY <2>2, <1>1, <1>4, <1>5 DEF Links, LinksAgree
    <3>2. next[x] # a /\ next[x] # n
      BY <3>1, <2>2, <1>2
    <3> QED
      BY <3>1, <3>2, <1>1, <1>4, <1>6
  <2> QED
    BY <2>1, <2>2
<1>8. \A x \in Linked' : previous'[x] \in Linked' /\ next'[previous'[x]] = x
  <2> SUFFICES ASSUME NEW x \in Linked'
               PROVE  previous'[x] \in Linked' /\ next'[previous'[x]] = x
    OBVIOUS
  <2>1. CASE x = n
    BY <2>1, <1>2, <1>4, <1>5, <1>6
  <2>2. CASE x # n
    <3>1. x \in Linked /\ x # a /\ previous'[x] = previous[x]
          /\ previous[x] \in Linked /\ next[previous[x]] = x
      BY <2>2, <1>1, <1>4, <1>6 DEF Links, LinksAgree
    <3>2. previous[x] # a /\ previous[x] # p
      BY <3>1, <2>2, <1>2
    <3> QED
      BY <3>1, <3>2, <1>1, <1>4, <1>5
  <2> QED
    BY <2>1, <2>2
<1>9. ASSUME NEW S \in SUBSET Linked', h \in S, \A x \in S : next'[x] \in S
      PROVE  S = Linked'
  <2> DEFINE T == IF p \in S THEN S \union {a} ELSE S
  <2>1. T \in SUBSET Linked /\ h \in T
    BY <1>1, <1>4, <1>9
  <2>2. \A x \in T : next[x] \in T
    <3> SUFFICES ASSUME NEW x \in T PROVE next[x] \in T
      OBVIOUS
    <3>1. CASE x = a
      BY <3>1, <1>4, <1>5, <1>9
    <3>2. CASE x # a /\ x = p
      BY <3>2, <1>2
    <3>3. CASE x # a /\ x # p
      BY <3>3, <2>1, <1>1, <1>5, <1>9
    <3> QED
      BY <3>1, <3>2, <3>3
  <2>3. T = Linked
    BY <2>1, <2>2 DEF Links, LinksAgree
  <2> QED
    BY <2>3, <1>4, <1>9
<1>10. SelfLinked'
  <2> SUFFICES ASSUME NEW b \in Alarms \ registered'
               PROVE  next'[b] \in {b, Null} /\ previous'[b] = next'[b]
    BY DEF SelfLinked
  <2>1. CASE b = a
    BY <2>1, <1>5, <1>6
  <2>2. CASE b # a
    <3>1. b \in Alarms \ registered /\ b # h /\ b # n /\ b # p /\ b \in Nodes
      BY <2>2, <1>2, <1>3 DEF Linked, Nodes
    <3> QED
      BY <2>2, <3>1, <1>5, <1>6 DEF Links, SelfLinked
  <2> QED
    BY <2>1, <2>2
<1> QED
  BY <1>1, <1>4, <1>5, <1>7, <1>8, <1>9, <1>10 DEF Links, LinksAgree

(* Removing an alarm that is not in the list is harmless (alt_llist.h).    *)
LEMMA RemoveHarmless ==
  ASSUME TypeOK, Links, NEW a \in Alarms \ registered, next[a] # Null, Remove(a)
  PROVE  UNCHANGED listVars
<1>1. next[a] = a /\ previous[a] = a /\ a \in Nodes
  BY DEF Links, SelfLinked, Nodes
<1>2. next' = [next EXCEPT ![a] = a, ![a] = a] /\ next \in [Nodes -> Nodes \union {Null}]
  BY <1>1 DEF Remove, TypeOK
<1>3. previous' = [previous EXCEPT ![a] = a, ![a] = a]
      /\ previous \in [Nodes -> Nodes \union {Null}]
  BY <1>1 DEF Remove, TypeOK
<1>4. registered' = registered
  BY DEF Remove
<1>5. next' = next
  BY <1>1, <1>2
<1>6. previous' = previous
  BY <1>1, <1>3
<1> QED
  BY <1>4, <1>5, <1>6 DEF listVars
----------------------------------------------------------------------------
(* Sums of words.                                                          *)
LEMMA WrappedSum ==
  ASSUME NEW m \in 0 .. W - 1, NEW n \in 0 .. W - 1
  PROVE  (m + n) % W = IF m + n < W THEN m + n ELSE m + n - W
<1>1. W \in Nat \ {0}
  BY WordAssumption
<1>2. CASE m + n < W
  <2>1. m + n = 0 * W + (m + n)
    BY <1>1
  <2> QED
    BY <1>1, <1>2, <2>1, QuotientUnique
<1>3. CASE m + n >= W
  <2>1. m + n = 1 * W + (m + n - W)
    BY <1>1
  <2>2. m + n - W \in 0 .. W - 1
    BY <1>1, <1>3
  <2> QED
    BY <1>1, <1>3, <2>1, <2>2, QuotientUnique
<1> QED
  BY <1>1, <1>2, <1>3

LEMMA WordSum ==
  ASSUME NEW m \in Int, NEW n \in Int
  PROVE  (m + n) % W \in 0 .. W - 1
<1>1. W \in Nat \ {0} /\ m + n \in Int
  BY WordAssumption
<1> QED
  BY <1>1

LEMMA NextTick ==
  ASSUME TypeOK, Tick
  PROVE  nticks' = IF nticks = W - 1 THEN 0 ELSE nticks + 1
<1>1. nticks \in 0 .. W - 1 /\ 1 \in 0 .. W - 1 /\ W \in Nat
  BY WordAssumption DEF TypeOK
<1>2. nticks' = (nticks + 1) % W
  BY DEF Tick
<1>3. (nticks + 1) % W = IF nticks + 1 < W THEN nticks + 1 ELSE nticks + 1 - W
  BY <1>1, WrappedSum
<1> QED
  BY <1>1, <1>2, <1>3

(* The words are exact while the ticks left are in range.                  *)
LEMMA ExpiredIsDue ==
  ASSUME TypeOK, DueInRange, PassedUnrolled, NEW a \in registered, InTick
  PROVE  /\ Expired(a) <=> TicksLeft(a) = 0
         /\ Expired(a) => time[a] = nticks
         /\ TicksLeft(a) = time[a] + (IF StillRolled(a) THEN W ELSE 0) - nticks
<1>1. /\ nticks \in 0 .. W - 1 /\ time[a] \in 0 .. W - 1
      /\ rollover[a] \in BOOLEAN /\ W \in Nat
  BY WordAssumption DEF TypeOK
<1>2. TicksLeft(a) = time[a] + (IF StillRolled(a) THEN W ELSE 0) - nticks
  BY <1>1 DEF TicksLeft, StillRolled, PassedUnrolled
<1>3. TicksLeft(a) \in 0 .. W - 1
  BY DEF DueInRange
<1>4. CASE StillRolled(a)
  BY <1>1, <1>2, <1>3, <1>4 DEF Expired
<1>5. CASE ~StillRolled(a)
  BY <1>1, <1>2, <1>3, <1>5 DEF Expired
<1> QED
  BY <1>2, <1>4, <1>5

(* alt_alarm_start and the reload of alt_tick.                             *)
LEMMA Armed ==
  ASSUME NEW now \in 0 .. W - 1, NEW n \in 1 .. W - 1
  PROVE  LET due == (now + n) % W
         IN  /\ due \in 0 .. W - 1
             /\ due + (IF due < now THEN W ELSE 0) - now = n
<1>1. W \in Nat /\ n \in 0 .. W - 1
  BY WordAssumption
<1>2. (now + n) % W = IF now + n < W THEN now + n ELSE now + n - W
  BY <1>1, WrappedSum
<1> QED
  BY <1>1, <1>2
----------------------------------------------------------------------------
(* Type correctness.                                                       *)
LEMMA InitType == Init => TypeOK
BY WordAssumption, ListAssumption DEF Init, TypeOK, Nodes

LEMMA StepType == TypeOK /\ Links /\ InTheList /\ [Next]_vars => TypeOK'
<1> SUFFICES ASSUME TypeOK, Links, InTheList, [Next]_vars PROVE TypeOK'
  OBVIOUS
<1> USE ListAssumption
<1>0. /\ W \in Nat /\ W > 2 /\ nticks \in 0 .. W - 1
      /\ tv_sec \in Int /\ tv_usec \in Int
  BY WordAssumption DEF TypeOK
<1>1. CASE Tick
  <2>1. nticks' \in 0 .. W - 1
    BY <1>0, <1>1, WordSum DEF Tick
  <2>2. alarm' \in Nodes
    BY <1>1 DEF Tick, TypeOK, Nodes, Links, LinksAgree, Linked
  <2>3. set' \in [time : Int, ticks : Int]
    BY <1>1 DEF Tick, TypeOK, NotSet
  <2>4. UNCHANGED << next, previous, registered, time, rollover, tv_sec, tv_usec >>
        /\ seen' = {}
    BY <1>1 DEF Tick, listVars
  <2> QED
    BY <2>1, <2>2, <2>3, <2>4 DEF TypeOK
<1>2. ASSUME NEW a \in Alarms, NEW n \in StartDelays, Start(a, n)
      PROVE  TypeOK'
  <2>1. (n + nticks + 1) % W \in 0 .. W - 1
    <3>1. n \in Int /\ n + nticks \in Int
      BY <1>0, <1>2, DelayAssumption
    <3> QED
      BY <3>1, WordSum
  <2>2. next[alt_alarm_list] \in Nodes
    BY DEF TypeOK, Links, LinksAgree, Linked, Nodes
  <2>3. /\ time' \in [Alarms -> 0 .. W - 1]
        /\ rollover' \in [Alarms -> BOOLEAN]
    BY <1>2, <2>1 DEF Start, TypeOK
  <2>4. /\ next' \in [Nodes -> Nodes \union {Null}]
        /\ previous' \in [Nodes -> Nodes \union {Null}]
        /\ registered' \in SUBSET Alarms
    BY <1>2, <2>2 DEF Start, Insert, TypeOK, Nodes
  <2>5. UNCHANGED << nticks, alarm, seen, tv_sec, tv_usec, set >>
    BY <1>2 DEF Start, clockVars
  <2> QED
    BY <2>3, <2>4, <2>5 DEF TypeOK
<1>3. ASSUME NEW a \in Alarms, Remove(a)
      PROVE  /\ next' \in [Nodes -> Nodes \union {Null}]
             /\ previous' \in [Nodes -> Nodes \union {Null}]
             /\ registered' \in SUBSET Alarms
  BY <1>3 DEF Remove, TypeOK, Nodes
<1>4. ASSUME NEW a \in Alarms, Stop(a)
      PROVE  TypeOK'
  <2>1. UNCHANGED << nticks, time, rollover, alarm, seen, tv_sec, tv_usec, set >>
        /\ Remove(a)
    BY <1>4 DEF Stop, clockVars
  <2> QED
    BY <1>3, <2>1 DEF TypeOK
<1>5. ASSUME NEW a \in Alarms, Visit(a)
      PROVE  TypeOK'
  <2>1. alarm' \in Nodes /\ seen' \in SUBSET Alarms
    BY <1>5 DEF Visit, TypeOK, Nodes, InTheList, Links, LinksAgree, Linked
  <2>2. UNCHANGED << nticks, tv_sec, tv_usec, set >>
    BY <1>5 DEF Visit, clockVars
  <2>3. /\ time' \in [Alarms -> 0 .. W - 1]
        /\ rollover' \in [Alarms -> BOOLEAN]
    <3>1. CASE UNCHANGED time /\ rollover' = [rollover EXCEPT ![a] = StillRolled(a)]
      BY <3>1 DEF TypeOK, StillRolled
    <3>2. CASE UNCHANGED time /\ rollover' = [rollover EXCEPT ![a] = FALSE]
      BY <3>2 DEF TypeOK
    <3>3. ASSUME NEW r \in Periods, Rearm(a, r)
          PROVE  /\ time' \in [Alarms -> 0 .. W - 1]
                 /\ rollover' \in [Alarms -> BOOLEAN]
      <4>1. (time[a] + r) % W \in 0 .. W - 1
        <5>1. time[a] \in Int /\ r \in Int
          BY <1>0, PeriodAssumption DEF TypeOK
        <5> QED
          BY <5>1, WordSum
      <4> QED
        BY <3>3, <4>1 DEF Rearm, TypeOK
    <3> QED
      BY <1>5, <3>1, <3>2, <3>3 DEF Visit
  <2>4. /\ next' \in [Nodes -> Nodes \union {Null}]
        /\ previous' \in [Nodes -> Nodes \union {Null}]
        /\ registered' \in SUBSET Alarms
    <3>1. CASE UNCHANGED listVars
      BY <3>1 DEF listVars, TypeOK
    <3> QED
      BY <1>3, <1>5, <3>1 DEF Visit
  <2> QED
    BY <2>1, <2>2, <2>3, <2>4 DEF TypeOK
<1>6. ASSUME NEW t \in Times, SetTimeOfDay(t)
      PROVE  TypeOK'
  <2>1. t \in Nat /\ Rate \in Nat \ {0} /\ MicrosPerTick \in Nat \ {0}
    BY TimesAssumption, RateAssumption
  <2>2. ALT_US \in Nat \ {0}
    BY <2>1 DEF ALT_US
  <2>3. nticks * MicrosPerTick \in Int /\ (nticks * MicrosPerTick) % W \in Int
    BY <1>0, <2>1
  <2>4. tv_sec' \in Int /\ tv_usec' \in Int
    BY <1>0, <1>6, <2>1, <2>2, <2>3 DEF SetTimeOfDay
  <2>5. set' \in [time : Int, ticks : Int]
    BY <1>0, <1>6, <2>1 DEF SetTimeOfDay, NotSet
  <2>6. UNCHANGED << nticks, next, previous, registered, time, rollover, alarm, seen >>
    BY <1>6 DEF SetTimeOfDay, listVars
  <2> QED
    BY <2>4, <2>5, <2>6 DEF TypeOK
<1>7. CASE UNCHANGED vars
  BY <1>7 DEF vars, listVars, clockVars, TypeOK
<1> QED
  BY <1>1, <1>2, <1>4, <1>5, <1>6, <1>7 DEF Next
----------------------------------------------------------------------------
(* Every step keeps the invariant and is a step of AlarmClock.             *)
LEMMA InitInv == Init => IInv /\ Clock!Init
<1> SUFFICES ASSUME Init PROVE IInv /\ Clock!Init
  OBVIOUS
<1> USE ListAssumption
<1>1. TypeOK
  BY InitType
<1>2. LinksAgree /\ SelfLinked /\ InTheList
  BY DEF Init, LinksAgree, SelfLinked, InTheList, Linked, Nodes, InTick
<1>3. DueInRange /\ PassedUnrolled
  BY DEF Init, DueInRange, PassedUnrolled
<1>4. SetOffset
  <2>1. /\ nticks = 0 /\ tv_sec = 0 /\ tv_usec = 0
        /\ set.ticks = 0 /\ set.time = 0
    BY DEF Init
  <2>2. ALT_US \in Nat /\ MicrosPerTick \in Nat
    BY RateAssumption DEF ALT_US
  <2> QED
    BY <2>1, <2>2 DEF SetOffset
<1>5. Clock!Init
  BY DEF Init, Clock!Init, Clock!Idle, left
<1> QED
  BY <1>1, <1>2, <1>3, <1>4, <1>5 DEF IInv

(* Between two ticks every alarm that is due has been called back.         *)
LEMMA IdleIsQuiet ==
  ASSUME IInv, ~InTick
  PROVE  /\ Clock!Quiet
         /\ \A a \in registered : TicksLeft(a) \in 1 .. W - 1
<1>1. \A a \in registered : TicksLeft(a) \in 1 .. W - 1
  BY WordAssumption DEF IInv, DueInRange
<1>2. W \in Nat
  BY WordAssumption
<1>3. \A a \in Alarms : left[a] # 0
  BY <1>1, <1>2 DEF left
<1> QED
  BY <1>1, <1>3 DEF Clock!Quiet

LEMMA TickStep ==
  ASSUME IInv, Tick, TypeOK'
  PROVE  IInv' /\ Clock!Tick
<1> USE ListAssumption
<1>1. /\ ~InTick /\ alarm' = next[alt_alarm_list] /\ seen' = {}
      /\ UNCHANGED << next, previous, registered, time, rollover, tv_sec, tv_usec >>
      /\ TypeOK
  BY DEF Tick, listVars, IInv
<1>2. (LinksAgree /\ SelfLinked)'
  BY <1>1 DEF IInv, LinksAgree, SelfLinked, Linked
<1>3. InTheList'
  <2>1. alarm' \in Linked'
    BY <1>1 DEF IInv, LinksAgree, Linked
  <2>2. ASSUME NEW S \in SUBSET Linked, alarm' \in S,
               \A x \in S \ {alt_alarm_list} : next[x] \in S
        PROVE  registered \subseteq S
    <3> DEFINE T == S \union {alt_alarm_list}
    <3>1. T \in SUBSET Linked /\ \A x \in T : next[x] \in T
      BY <1>1, <2>2 DEF Linked
    <3>2. T = Linked
      BY <3>1 DEF IInv, LinksAgree
    <3> QED
      BY <3>2, <1>1 DEF Linked, TypeOK
  <2> QED
    BY <1>1, <2>1, <2>2 DEF InTheList, ReachesRest, Linked
<1>4. /\ nticks' = IF nticks = W - 1 THEN 0 ELSE nticks + 1
      /\ nticks \in 0 .. W - 1 /\ W \in Nat /\ W > 2
  BY <1>1, NextTick, WordAssumption DEF TypeOK
<1>5. ASSUME NEW a \in registered
      PROVE  TicksLeft(a)' = TicksLeft(a) - 1 /\ TicksLeft(a) \in 1 .. W - 1
  <2>1. TicksLeft(a) \in 1 .. W - 1
    BY <1>1, IdleIsQuiet
  <2>2. time[a] \in 0 .. W - 1 /\ rollover[a] \in BOOLEAN
    BY <1>1 DEF TypeOK
  <2>3. TicksLeft(a) = time[a] + (IF rollover[a] THEN W ELSE 0) - nticks
    BY <1>1 DEF TicksLeft
  <2>4. InTick'
    <3>1. registered # {} /\ alarm' # alt_alarm_list
      <4>1. SUFFICES ASSUME next[alt_alarm_list] = alt_alarm_list PROVE FALSE
        BY <1>1, <1>5
      <4>2. {alt_alarm_list} = Linked
        BY <4>1 DEF IInv, LinksAgree, Linked
      <4> QED
        BY <4>2, <1>1, <1>5 DEF Linked, TypeOK
    <3> QED
      BY <3>1 DEF InTick
  <2>5. TicksLeft(a)' = time[a]
          + (IF rollover[a] /\ nticks' # 0 THEN W ELSE 0) - nticks'
    BY <1>1, <2>4 DEF TicksLeft
  <2>6. CASE nticks = W - 1
    <3>1. rollover[a]
      BY <2>1, <2>2, <2>3, <2>6, <1>4
    <3> QED
      BY <2>1, <2>2, <2>3, <2>5, <2>6, <3>1, <1>4
  <2>7. CASE nticks # W - 1
    BY <2>1, <2>2, <2>3, <2>5, <2>7, <1>4
  <2> QED
    BY <2>1, <2>6, <2>7
<1>6. DueInRange'
  <2> SUFFICES ASSUME NEW a \in registered
               PROVE  /\ TicksLeft(a)' \in 0 .. W - 1
                      /\ (InTick' /\ a \notin seen') \/ TicksLeft(a)' > 0
    BY <1>1 DEF DueInRange
  <2>1. TicksLeft(a)' = TicksLeft(a) - 1 /\ TicksLeft(a) \in 1 .. W - 1
    BY <1>5
  <2>2. InTick'
    <3>1. SUFFICES ASSUME next[alt_alarm_list] = alt_alarm_list PROVE FALSE
      BY <1>1 DEF InTick
    <3>2. {alt_alarm_list} = Linked
      BY <3>1 DEF IInv, LinksAgree, Linked
    <3> QED
      BY <3>2, <1>1 DEF Linked, TypeOK
  <2> QED
    BY <1>1, <1>4, <2>1, <2>2
<1>7. SetOffset'
  <2> SUFFICES ASSUME set' # NotSet
               PROVE  /\ set'.ticks \in 0 .. nticks'
                      /\ set'.time \in Nat
                      /\ tv_sec' * ALT_US + tv_usec' = set'.time - set'.ticks * MicrosPerTick
    BY DEF SetOffset
  <2>1. nticks' # 0 /\ set' = set
    BY DEF Tick
  <2> QED
    BY <1>1, <1>4, <2>1 DEF IInv, SetOffset
<1>8. Clock!Tick
  <2>1. Clock!Quiet
    BY <1>1, IdleIsQuiet
  <2>2. left' = [a \in Alarms |-> IF left[a] = -1 THEN -1 ELSE left[a] - 1]
    <3>1. ASSUME NEW a \in Alarms
          PROVE  left'[a] = IF left[a] = -1 THEN -1 ELSE left[a] - 1
      BY <1>1, <1>4, <1>5 DEF left
    <3> QED
      BY <3>1 DEF left
  <2> QED
    BY <2>1, <2>2 DEF Clock!Tick, Clock!Idle
<1>9. PassedUnrolled'
  BY <1>1 DEF PassedUnrolled
<1> QED
  BY <1>1, <1>2, <1>3, <1>6, <1>7, <1>8, <1>9 DEF IInv

(* A step of the foreground or a turn of the loop leaves the others alone. *)
LEMMA SameTicksLeft ==
  ASSUME NEW b \in Alarms, UNCHANGED nticks, time'[b] = time[b],
         \/ ~InTick /\ ~InTick' /\ rollover'[b] = rollover[b]
         \/ /\ InTick /\ InTick' /\ rollover'[b] = rollover[b]
            /\ b \in seen' <=> b \in seen
  PROVE  TicksLeft(b)' = TicksLeft(b)
BY DEF TicksLeft

LEMMA StartStep ==
  ASSUME IInv, NEW a \in Alarms, NEW n \in StartDelays, Start(a, n), TypeOK'
  PROVE  IInv' /\ Clock!Start(a)
<1> DEFINE due == (n + nticks + 1) % W
<1>1. /\ ~InTick /\ ~InTick' /\ a \in Alarms \ registered /\ Insert(a)
      /\ UNCHANGED << nticks, alarm, seen, tv_sec, tv_usec, set >>
      /\ time' = [time EXCEPT ![a] = due]
      /\ rollover' = [rollover EXCEPT ![a] = due < nticks]
      /\ TypeOK /\ Links
  BY DEF Start, clockVars, InTick, IInv, Links
<1>2. Links' /\ registered' = registered \union {a}
  BY <1>1, InsertLinks DEF Insert
<1>3. InTheList'
  BY <1>1 DEF InTick, InTheList, Linked
<1>4. /\ n + 1 \in 1 .. W - 1 /\ W \in Nat /\ nticks \in 0 .. W - 1
      /\ n + nticks + 1 = nticks + (n + 1)
  BY <1>1, DelayAssumption, WordAssumption DEF TypeOK
<1>5. TicksLeft(a)' = n + 1
  <2>1. due + (IF due < nticks THEN W ELSE 0) - nticks = n + 1
    BY <1>4, Armed
  <2>2. time'[a] = due /\ rollover'[a] = (due < nticks)
    BY <1>1 DEF TypeOK
  <2>3. TicksLeft(a)' = time'[a] + (IF rollover'[a] THEN W ELSE 0) - nticks
    BY <1>1 DEF TicksLeft
  <2> QED
    BY <2>1, <2>2, <2>3
<1>6. ASSUME NEW b \in Alarms \ {a}
      PROVE  TicksLeft(b)' = TicksLeft(b)
  <2>1. time'[b] = time[b] /\ rollover'[b] = rollover[b]
    BY <1>1, <1>6 DEF TypeOK
  <2> QED
    BY <1>1, <2>1, SameTicksLeft
<1>7. DueInRange'
  <2> SUFFICES ASSUME NEW b \in registered'
               PROVE  TicksLeft(b)' \in 1 .. W - 1
    BY <1>4 DEF DueInRange
  <2>1. CASE b = a
    BY <2>1, <1>4, <1>5
  <2>2. CASE b # a
    <3>1. b \in registered /\ b \in Alarms \ {a}
      BY <2>2, <1>1, <1>2 DEF TypeOK
    <3> QED
      BY <3>1, <1>1, <1>6, IdleIsQuiet
  <2> QED
    BY <2>1, <2>2
<1>8. SetOffset'
  BY <1>1 DEF IInv, SetOffset
<1>9. Clock!Start(a)
  <2>1. Clock!Quiet
    BY <1>1, IdleIsQuiet
  <2>2. left[a] = -1
    BY <1>1 DEF left
  <2>3. left' = [left EXCEPT ![a] = n + 1]
    <3>1. ASSUME NEW b \in Alarms
          PROVE  left'[b] = IF b = a THEN n + 1 ELSE left[b]
      BY <1>2, <1>5, <1>6 DEF left
    <3> QED
      BY <3>1 DEF left
  <2> QED
    BY <2>1, <2>2, <2>3 DEF Clock!Start, Clock!Idle
<1>10. PassedUnrolled'
  BY <1>1 DEF PassedUnrolled
<1> QED
  BY <1>1, <1>2, <1>3, <1>7, <1>8, <1>9, <1>10 DEF IInv, Links

LEMMA StopStep ==
  ASSUME IInv, NEW a \in Alarms, Stop(a), TypeOK'
  PROVE  IInv' /\ Clock!Stop(a)
<1>1. /\ ~InTick /\ ~InTick' /\ next[a] # Null /\ Remove(a)
      /\ UNCHANGED << nticks, time, rollover, alarm, seen, tv_sec, tv_usec, set >>
      /\ TypeOK /\ Links
  BY DEF Stop, clockVars, InTick, IInv, Links
<1>2. Links' /\ registered' = registered \ {a}
  <2>1. registered' = registered \ {a}
    BY <1>1 DEF Remove
  <2>2. CASE a \in registered
    <3>1. Links'
      BY <1>1, <2>2, RemoveLinks
    <3> QED
      BY <2>1, <3>1
  <2>3. CASE a \notin registered
    <3>1. UNCHANGED << next, previous, registered >>
      BY <1>1, <2>3, RemoveHarmless DEF listVars
    <3>2. Links'
      BY <1>1, <3>1 DEF Links, LinksAgree, SelfLinked, Linked
    <3> QED
      BY <2>1, <3>2
  <2> QED
    BY <2>1, <2>2, <2>3
<1>3. InTheList'
  BY <1>1 DEF InTick, InTheList, Linked
<1>4. ASSUME NEW b \in Alarms
      PROVE  TicksLeft(b)' = TicksLeft(b)
  BY <1>1, SameTicksLeft
<1>5. DueInRange'
  <2> SUFFICES ASSUME NEW b \in registered'
               PROVE  /\ TicksLeft(b)' \in 0 .. W - 1
                      /\ TicksLeft(b)' > 0
    BY DEF DueInRange
  <2>1. b \in registered /\ b \in Alarms
    BY <1>1, <1>2 DEF TypeOK
  <2> QED
    BY <2>1, <1>1, <1>4, IdleIsQuiet
<1>6. SetOffset'
  BY <1>1 DEF IInv, SetOffset
<1>7. Clock!Stop(a)
  <2>1. Clock!Quiet
    BY <1>1, IdleIsQuiet
  <2>2. left' = [left EXCEPT ![a] = -1]
    <3>1. ASSUME NEW b \in Alarms
          PROVE  left'[b] = IF b = a THEN -1 ELSE left[b]
      BY <1>2, <1>4 DEF left
    <3> QED
      BY <3>1 DEF left
  <2> QED
    BY <2>1, <2>2 DEF Clock!Stop, Clock!Idle
<1>8. PassedUnrolled'
  BY <1>1 DEF PassedUnrolled
<1> QED
  BY <1>1, <1>2, <1>3, <1>5, <1>6, <1>7, <1>8 DEF IInv, Links

LEMMA SetStep ==
  ASSUME IInv, NEW t \in Times, SetTimeOfDay(t), TypeOK'
  PROVE  IInv' /\ UNCHANGED left
<1>1. /\ ~InTick /\ ~InTick'
      /\ UNCHANGED << nticks, next, previous, registered, time, rollover, alarm, seen >>
  BY DEF SetTimeOfDay, listVars, InTick
<1>2. (LinksAgree /\ SelfLinked)'
  BY <1>1 DEF IInv, LinksAgree, SelfLinked, Linked
<1>3. InTheList' /\ PassedUnrolled'
  BY <1>1 DEF IInv, InTheList, PassedUnrolled, Linked
<1>4. \A b \in Alarms : TicksLeft(b)' = TicksLeft(b)
  BY <1>1, SameTicksLeft
<1>5. DueInRange'
  <2>1. registered \subseteq Alarms
    BY DEF IInv, TypeOK
  <2> QED
    BY <1>1, <1>4, <2>1 DEF IInv, DueInRange
<1>6. UNCHANGED left
  BY <1>1, <1>4 DEF left
<1>7. SetOffset'
  <2> DEFINE U == ALT_US
             n == nticks
             k == MicrosPerTick
  <2>1. CASE n * k >= W
    <3>1. set' = NotSet
      <4>1. ~(n * k < W)
        BY <2>1, WordAssumption, RateAssumption DEF IInv, TypeOK
      <4> QED
        BY <4>1 DEF SetTimeOfDay
    <3> QED
      BY <3>1 DEF SetOffset
  <2>2. CASE n * k < W
    <3>1. n \in Nat /\ k \in Nat \ {0} /\ U \in Nat \ {0} /\ t \in Nat /\ W \in Nat
      BY WordAssumption, RateAssumption, TimesAssumption DEF ALT_US, IInv, TypeOK
    <3>2. (n * k) % W = n * k
      <4>1. n * k \in 0 .. W - 1 /\ n * k = 0 * W + n * k
        BY <2>2, <3>1
      <4> QED
        BY <3>1, <4>1, WordAssumption, QuotientUnique
    <3>3. /\ n \div Rate \in Nat
          /\ (n * k) % U \in 0 .. U - 1
          /\ (n \div Rate) * U + ((n * k) % U) = n * k
      BY <3>1, TicksAsTime
    <3>4. t \div U \in Nat /\ t % U \in Nat /\ t = (t \div U) * U + (t % U)
      BY <3>1
    <3>5. /\ tv_sec' = (t \div U) - (n \div Rate)
          /\ tv_usec' = (t % U) - ((n * k) % U)
      BY <3>2 DEF SetTimeOfDay
    <3>6. set' = [time |-> t, ticks |-> n]
      BY <2>2 DEF SetTimeOfDay
    <3>7. ((t \div U) - (n \div Rate)) * U = (t \div U) * U - (n \div Rate) * U
      BY <3>1, <3>3, <3>4
    <3>8. tv_sec' * U + tv_usec' = t - n * k
      <4>1. (t \div U) * U \in Nat /\ (n \div Rate) * U \in Nat /\ n * k \in Nat
        BY <3>1, <3>3, <3>4
      <4>2. ASSUME NEW A \in Int, NEW B \in Int, NEW c \in Int, NEW d \in Int,
                   t = A + c, B + d = n * k
            PROVE  (A - B) + (c - d) = t - n * k
        BY <4>2
      <4>3. t % U \in Int /\ (n * k) % U \in Int
        BY <3>3, <3>4, <3>1
      <4>4. ((t \div U) * U - (n \div Rate) * U) + ((t % U) - ((n * k) % U)) = t - n * k
        BY <3>3, <3>4, <4>1, <4>2, <4>3
      <4> QED
        BY <3>5, <3>7, <4>4
    <3> QED
      BY <1>1, <3>1, <3>6, <3>8 DEF SetOffset, ALT_US
  <2>3. n * k \in Int /\ W \in Int
    BY WordAssumption, RateAssumption DEF IInv, TypeOK
  <2> QED
    BY <2>1, <2>2, <2>3
<1> QED
  BY <1>2, <1>3, <1>5, <1>6, <1>7 DEF IInv

(* What one turn of the loop leaves ahead of alt_tick.                     *)
LEMMA RestAhead ==
  ASSUME TypeOK, Links, InTheList, NEW a \in Alarms, alarm = a, alarm' = next[a],
         seen' = seen \union {a},
         UNCHANGED listVars \/ Remove(a)
  PROVE  /\ a \in registered /\ InTick
         /\ Links' /\ InTheList'
         /\ registered' \subseteq registered
         /\ ~InTick' => registered \subseteq seen'
<1> DEFINE h == alt_alarm_list
<1> USE ListAssumption
<1>1. a \in registered /\ InTick /\ a # h
  BY DEF InTheList, Linked, InTick
<1>2. next[a] \in Linked /\ next[a] # a /\ previous[a] \in Linked /\ next[previous[a]] = a
      /\ a \in Linked /\ h \in Linked
  BY <1>1, NotSelf DEF Links, LinksAgree, Linked
<1>3. /\ Links' /\ registered' \subseteq registered
      /\ next[a] \in Linked' /\ Linked' \subseteq Linked
      /\ \A x \in Linked \ {a, previous[a]} : next'[x] = next[x]
      /\ previous[a] \in Linked \ {a} => next'[previous[a]] \in {a, next[a]}
  <2>1. CASE UNCHANGED listVars
    <3>1. UNCHANGED << next, previous, registered >>
      BY <2>1 DEF listVars
    <3>2. Links' /\ Linked' = Linked
      BY <3>1 DEF Links, LinksAgree, SelfLinked, Linked
    <3> QED
      BY <3>1, <3>2, <1>2
  <2>2. CASE Remove(a)
    <3>1. /\ Links' /\ Linked' = Linked \ {a}
          /\ next'[previous[a]] = next[a]
          /\ \A x \in Linked \ {a, previous[a]} : next'[x] = next[x]
      BY <1>1, <2>2, RemoveLinks
    <3>2. registered' = registered \ {a}
      BY <2>2 DEF Remove
    <3> QED
      BY <3>1, <3>2, <1>2
  <2> QED
    BY <2>1, <2>2
<1>4. ASSUME NEW S \in SUBSET Linked, next[a] \in S,
             \A x \in S \ {a, h} : next[x] \in S \union {a}
      PROVE  registered \ seen' \subseteq S
  <2> DEFINE T == S \union {a}
  <2>1. T \in SUBSET Linked /\ alarm \in T
    BY <1>2
  <2>2. \A x \in T \ {h} : next[x] \in T
    BY <1>4
  <2>3. registered \ seen \subseteq T
    BY <1>1, <2>1, <2>2 DEF InTheList, ReachesRest
  <2> QED
    BY <2>3
<1>5. ~InTick' => registered \subseteq seen'
  <2>1. SUFFICES ASSUME next[a] = h PROVE registered \subseteq seen'
    BY DEF InTick
  <2>2. {h} \in SUBSET Linked
    BY <1>2
  <2>3. registered \ seen' \subseteq {h}
    BY <2>1, <2>2, <1>4
  <2> QED
    BY <2>3 DEF TypeOK
<1>6. InTheList'
  <2>1. ASSUME NEW S \in SUBSET Linked', alarm' \in S,
               \A x \in S \ {h} : next'[x] \in S
        PROVE  registered' \ seen' \subseteq S
    <3>1. S \in SUBSET Linked
      BY <1>3, <2>1
    <3>2. \A x \in S \ {a, h} : next[x] \in S \union {a}
      <4> SUFFICES ASSUME NEW x \in S \ {a, h} PROVE next[x] \in S \union {a}
        OBVIOUS
      <4>1. CASE x = previous[a]
        BY <4>1, <1>2
      <4>2. CASE x # previous[a]
        BY <4>2, <3>1, <1>3, <2>1
      <4> QED
        BY <4>1, <4>2
    <3>3. registered \ seen' \subseteq S
      BY <3>1, <3>2, <2>1, <1>4
    <3> QED
      BY <3>3, <1>3
  <2> QED
    BY <2>1, <1>3 DEF InTheList, ReachesRest
<1> QED
  BY <1>1, <1>3, <1>5, <1>6

LEMMA VisitStep ==
  ASSUME IInv, NEW a \in Alarms, Visit(a), TypeOK'
  PROVE  IInv' /\ (Clock!Fire(a) \/ UNCHANGED left)
<1>1. /\ alarm = a /\ alarm' = next[a] /\ seen' = seen \union {a}
      /\ UNCHANGED << nticks, tv_sec, tv_usec, set >>
      /\ UNCHANGED listVars \/ Remove(a)
      /\ TypeOK /\ Links /\ InTheList /\ DueInRange /\ PassedUnrolled
  BY DEF Visit, clockVars, IInv, Links
<1>2. /\ a \in registered /\ InTick
      /\ Links' /\ InTheList'
      /\ registered' \subseteq registered
      /\ ~InTick' => registered \subseteq seen'
  BY <1>1, RestAhead
<1>3. /\ nticks \in 0 .. W - 1 /\ W \in Nat /\ registered \subseteq Alarms
      /\ time[a] \in 0 .. W - 1
  BY <1>1, WordAssumption DEF TypeOK
<1>4. /\ Expired(a) <=> TicksLeft(a) = 0
      /\ Expired(a) => time[a] = nticks
      /\ TicksLeft(a) = time[a] + (IF StillRolled(a) THEN W ELSE 0) - nticks
  BY <1>1, <1>2, ExpiredIsDue
<1>5. ASSUME NEW b \in registered \ {a}
      PROVE  /\ time'[b] = time[b] /\ rollover'[b] = rollover[b]
             /\ TicksLeft(b)' = TicksLeft(b)
             /\ InTick' /\ b \notin seen' => b \notin seen
             /\ ~InTick' => b \in seen
  <2>1. time'[b] = time[b] /\ rollover'[b] = rollover[b]
    BY <1>1, <1>3 DEF Visit, Rearm, TypeOK
  <2>2. b \in seen' <=> b \in seen
    BY <1>1
  <2>3. ~InTick' => b \in seen
    BY <1>2, <2>2
  <2> QED
    BY <1>1, <1>2, <2>1, <2>2, <2>3 DEF TicksLeft
<1>6. TicksLeft(a)' = time'[a] + (IF rollover'[a] THEN W ELSE 0) - nticks
  BY <1>1 DEF TicksLeft
<1>7. \/ /\ ~Expired(a) /\ registered' = registered
         /\ TicksLeft(a)' = TicksLeft(a) /\ TicksLeft(a)' \in 1 .. W - 1
         /\ nticks = 0 => ~rollover'[a]
      \/ /\ Expired(a) /\ registered' = registered \ {a} /\ 0 \in Periods
      \/ /\ Expired(a) /\ registered' = registered
         /\ TicksLeft(a)' \in Periods /\ TicksLeft(a)' \in 1 .. W - 1
         /\ nticks = 0 => ~rollover'[a]
  <2>1. CASE /\ ~Expired(a)
             /\ rollover' = [rollover EXCEPT ![a] = StillRolled(a)]
             /\ UNCHANGED << listVars, time >>
    <3>1. rollover'[a] = StillRolled(a) /\ time'[a] = time[a] /\ registered' = registered
      BY <2>1, <1>1 DEF TypeOK, listVars
    <3>2. TicksLeft(a)' = TicksLeft(a)
      BY <3>1, <1>4, <1>6
    <3>3. TicksLeft(a) \in 0 .. W - 1 /\ TicksLeft(a) # 0
      BY <1>1, <1>2, <1>4, <2>1 DEF DueInRange
    <3>4. nticks = 0 => ~rollover'[a]
      BY <3>1 DEF StillRolled
    <3>5. TicksLeft(a)' \in 1 .. W - 1
      BY <3>2, <3>3, <1>3
    <3> QED
      BY <2>1, <3>1, <3>2, <3>4, <3>5
  <2>2. CASE Expired(a) /\ 0 \in Periods /\ Remove(a)
    BY <2>2 DEF Remove
  <2>3. ASSUME NEW r \in Periods \ {0}, Expired(a), Rearm(a, r), UNCHANGED listVars
        PROVE  /\ registered' = registered
               /\ TicksLeft(a)' = r /\ r \in 1 .. W - 1
               /\ nticks = 0 => ~rollover'[a]
    <3> DEFINE due == (nticks + r) % W
    <3>1. r \in 1 .. W - 1
      BY <1>3, PeriodAssumption
    <3>2. time'[a] = due /\ rollover'[a] = (due < nticks)
      BY <1>1, <1>4, <2>3 DEF Rearm, TypeOK
    <3>3. due \in 0 .. W - 1 /\ due + (IF due < nticks THEN W ELSE 0) - nticks = r
      BY <1>3, <3>1, Armed
    <3>4. TicksLeft(a)' = r
      BY <1>6, <3>2, <3>3
    <3>5. nticks = 0 => ~rollover'[a]
      <4>1. due \in 0 .. W - 1
        BY <3>3
      <4>2. nticks = 0 => ~(due < nticks)
        BY <4>1, <1>3
      <4> QED
        BY <3>2, <4>2
    <3>6. registered' = registered
      BY <2>3 DEF listVars
    <3> QED
      BY <3>1, <3>4, <3>5, <3>6
  <2> QED
    BY <2>1, <2>2, <2>3 DEF Visit
<1>8. DueInRange'
  <2> SUFFICES ASSUME NEW b \in registered'
               PROVE  /\ TicksLeft(b)' \in 0 .. W - 1
                      /\ (InTick' /\ b \notin seen') \/ TicksLeft(b)' > 0
    BY <1>1 DEF DueInRange
  <2>1. CASE b = a
    BY <2>1, <1>3, <1>7
  <2>2. CASE b # a
    <3>1. b \in registered \ {a}
      BY <2>2, <1>2
    <3>2. TicksLeft(b) \in 0 .. W - 1 /\ (b \notin seen \/ TicksLeft(b) > 0)
      BY <3>1, <1>1 DEF DueInRange
    <3> QED
      BY <3>1, <3>2, <1>1, <1>5
  <2> QED
    BY <2>1, <2>2
<1>9. PassedUnrolled'
  <2> SUFFICES ASSUME nticks = 0, NEW b \in registered', b \in seen'
               PROVE  ~rollover'[b]
    BY <1>1 DEF PassedUnrolled
  <2>1. CASE b = a
    BY <2>1, <1>7
  <2>2. CASE b # a
    BY <2>2, <1>1, <1>2, <1>5 DEF PassedUnrolled
  <2> QED
    BY <2>1, <2>2
<1>10. SetOffset'
  BY <1>1 DEF IInv, SetOffset
<1>11. ASSUME NEW b \in Alarms \ {a}
       PROVE  left'[b] = left[b]
  <2>1. b \in registered' <=> b \in registered
    BY <1>7
  <2> QED
    BY <2>1, <1>5 DEF left
<1>12. /\ ~Expired(a) => left'[a] = left[a]
       /\ Expired(a) => left[a] = 0 /\ left'[a] \in {-1} \union (Periods \ {0})
       /\ Expired(a) => (left'[a] = -1 => 0 \in Periods)
  BY <1>2, <1>3, <1>4, <1>7 DEF left
<1>13. CASE ~Expired(a)
  BY <1>8, <1>9, <1>10, <1>11, <1>12, <1>13, <1>1, <1>2 DEF IInv, Links, left
<1>14. CASE Expired(a)
  <2> DEFINE r == IF left'[a] = -1 THEN 0 ELSE left'[a]
  <2>1. r \in Periods
    BY <1>12, <1>14
  <2>2. left'[a] = IF r = 0 THEN -1 ELSE r
    BY <1>12, <1>14
  <2>3. left' = [left EXCEPT ![a] = IF r = 0 THEN -1 ELSE r]
    BY <1>11, <2>2 DEF left
  <2>4. Clock!Fire(a)
    BY <1>12, <1>14, <2>1, <2>3 DEF Clock!Fire, Clock!Idle
  <2> QED
    BY <2>4, <1>8, <1>9, <1>10, <1>1, <1>2 DEF IInv, Links
<1> QED
  BY <1>13, <1>14

LEMMA StepInv ==
  ASSUME IInv, [Next]_vars
  PROVE  IInv' /\ [Clock!Next]_left
<1>1. TypeOK'
  BY StepType DEF IInv, Links
<1>2. CASE Tick
  BY <1>1, <1>2, TickStep DEF Clock!Next
<1>3. ASSUME NEW a \in Alarms, Stop(a)
      PROVE  IInv' /\ [Clock!Next]_left
  BY <1>1, <1>3, StopStep DEF Clock!Next
<1>4. ASSUME NEW a \in Alarms, Visit(a)
      PROVE  IInv' /\ [Clock!Next]_left
  BY <1>1, <1>4, VisitStep DEF Clock!Next
<1>5. ASSUME NEW a \in Alarms, NEW n \in StartDelays, Start(a, n)
      PROVE  IInv' /\ [Clock!Next]_left
  BY <1>1, <1>5, StartStep DEF Clock!Next
<1>6. ASSUME NEW t \in Times, SetTimeOfDay(t)
      PROVE  IInv' /\ [Clock!Next]_left
  BY <1>1, <1>6, SetStep
<1>7. CASE UNCHANGED vars
  <2>1. /\ UNCHANGED << nticks, next, previous, time, rollover, alarm >>
        /\ UNCHANGED << registered, seen, tv_sec, tv_usec, set >>
    BY <1>7 DEF vars, listVars, clockVars
  <2>2. (LinksAgree /\ SelfLinked)' /\ InTheList'
    BY <2>1 DEF IInv, LinksAgree, SelfLinked, Linked, InTheList, InTick, ReachesRest
  <2>3. \A a \in Alarms : TicksLeft(a)' = TicksLeft(a)
    BY <2>1 DEF TicksLeft, InTick
  <2>4. DueInRange'
    <3>1. registered \subseteq Alarms
      BY DEF IInv, TypeOK
    <3> QED
      BY <2>1, <2>3, <3>1 DEF IInv, DueInRange, InTick
  <2>5. PassedUnrolled' /\ SetOffset'
    BY <2>1 DEF IInv, PassedUnrolled, SetOffset, InTick
  <2>6. UNCHANGED left
    BY <2>1, <2>3 DEF left
  <2> QED
    BY <1>1, <2>2, <2>4, <2>5, <2>6 DEF IInv
<1> QED
  BY <1>2, <1>3, <1>4, <1>5, <1>6, <1>7 DEF Next

THEOREM Invariant == Spec => []IInv
<1>1. Init => IInv
  BY InitInv
<1>2. IInv /\ [Next]_vars => IInv'
  BY StepInv
<1> QED
  BY <1>1, <1>2, PTL DEF Spec

(* The types of the state of alt_tick.c, for every word and every list.    *)
THEOREM TypeCorrect == Spec => []TypeOK
<1>1. IInv => TypeOK
  BY DEF IInv
<1> QED
  BY <1>1, Invariant, PTL

(* Every registered alarm, and no other, is reached through the list of    *)
(* alt_llist.h, in both directions, for any number of alarms.              *)
THEOREM ListCorrect == Spec => []LinksAgree
<1>1. IInv => LinksAgree
  BY DEF IInv
<1> QED
  BY <1>1, Invariant, PTL

(* gettimeofday tells the time set and the ticks since (alt_settod.c:61),  *)
(* for every tick rate.                                                    *)
THEOREM TimeKept == Spec => []ClockKeepsTime
<1>1. ASSUME IInv, set # NotSet
      PROVE  TimeOfDay = set.time + (nticks - set.ticks) * MicrosPerTick
  <2> DEFINE U == ALT_US
             k == MicrosPerTick
             q == nticks \div Rate
             u == (nticks * k) % U
             sec == tv_sec + q
             usec == tv_usec + u
  <2>1. /\ nticks \in Nat /\ k \in Nat /\ U \in Nat \ {0}
        /\ tv_sec \in Int /\ tv_usec \in Int
    BY <1>1, WordAssumption, RateAssumption DEF IInv, TypeOK, ALT_US
  <2>2. /\ set.ticks \in 0 .. nticks /\ set.time \in Nat
        /\ tv_sec * U + tv_usec = set.time - set.ticks * k
    BY <1>1 DEF IInv, SetOffset
  <2>3. q \in Nat /\ u \in 0 .. U - 1 /\ q * U + u = nticks * k
    BY <2>1, TicksAsTime
  <2>4. sec \in Int /\ usec \in Int
    BY <2>1, <2>3
  <2>5. sec * U + usec = set.time + (nticks - set.ticks) * k
    <3>1. sec * U = tv_sec * U + q * U
      BY <2>1, <2>3
    <3>2. (nticks - set.ticks) * k = nticks * k - set.ticks * k
      BY <2>1, <2>2
    <3>3. /\ tv_sec * U \in Int /\ q * U \in Int /\ nticks * k \in Int
          /\ set.ticks * k \in Int /\ u \in Int
      BY <2>1, <2>2, <2>3
    <3>4. (tv_sec * U + q * U) + (tv_usec + u)
            = set.time + (nticks * k - set.ticks * k)
      <4>1. ASSUME NEW A \in Int, NEW B \in Int, NEW c \in Int, NEW d \in Int,
                   NEW t \in Int, NEW m \in Int, NEW n \in Int,
                   A + c = t - m, B + d = n
            PROVE  (A + B) + (c + d) = t + (n - m)
        BY <4>1
      <4>2. set.time \in Int /\ tv_usec \in Int
        BY <2>1, <2>2
      <4> HIDE DEF u, q, U, k
      <4> QED
        BY <2>2, <2>3, <3>3, <4>1, <4>2
    <3>5. sec * U + usec = (tv_sec * U + q * U) + (tv_usec + u)
      BY <3>1
    <3>6. set.time + (nticks - set.ticks) * k
            = set.time + (nticks * k - set.ticks * k)
      BY <3>2
    <3> QED
      BY <3>4, <3>5, <3>6
  <2>6. sec * U + usec >= 0
    <3>1. (nticks - set.ticks) * k \in Nat
      <4>1. nticks - set.ticks \in Nat
        BY <2>1, <2>2
      <4> QED
        BY <4>1, <2>1
    <3> QED
      BY <3>1, <2>2, <2>5
  <2>7. ~(usec < 0 /\ sec <= 0)
    <3>1. SUFFICES ASSUME usec < 0, sec <= 0 PROVE FALSE
      OBVIOUS
    <3>2. sec * U <= 0
      <4>1. ASSUME NEW x \in Int, NEW y \in Nat, x <= 0 PROVE x * y <= 0
        BY <4>1
      <4> QED
        BY <3>1, <4>1, <2>1, <2>4
    <3>3. sec * U \in Int
      BY <2>1, <2>4
    <3> QED
      BY <3>1, <3>2, <3>3, <2>4, <2>6
  <2>8. TimeOfDay = sec * U + usec
    BY <2>7 DEF TimeOfDay
  <2> QED
    BY <2>5, <2>8
<1>2. IInv => ClockKeepsTime
  BY <1>1 DEF ClockKeepsTime
<1> QED
  BY <1>2, Invariant, PTL

(* alt_alarm_start.c:37-47: alt_tick and the list implement the promise of *)
(* AlarmClock, the safety part of ImplementsClock: no callback comes early *)
(* or twice, none is skipped by a tick, however often the words wrap.      *)
THEOREM Implementation == Spec => Clock!Init /\ [][Clock!Next]_left
<1>1. Init => Clock!Init
  BY InitInv
<1>2. IInv /\ [Next]_vars => [Clock!Next]_left
  BY StepInv
<1> QED
  BY <1>1, <1>2, Invariant, PTL DEF Spec

----------------------------------------------------------------------------
(* The descriptor table.                                                   *)

(* The high-water mark covers every descriptor that belongs to a device,   *)
(* and the first such descriptor took at least index 3.                    *)
Marked ==
  \A fd \in Fds : "ALT_FD_DEV" \in fd_flags[fd] =>
     fd <= alt_max_fd /\ 3 <= alt_max_fd

(* Only a device descriptor is exclusive, a free descriptor has no flags,  *)
(* and above the standard streams every allocated one belongs to a device. *)
FlagsAgree ==
  \A fd \in Fds :
     /\ Exclusive(fd) => "ALT_FD_DEV" \in fd_flags[fd]
     /\ dev[fd] = NoDevice => fd_flags[fd] = {}
     /\ fd \notin Std /\ dev[fd] # NoDevice => "ALT_FD_DEV" \in fd_flags[fd]

(* Nothing is opened or locked before main.                                *)
QuietBoot ==
  boot # "main" => owned = {} /\ \A fd \in Fds : ~Exclusive(fd)

(* What alt_fd_lock keeps of LockIsExclusive: the holder of a lock shares  *)
(* the device with at most one other descriptor, a higher one, which the   *)
(* loop does not look at; no later open adds another.                      *)
SharesOnlyWithHighest ==
  \A fd \in Fds : Exclusive(fd) =>
     \A g, h \in Sharing(fd) : g = h /\ g > fd

(* The inductive invariant: OneExclusiveHolder and SharesOnlyWithHighest   *)
(* depend on what the mark covers, that on the flags.                      *)
TableIInv ==
  /\ TableTypeOK /\ NothingLeaked /\ Marked /\ FlagsAgree /\ QuietBoot
  /\ OneExclusiveHolder /\ SharesOnlyWithHighest

(* The standard descriptors are descriptors.                               *)
LEMMA StdFds == Std \subseteq Fds /\ 3 \in Fds \ Std
BY TableAssumption DEF Std, Fds

(* The initial state: only the standard streams, on /dev/null.             *)
LEMMA InitTableIInv == TableInit => TableIInv
<1> SUFFICES ASSUME TableInit PROVE TableIInv
  OBVIOUS
<1> USE StdFds DEF TableInit, Exclusive
<1>1. TableTypeOK
  BY TableAssumption, DeviceAssumption DEF TableTypeOK, Fds, Flags
<1>2. NothingLeaked
  BY DeviceAssumption DEF NothingLeaked
<1>3. Marked /\ FlagsAgree /\ QuietBoot
  BY DeviceAssumption DEF Marked, FlagsAgree, QuietBoot
<1>4. OneExclusiveHolder /\ SharesOnlyWithHighest
  BY DEF OneExclusiveHolder, SharesOnlyWithHighest
<1> QED BY <1>1, <1>2, <1>3, <1>4 DEF TableIInv

(* The first free descriptor is no standard stream and nobody owns it.     *)
LEMMA FirstFreeIsNew ==
  ASSUME TableIInv, NEW fd \in FirstFree
  PROVE fd \in Fds \ Std /\ fd \notin owned /\ dev[fd] = NoDevice /\ fd >= 3
<1>1. fd \in Fds /\ dev[fd] = NoDevice
  BY DEF FirstFree, Free
<1>2. fd \notin owned \union Std
  BY <1>1 DEF TableIInv, NothingLeaked
<1> QED BY <1>1, <1>2 DEF Fds, Std

(* The mark rises to the descriptor it is given, and never sinks.          *)
LEMMA MarkRises ==
  ASSUME TableTypeOK, NEW fd \in Fds
  PROVE HighMark(fd) \in -1 .. ALT_MAX_FD - 1 /\ HighMark(fd) >= fd
        /\ HighMark(fd) >= alt_max_fd
BY TableAssumption DEF TableTypeOK, HighMark, Fds

(* open succeeds: the new descriptor is not exclusive, and no exclusive    *)
(* descriptor refers to the device, as those are all under the mark.       *)
LEMMA OpenDeviceStep ==
  ASSUME TableIInv, NEW fd \in FirstFree, NEW d \in Devices,
         NEW flags \in OpenFlags, OpenDevice(fd, d, flags)
  PROVE TableIInv'
<1> USE DEF OpenDevice
<1>1. fd \in Fds \ Std /\ fd \notin owned /\ dev[fd] = NoDevice /\ fd >= 3
  BY FirstFreeIsNew
<1>2. fd \in Nat /\ alt_max_fd \in Int /\ Fds \subseteq Nat
  BY <1>1, TableAssumption DEF Fds, TableIInv, TableTypeOK
<1>3. alt_max_fd' \in -1 .. ALT_MAX_FD - 1 /\ alt_max_fd' >= fd
      /\ alt_max_fd' >= alt_max_fd
  BY <1>1, MarkRises DEF TableIInv
<1>4. flags \subseteq {"O_NONBLOCK"}
  BY DEF OpenFlags
<1>5. /\ dev' \in [Fds -> Devices \union {NoDevice}]
      /\ fd_flags' \in [Fds -> SUBSET Flags]
  BY <1>1, <1>4 DEF TableIInv, TableTypeOK, Flags
<1>6. TableTypeOK'
  BY <1>1, <1>3, <1>5 DEF TableIInv, TableTypeOK
<1>7. /\ dev'[fd] = d /\ fd_flags'[fd] = flags \union {"ALT_FD_DEV"}
      /\ \A g \in Fds \ {fd} : dev'[g] = dev[g] /\ fd_flags'[g] = fd_flags[g]
  BY <1>1 DEF TableIInv, TableTypeOK
<1>8. ~Exclusive(fd)' /\ \A g \in Fds \ {fd} : Exclusive(g)' = Exclusive(g)
  BY <1>4, <1>7 DEF Exclusive
<1>9. NothingLeaked'
  BY <1>1, <1>7, DeviceAssumption DEF NothingLeaked, TableIInv
<1>10. Marked'
  BY <1>1, <1>2, <1>3, <1>7 DEF TableIInv, Marked, TableTypeOK
<1>11. FlagsAgree'
  BY <1>7, <1>8, DeviceAssumption DEF TableIInv, FlagsAgree
<1>12. \A g \in Fds : Exclusive(g) => dev[g] # d /\ g # fd
  <2> SUFFICES ASSUME NEW g \in Fds, Exclusive(g) PROVE dev[g] # d /\ g # fd
    OBVIOUS
  <2>1. g <= alt_max_fd
    BY DEF TableIInv, FlagsAgree, Marked
  <2>2. g \in 0 .. alt_max_fd
    BY <1>2, <2>1
  <2> QED BY <1>1, <2>2 DEF Locked, Exclusive, TableIInv, FlagsAgree
<1>13. OneExclusiveHolder'
  BY <1>7, <1>8 DEF TableIInv, OneExclusiveHolder
<1>14. \A g \in Fds : Exclusive(g)' => Sharing(g)' \subseteq Sharing(g)
  BY <1>7, <1>8, <1>12 DEF Sharing
<1>15. SharesOnlyWithHighest'
  BY <1>8, <1>14 DEF TableIInv, SharesOnlyWithHighest
<1> QED
  BY <1>6, <1>9, <1>10, <1>11, <1>13, <1>15 DEF TableIInv, QuietBoot

(* open fails with EACCES: only the mark moves.                            *)
LEMMA OpenLockedStep ==
  ASSUME TableIInv, NEW fd \in FirstFree, NEW d \in Devices,
         NEW flags \in OpenFlags, OpenLocked(fd, d, flags)
  PROVE TableIInv'
<1> USE DEF OpenLocked
<1>1. fd \in Fds \ Std /\ fd \notin owned /\ dev[fd] = NoDevice
  BY FirstFreeIsNew
<1>2. fd_flags[fd] = {}
  BY <1>1 DEF TableIInv, FlagsAgree
<1>3. fd_flags' = fd_flags
  BY <1>1, <1>2 DEF TableIInv, TableTypeOK
<1>4. alt_max_fd' \in -1 .. ALT_MAX_FD - 1 /\ alt_max_fd' >= alt_max_fd
  BY <1>1, MarkRises DEF TableIInv
<1>5. Fds \subseteq Int /\ alt_max_fd \in Int
  BY TableAssumption DEF Fds, TableIInv, TableTypeOK
<1>6. TableTypeOK'
  BY <1>3, <1>4 DEF TableIInv, TableTypeOK
<1>7. Marked'
  BY <1>3, <1>4, <1>5 DEF TableIInv, Marked
<1>8. /\ NothingLeaked' /\ FlagsAgree' /\ QuietBoot'
      /\ OneExclusiveHolder' /\ SharesOnlyWithHighest'
  BY <1>3 DEF TableIInv, NothingLeaked, FlagsAgree, QuietBoot, Exclusive, Sharing,
     OneExclusiveHolder, SharesOnlyWithHighest
<1> QED BY <1>6, <1>7, <1>8 DEF TableIInv

(* close: the descriptor leaves every set of sharing descriptors.          *)
LEMMA CloseStep ==
  ASSUME TableIInv, NEW fd \in Fds, Close(fd)
  PROVE TableIInv'
<1> USE DEF Close, Released
<1>1. /\ dev'[fd] = NoDevice /\ fd_flags'[fd] = {}
      /\ \A g \in Fds \ {fd} : dev'[g] = dev[g] /\ fd_flags'[g] = fd_flags[g]
  BY DEF TableIInv, TableTypeOK
<1>2. TableTypeOK'
  BY DEF TableIInv, TableTypeOK
<1>3. fd \notin Std
  BY DEF TableIInv, TableTypeOK
<1>4. NothingLeaked'
  BY <1>1, <1>3 DEF TableIInv, NothingLeaked
<1>5. ~Exclusive(fd)' /\ \A g \in Fds \ {fd} : Exclusive(g)' = Exclusive(g)
  BY <1>1 DEF Exclusive
<1>6. Marked' /\ FlagsAgree' /\ QuietBoot'
  BY <1>1, <1>5 DEF TableIInv, Marked, FlagsAgree, QuietBoot
<1>7. OneExclusiveHolder'
  BY <1>1, <1>5 DEF TableIInv, OneExclusiveHolder
<1>8. \A g \in Fds : Exclusive(g) => dev[g] # NoDevice
  BY DEF TableIInv, FlagsAgree, Exclusive
<1>9. \A g \in Fds : Exclusive(g)' => Sharing(g)' \subseteq Sharing(g)
  BY <1>1, <1>5, <1>8 DEF Sharing
<1>10. SharesOnlyWithHighest'
  BY <1>5, <1>9 DEF TableIInv, SharesOnlyWithHighest
<1> QED BY <1>2, <1>4, <1>6, <1>7, <1>10 DEF TableIInv

(* A lock is granted: the scan saw every descriptor of the device but the  *)
(* one the mark is at.                                                     *)
LEMMA LockStep ==
  ASSUME TableIInv, NEW fd \in Fds, Lock(fd)
  PROVE TableIInv'
<1> USE DEF Lock
<1>1. /\ fd_flags'[fd] = fd_flags[fd] \union {"ALT_FD_EXCL"}
      /\ \A g \in Fds \ {fd} : fd_flags'[g] = fd_flags[g]
  BY DEF TableIInv, TableTypeOK
<1>2. TableTypeOK'
  BY DEF TableIInv, TableTypeOK, Flags
<1>3. Fds \subseteq Int /\ alt_max_fd \in Int
  BY TableAssumption DEF Fds, TableIInv, TableTypeOK
<1>4. fd <= alt_max_fd /\ 3 <= alt_max_fd /\ dev[fd] # NoDevice
  BY DEF TableIInv, Marked, FlagsAgree
<1>5. \A g \in Sharing(fd) : g = alt_max_fd
  <2> SUFFICES ASSUME NEW g \in Sharing(fd) PROVE g = alt_max_fd
    OBVIOUS
  <2>1. g \in Fds \ {fd} /\ dev[g] = dev[fd]
    BY DEF Sharing
  <2>2. g >= alt_max_fd
    BY <2>1 DEF Unseen
  <2>3. g \notin Std
    BY <1>3, <1>4, <2>1, <2>2 DEF Std
  <2>4. g <= alt_max_fd
    BY <1>4, <2>1, <2>3 DEF TableIInv, FlagsAgree, Marked
  <2> QED BY <1>3, <2>1, <2>2, <2>4
<1>6. \A g \in Fds : Sharing(g)' = Sharing(g)
  BY DEF Sharing
<1>7. \A g \in Fds \ {fd} : Exclusive(g)' = Exclusive(g)
  BY <1>1 DEF Exclusive
<1>8. NothingLeaked' /\ Marked' /\ FlagsAgree' /\ QuietBoot'
  BY <1>1, <1>4, <1>7
     DEF TableIInv, NothingLeaked, Marked, FlagsAgree, QuietBoot, Exclusive
<1>9. \A g \in Fds \ {fd} : Exclusive(g) => dev[g] # dev[fd]
  <2> SUFFICES ASSUME NEW g \in Fds \ {fd}, Exclusive(g), dev[g] = dev[fd]
               PROVE FALSE
    OBVIOUS
  <2>1. g \in Sharing(fd) /\ fd \in Sharing(g)
    BY DEF Sharing
  <2>2. g = alt_max_fd /\ fd > g
    BY <1>5, <2>1 DEF TableIInv, SharesOnlyWithHighest
  <2> QED BY <1>3, <1>4, <2>2
<1>10. OneExclusiveHolder'
  BY <1>7, <1>9 DEF TableIInv, OneExclusiveHolder
<1>11. \A g, h \in Sharing(fd) : g = h /\ g > fd
  BY <1>3, <1>4, <1>5 DEF Sharing
<1>12. SharesOnlyWithHighest'
  BY <1>6, <1>7, <1>11 DEF TableIInv, SharesOnlyWithHighest
<1> QED BY <1>2, <1>8, <1>10, <1>12 DEF TableIInv

(* Unlocking and fcntl leave the devices, and add no exclusive descriptor. *)
LEMMA FlagsStep ==
  ASSUME TableIInv, NEW fd \in Fds,
         \/ Unlock(fd)
         \/ \E flags \in OpenFlags : SetFlags(fd, flags)
  PROVE TableIInv'
<1>1. /\ boot = "main" /\ fd \in owned \union Std
      /\ UNCHANGED << dev, alt_max_fd, boot, owned >>
  BY DEF Unlock, SetFlags
<1>2. PICK new \in SUBSET Flags :
        /\ fd_flags' = [fd_flags EXCEPT ![fd] = new]
        /\ "ALT_FD_DEV" \in new <=> "ALT_FD_DEV" \in fd_flags[fd]
        /\ "ALT_FD_EXCL" \in new => "ALT_FD_EXCL" \in fd_flags[fd]
  BY DEF Unlock, SetFlags, OpenFlags, TableIInv, TableTypeOK, Flags
<1>3. /\ fd_flags'[fd] = new
      /\ \A g \in Fds \ {fd} : fd_flags'[g] = fd_flags[g]
  BY <1>2 DEF TableIInv, TableTypeOK
<1>4. TableTypeOK'
  BY <1>1, <1>2 DEF TableIInv, TableTypeOK
<1>5. \A g \in Fds : Exclusive(g)' => Exclusive(g)
  BY <1>2, <1>3 DEF Exclusive
<1>6. dev[fd] # NoDevice
  BY <1>1 DEF TableIInv, NothingLeaked
<1>7. FlagsAgree'
  BY <1>1, <1>2, <1>3, <1>5, <1>6 DEF TableIInv, FlagsAgree
<1>8. NothingLeaked' /\ Marked' /\ QuietBoot'
  BY <1>1, <1>2, <1>3, <1>5 DEF TableIInv, NothingLeaked, Marked, QuietBoot
<1>9. \A g \in Fds : Sharing(g)' = Sharing(g)
  BY <1>1 DEF Sharing
<1>10. OneExclusiveHolder' /\ SharesOnlyWithHighest'
  BY <1>1, <1>5, <1>9 DEF TableIInv, OneExclusiveHolder, SharesOnlyWithHighest
<1> QED BY <1>4, <1>7, <1>8, <1>10 DEF TableIInv

(* A redirection: nothing is exclusive yet.                                *)
LEMMA RedirectStep ==
  ASSUME TableIInv, NEW fd \in Std, NEW d \in Devices \union {NoDevice},
         NEW stream \in {"stdout", "stdin", "stderr"},
         NEW then \in {"stdin", "stderr", "main"},
         Redirect(stream, fd, d, then)
  PROVE TableIInv'
<1> USE DEF Redirect
<1>1. owned = {} /\ owned' = {} /\ \A g \in Fds : ~Exclusive(g)
  BY DEF TableIInv, QuietBoot
<1>2. fd \in Fds
  BY StdFds
<1>3. CASE d = NoDevice
  <2>1. UNCHANGED << dev, fd_flags, alt_max_fd, owned >>
    BY <1>3
  <2>2. TableTypeOK'
    BY <2>1 DEF TableIInv, TableTypeOK
  <2> QED
    BY <1>1, <2>1, <2>2 DEF TableIInv, NothingLeaked, Marked, FlagsAgree,
       QuietBoot, Exclusive, Sharing, OneExclusiveHolder, SharesOnlyWithHighest
<1>4. CASE d # NoDevice
  <2>1. PICK first \in FirstFree : alt_max_fd' = HighMark(first)
    BY <1>4
  <2>2. first \in Fds /\ first >= 3
    BY FirstFreeIsNew
  <2>3. alt_max_fd' \in -1 .. ALT_MAX_FD - 1 /\ alt_max_fd' >= first
        /\ alt_max_fd' >= alt_max_fd
    BY <2>1, <2>2, MarkRises DEF TableIInv
  <2>4. Fds \subseteq Int /\ alt_max_fd \in Int
    BY TableAssumption DEF Fds, TableIInv, TableTypeOK
  <2>5. /\ dev' = [dev EXCEPT ![fd] = d]
        /\ fd_flags' = [fd_flags EXCEPT ![fd] = {"ALT_FD_DEV"}]
    BY <1>4
  <2>6. /\ dev'[fd] = d /\ fd_flags'[fd] = {"ALT_FD_DEV"}
        /\ \A g \in Fds \ {fd} :
             dev'[g] = dev[g] /\ fd_flags'[g] = fd_flags[g]
    BY <1>2, <2>5 DEF TableIInv, TableTypeOK
  <2>7. TableTypeOK'
    BY <1>1, <1>2, <2>3, <2>5 DEF TableIInv, TableTypeOK, Flags
  <2>8. \A g \in Fds : ~Exclusive(g)'
    BY <1>1, <2>6 DEF Exclusive
  <2>9. NothingLeaked'
    BY <1>1, <1>2, <1>4, <2>6 DEF TableIInv, NothingLeaked
  <2>10. fd <= 2 /\ fd \in Int
    BY DEF Std
  <2>11. Marked'
    BY <2>2, <2>3, <2>4, <2>6, <2>10 DEF TableIInv, Marked
  <2>12. FlagsAgree' /\ QuietBoot'
    BY <1>1, <1>4, <2>6, <2>8 DEF TableIInv, FlagsAgree, QuietBoot
  <2> QED
    BY <2>7, <2>8, <2>9, <2>11, <2>12
       DEF TableIInv, OneExclusiveHolder, SharesOnlyWithHighest
<1> QED BY <1>3, <1>4

(* Every step of the table preserves the invariant.                        *)
LEMMA TableInductive == TableIInv /\ [TableNext]_tableVars => TableIInv'
<1> SUFFICES ASSUME TableIInv, [TableNext]_tableVars PROVE TableIInv'
  OBVIOUS
<1>1. CASE alt_io_redirect
  BY <1>1, RedirectStep, DeviceAssumption DEF alt_io_redirect, Std
<1>2. CASE \E fd \in FirstFree, d \in Devices, flags \in OpenFlags :
             OpenDevice(fd, d, flags) \/ OpenLocked(fd, d, flags)
  BY <1>2, OpenDeviceStep, OpenLockedStep
<1>3. CASE \E fd \in Fds : Close(fd) \/ Lock(fd) \/ Unlock(fd)
  BY <1>3, CloseStep, LockStep, FlagsStep
<1>4. CASE \E fd \in Fds, flags \in OpenFlags : SetFlags(fd, flags)
  BY <1>4, FlagsStep
<1>5. CASE UNCHANGED tableVars
  <2>1. TableTypeOK'
    BY <1>5 DEF TableIInv, TableTypeOK, tableVars
  <2> QED
    BY <1>5, <2>1 DEF tableVars, TableIInv, NothingLeaked, Marked, FlagsAgree,
       QuietBoot, Exclusive, Sharing, OneExclusiveHolder, SharesOnlyWithHighest
<1> QED BY <1>1, <1>2, <1>3, <1>4, <1>5 DEF TableNext

(* The inductive invariant holds in every state.                           *)
THEOREM TableInvariant == TableSpec => []TableIInv
BY InitTableIInv, TableInductive, PTL DEF TableSpec

(* The variables keep their types.                                         *)
THEOREM TableTypeCorrect == TableSpec => []TableTypeOK
BY TableInvariant, PTL DEF TableIInv

(* For every table: a device never has two exclusive holders, although     *)
(* the scan of alt_fd_lock leaves the highest descriptor out.              *)
THEOREM OneHolder == TableSpec => []OneExclusiveHolder
BY TableInvariant, PTL DEF TableIInv

(* For every table, what is left of the promise of alt_fd_lock.c:43-45,    *)
(* which LockIsExclusive states and the code breaks: an exclusive holder   *)
(* shares its device with at most one descriptor, a higher one.            *)
THEOREM SharesOnce == TableSpec => []SharesOnlyWithHighest
BY TableInvariant, PTL DEF TableIInv

(* For every table: the allocated descriptors are the standard streams and *)
(* those in use.                                                           *)
THEOREM NoLeak == TableSpec => []NothingLeaked
BY TableInvariant, PTL DEF TableIInv
=============================================================================
