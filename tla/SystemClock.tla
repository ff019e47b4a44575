---------------------------- MODULE SystemClock -----------------------------
(***************************************************************************)
(* The system clock of the Nios (HAL/src/alt_tick.c, alt_alarm_start.c,    *)
(* alt_settod.c, alt_gettod.c, the timer driver and the list macros of     *)
(* alt_llist.h): a tick counter of W values, a doubly linked list of       *)
(* alarms that alt_tick walks at interrupt level, and the time of day that *)
(* is computed from the same counter.  The foreground starts and stops     *)
(* alarms with interrupts disabled, so never while alt_tick runs.          *)
(***************************************************************************)
EXTENDS Integers

CONSTANTS
  W,               \* values of an alt_u32 (2^32)
  Rate,            \* ticks per second (1000)
  MicrosPerTick,   \* ALT_US / tick_rate (1000)
  Alarms,          \* the alt_alarm structures of the program
  alt_alarm_list,  \* the head of the list
  Null,            \* the links of an alarm that was never started
  StartDelays,     \* nticks passed to alt_alarm_start
  Periods,         \* values returned by callbacks
  Times            \* times of day, in microseconds, that are set

ASSUME WordAssumption == W \in Nat /\ W > 2
ASSUME RateAssumption == Rate \in Nat \ {0} /\ MicrosPerTick \in Nat \ {0}
ASSUME ListAssumption ==
  /\ alt_alarm_list \notin Alarms
  /\ Null \notin Alarms \union {alt_alarm_list}
(* With nticks = W - 1 the callback would be due after W ticks, which the  *)
(* words cannot tell from none (see the README).                           *)
ASSUME DelayAssumption == StartDelays \subseteq 0 .. W - 2
ASSUME PeriodAssumption == Periods \subseteq 0 .. W - 1
ASSUME TimesAssumption == Times \subseteq Nat

ALT_US == Rate * MicrosPerTick

Nodes == Alarms \union {alt_alarm_list}

VARIABLES
  nticks,      \* _alt_nticks
  next,        \* llist.next of the alarms and of the head
  previous,    \* llist.previous
  time,        \* alarm->time
  rollover,    \* alarm->rollover
  alarm,       \* what alt_tick looks at; the head when it does not run
  tv_sec,      \* alt_resettime.tv_sec
  tv_usec,     \* alt_resettime.tv_usec
  registered,  \* history: the alarms started and not removed
  seen,        \* history: the alarms this call of alt_tick has passed
  set          \* history: the last time set and the ticks then, or NotSet

listVars == << next, previous, registered >>
clockVars == << tv_sec, tv_usec, set >>
vars == << nticks, listVars, time, rollover, alarm, seen, clockVars >>

NotSet == [time |-> -1, ticks |-> -1]

Init ==
  /\ nticks = 0
  /\ next = [x \in Nodes |-> IF x = alt_alarm_list THEN x ELSE Null]
  /\ previous = next
  /\ time = [a \in Alarms |-> 0]
  /\ rollover = [a \in Alarms |-> FALSE]
  /\ alarm = alt_alarm_list
  /\ tv_sec = 0 /\ tv_usec = 0
  /\ registered = {} /\ seen = {}
  /\ set = [time |-> 0, ticks |-> 0]

InTick == alarm # alt_alarm_list
----------------------------------------------------------------------------
(* Mutant of Insert: the old first entry keeps its back link.              *)
InsertHalf(a) ==
  LET first == next[alt_alarm_list] IN
  /\ next' = [next EXCEPT ![a] = first, ![alt_alarm_list] = a]
  /\ previous' = [previous EXCEPT ![a] = alt_alarm_list]
  /\ registered' = registered \union {a}

(* alt_llist_insert: a becomes the first entry.                            *)
Insert(a) ==
  LET first == next[alt_alarm_list] IN
  /\ next' = [next EXCEPT ![a] = first, ![alt_alarm_list] = a]
  /\ previous' = [previous EXCEPT ![a] = alt_alarm_list, ![first] = a]
  /\ registered' = registered \union {a}

(* alt_llist_remove: a is left pointing to itself.                         *)
Remove(a) ==
  LET after == next[a]
      before == previous[a]
  IN
  /\ next' = [next EXCEPT ![before] = after, ![a] = a]
  /\ previous' = [previous EXCEPT ![after] = before, ![a] = a]
  /\ registered' = registered \ {a}

(* alt_alarm_start, for an alarm that is not registered.                   *)
Start(a, n) ==
  LET due == (n + nticks + 1) % W IN
  /\ ~InTick
  /\ a \notin registered
  /\ time' = [time EXCEPT ![a] = due]
  /\ rollover' = [rollover EXCEPT ![a] = due < nticks]
  /\ Insert(a)
  /\ UNCHANGED << nticks, alarm, seen, clockVars >>

(* alt_alarm_stop, for an alarm that was started at least once.            *)
Stop(a) ==
  /\ ~InTick
  /\ next[a] # Null
  /\ Remove(a)
  /\ UNCHANGED << nticks, time, rollover, alarm, seen, clockVars >>

(* The timer interrupt: alt_tick counts and starts at the first alarm.     *)
Tick ==
  /\ ~InTick
  /\ nticks' = (nticks + 1) % W
  /\ alarm' = next[alt_alarm_list]
  /\ seen' = {}
  /\ set' = IF nticks' = 0 THEN NotSet ELSE set
  /\ UNCHANGED << listVars, time, rollover, tv_sec, tv_usec >>

(* The flag is cleared by the tick that wraps the counter.                 *)
StillRolled(a) == rollover[a] /\ nticks # 0

Expired(a) == time[a] <= nticks /\ ~StillRolled(a)

(* Mutant of Rearm: the roll-over of a periodic alarm is not noticed.      *)
RearmNoRollover(a, r) ==
  LET due == (time[a] + r) % W IN
  /\ time' = [time EXCEPT ![a] = due]
  /\ rollover' = [rollover EXCEPT ![a] = FALSE]

Rearm(a, r) ==
  LET due == (time[a] + r) % W IN
  /\ time' = [time EXCEPT ![a] = due]
  /\ rollover' = [rollover EXCEPT ![a] = due < nticks]

(* One turn of the loop of alt_tick; a callback returns r.                 *)
Visit(a) ==
  /\ alarm = a
  /\ alarm' = next[a]
  /\ seen' = seen \union {a}
  /\ \/ /\ ~Expired(a)
        /\ rollover' = [rollover EXCEPT ![a] = StillRolled(a)]
        /\ UNCHANGED << listVars, time >>
     \/ /\ Expired(a)
        /\ 0 \in Periods
        /\ rollover' = [rollover EXCEPT ![a] = FALSE]
        /\ Remove(a)
        /\ UNCHANGED time
     \/ /\ Expired(a)
        /\ \E r \in Periods \ {0} : Rearm(a, r)
        /\ UNCHANGED listVars
  /\ UNCHANGED << nticks, clockVars >>

(* Mutant of SetTimeOfDay: the ticks of the current second are ignored.    *)
SetTimeOfDayCoarse(t) ==
  /\ ~InTick
  /\ tv_sec' = (t \div ALT_US) - (nticks \div Rate)
  /\ tv_usec' = t % ALT_US
  /\ set' = IF nticks * MicrosPerTick < W
              THEN [time |-> t, ticks |-> nticks]
              ELSE NotSet
  /\ UNCHANGED << nticks, listVars, time, rollover, alarm, seen >>

(* settimeofday: the product of ticks and microseconds is an alt_u32.      *)
SetTimeOfDay(t) ==
  /\ ~InTick
  /\ tv_sec' = (t \div ALT_US) - (nticks \div Rate)
  /\ tv_usec' = (t % ALT_US) - (((nticks * MicrosPerTick) % W) % ALT_US)
  /\ set' = IF nticks * MicrosPerTick < W
              THEN [time |-> t, ticks |-> nticks]
              ELSE NotSet
  /\ UNCHANGED << nticks, listVars, time, rollover, alarm, seen >>

(* gettimeofday, in microseconds: the two loops carry at most one second,  *)
(* a time before 0 becomes 0.  The product is an alt_u64 here.             *)
TimeOfDay ==
  LET sec == tv_sec + nticks \div Rate
      usec == tv_usec + ((nticks * MicrosPerTick) % ALT_US)
  IN  IF usec < 0 /\ sec <= 0 THEN 0 ELSE sec * ALT_US + usec

Next ==
  \/ Tick
  \/ \E a \in Alarms : Stop(a) \/ Visit(a) \/ \E n \in StartDelays : Start(a, n)
  \/ \E t \in Times : SetTimeOfDay(t)

(* alt_tick runs to its end once it has been entered.                      *)
Fairness == \A a \in Alarms : WF_vars(Visit(a))

Spec == Init /\ [][Next]_vars /\ Fairness
----------------------------------------------------------------------------
TypeOK ==
  /\ nticks \in 0 .. W - 1
  /\ next \in [Nodes -> Nodes \union {Null}]
  /\ previous \in [Nodes -> Nodes \union {Null}]
  /\ time \in [Alarms -> 0 .. W - 1]
  /\ rollover \in [Alarms -> BOOLEAN]
  /\ alarm \in Nodes
  /\ tv_sec \in Int /\ tv_usec \in Int
  /\ registered \in SUBSET Alarms
  /\ seen \in SUBSET Alarms
  /\ set \in [time : Int, ticks : Int]

(* The ticks until the callback of a registered alarm, from its words: a   *)
(* rolled alarm that alt_tick has not passed yet lost its roll-over with   *)
(* the tick that wrapped the counter.                                      *)
TicksLeft(a) ==
  LET rolled == rollover[a] /\ ~(InTick /\ a \notin seen /\ nticks = 0)
  IN  time[a] + (IF rolled THEN W ELSE 0) - nticks

left == [a \in Alarms |-> IF a \in registered THEN TicksLeft(a) ELSE -1]

Clock == INSTANCE AlarmClock

(* alt_alarm_start.c:44-56: every callback is made at the tick asked for   *)
(* and at no other, although alt_tick compares words that wrap around.     *)
ImplementsClock == Clock!Spec

(* alt_llist.h: whatever alarms were started, stopped or ended by their    *)
(* callback, the two links of every entry agree and the registered alarms, *)
(* no others, are reached from the head, so alt_tick passes all of them.   *)
Linked == registered \union {alt_alarm_list}

LinksAgree ==
  /\ \A x \in Linked : next[x] \in Linked /\ previous[next[x]] = x
  /\ \A x \in Linked : previous[x] \in Linked /\ next[previous[x]] = x
  /\ \A S \in SUBSET Linked :
       alt_alarm_list \in S /\ (\A x \in S : next[x] \in S) => S = Linked

(* alt_settod.c:61-63: after settimeofday, gettimeofday tells the time set *)
(* plus the ticks since, as long as the counter has not wrapped since and  *)
(* the product in settimeofday had not.                                    *)
ClockKeepsTime ==
  set # NotSet =>
    TimeOfDay = set.time + (nticks - set.ticks) * MicrosPerTick
=============================================================================
