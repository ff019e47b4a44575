----------------------------- MODULE AlarmClock -----------------------------
(***************************************************************************)
(* What the alarms of the HAL promise (alt_alarm.h, alt_alarm_start.c): an *)
(* alarm is called back when the ticks asked for have elapsed, never       *)
(* before, never twice, and never forgotten, however the words the ticks   *)
(* are counted in wrap around.  SystemClock is shown to implement this.    *)
(***************************************************************************)
EXTENDS Integers

CONSTANTS
  Alarms,        \* the alt_alarm structures of the program
  StartDelays,   \* values passed to alt_alarm_start as nticks
  Periods        \* values a callback returns

Idle == -1

VARIABLE left   \* per alarm: ticks until its callback, or Idle

Init == left = [a \in Alarms |-> Idle]

(* Every callback that is due has been made.                               *)
Quiet == \A a \in Alarms : left[a] # 0

(* The callback comes with the tick that follows the nticks asked for, so  *)
(* that at least nticks whole periods have elapsed.                        *)
Start(a) ==
  /\ Quiet
  /\ left[a] = Idle
  /\ \E n \in StartDelays : left' = [left EXCEPT ![a] = n + 1]

Stop(a) ==
  /\ Quiet
  /\ left' = [left EXCEPT ![a] = Idle]

Tick ==
  /\ Quiet
  /\ left' = [a \in Alarms |-> IF left[a] = Idle THEN Idle ELSE left[a] - 1]

(* The callback returns the ticks until the next one; 0 ends the alarm.    *)
Fire(a) ==
  /\ left[a] = 0
  /\ \E r \in Periods :
       left' = [left EXCEPT ![a] = IF r = 0 THEN Idle ELSE r]

Next ==
  \/ Tick
  \/ \E a \in Alarms : Start(a) \/ Stop(a) \/ Fire(a)

Spec == Init /\ [][Next]_left /\ \A a \in Alarms : WF_left(Fire(a))
=============================================================================
