--------------------------- MODULE FirmwareProofs ---------------------------
(***************************************************************************)
(* The safety invariants of Firmware, for every length of the keys, every  *)
(* image and every number of presses.                                      *)
(***************************************************************************)
EXTENDS Firmware, FiniteSetTheorems, TLAPS

(* Sets of buttons are finite, so their cardinalities are numbers.         *)
LEMMA ButtonSets ==
  ASSUME NEW B \in SUBSET Buttons
  PROVE  /\ IsFiniteSet(B)
         /\ Cardinality(B) \in Nat
<1>1. IsFiniteSet(Buttons)
  <2>1. IsFiniteSet({})
    BY FS_EmptySet
  <2>2. IsFiniteSet({} \union {"start"})
    BY <2>1, FS_AddElement
  <2>3. IsFiniteSet(({} \union {"start"}) \union {"step"})
    BY <2>2, FS_AddElement
  <2>4. IsFiniteSet((({} \union {"start"}) \union {"step"}) \union {"shift"})
    BY <2>3, FS_AddElement
  <2>5. IsFiniteSet(((({} \union {"start"}) \union {"step"}) \union {"shift"}) \union {"up"})
    BY <2>4, FS_AddElement
  <2>6. Buttons = ((({} \union {"start"}) \union {"step"}) \union {"shift"}) \union {"up"}
    BY DEF Buttons
  <2> QED
    BY <2>5, <2>6
<1>2. IsFiniteSet(B)
  BY <1>1, FS_Subset
<1> QED
  BY <1>2, FS_CardinalityType

(* A press adds one edge at most.                                          *)
LEMMA PressAddsOne ==
  ASSUME NEW B \in SUBSET Buttons, NEW b \in Buttons
  PROVE  Cardinality(B \union {b}) <= Cardinality(B) + 1
<1>1. IsFiniteSet(B) /\ Cardinality(B) \in Nat
  BY ButtonSets
<1>2. Cardinality(B \union {b}) = IF b \in B THEN Cardinality(B) ELSE Cardinality(B) + 1
  BY <1>1, FS_AddElement
<1> QED
  BY <1>1, <1>2

(* The invariant holds initially ...                                       *)
LEMMA InitIInv == Init => IInv
<1>1. Cardinality({}) = 0
  BY FS_EmptySet
<1>2. SUFFICES ASSUME Init PROVE IInv
  OBVIOUS
<1>3. TypeOK
  <2>1. 0 \in Positions /\ 0 \in 0 .. Size /\ 0 \in 0 .. MaxPresses
    BY FirmwareAssumption DEF Positions
  <2>2. Zero \in Numbers
    BY DEF Zero, Numbers
  <2>3. key \in Keys
    BY <1>2, <2>2 DEF Init, Keys
  <2> QED
    BY <1>2, <2>1, <2>3 DEF Init, TypeOK
<1> QED
  BY <1>1, <1>2, <1>3
     DEF Init, IInv, TypeOK, OneKey, DecryptsCopiedImage, AtMostOncePerPress,
         ShownNumberSelected, TimerStopsAtTotal, QuietUntilStarted,
         EdgesKeptUntilCleared

(* ... and every step keeps it.  Most actions leave most parts alone; what *)
(* they can disturb has a step of its own.                                 *)
LEMMA StepIInv == IInv /\ [Next]_vars => IInv'
<1> SUFFICES ASSUME IInv, [Next]_vars PROVE IInv'
  OBVIOUS
<1> USE FirmwareAssumption
        DEF IInv, TypeOK, OneKey, DecryptsCopiedImage, AtMostOncePerPress,
            ShownNumberSelected, TimerStopsAtTotal, QuietUntilStarted,
            EdgesKeptUntilCleared
<1>n. /\ Cardinality(btnEdges) \in Nat
      /\ Cardinality(edge_capture) \in Nat
      /\ Cardinality({}) = 0
  BY ButtonSets, FS_EmptySet
<1>1. CASE Interrupt
  <2>1. HighestPriority \in {"btn", "sw", "timer"}
    BY DEF HighestPriority
  <2>2. main \notin {"setup", "size", "register_btn"}
    BY <1>1 DEF Interrupt, Pending, Registered
  <2>3. HighestPriority = "timer" => timeout
    BY <1>1 DEF Interrupt, Pending, HighestPriority, Registered
  <2> QED
    BY <1>1, <1>n, <2>1, <2>2, <2>3
       DEF Interrupt, panel, timer1, program, keyEntry, decryption
<1>2. CASE Setup
  <2> USE DEF Setup, MainStep, panel, timer1, keyEntry, decryption
  <2>1. TypeOK'
    BY <1>2
  <2>2. AtMostOncePerPress'
    BY <1>2, <1>n
  <2> QED
    BY <1>2, <2>1, <2>2
<1>3. CASE DecryptWH
  <2>1. total' \in 0 .. Size
    BY <1>3 DEF DecryptWH
  <2> QED
    BY <1>3, <1>n, <2>1
       DEF DecryptWH, MainStep, panel, timer1, keyEntry, decryption
<1>4. CASE Register
  BY <1>4, <1>n
     DEF Register, MainStep, panel, timer1, keyEntry, decryption
<1>5. CASE BtnRead
  BY <1>5, <1>n
     DEF BtnRead, HandlerStep, panel, timer1, program, keyEntry, decryption
<1>6. CASE BtnClear
  <2>1. Cardinality(edge_capture) <= Cardinality(btnEdges)
    BY <1>6, ButtonSets, FS_Subset DEF BtnClear, HandlerStep
  <2> QED
    BY <1>6, <1>n, <2>1
       DEF BtnClear, HandlerStep, panel, timer1, program, keyEntry, decryption
<1>7. CASE BtnAct
  <2> USE DEF BtnAct, HandlerStep, panel, timer1, keyEntry, decryption
  <2>1. acted' + Cardinality(btnEdges) <= presses /\ acted' \in Nat
    BY <1>7, <1>n
  <2>2. CASE Up
    <3>1. key' \in Keys
      <4>1. CASE key' = [key EXCEPT ![keySw][current_7_seg] = (@ + 2) % 16]
        <5>1. key[keySw] \in Numbers /\ current_7_seg \in Positions
          BY DEF Keys
        <5>2. key[keySw][current_7_seg] \in 0 .. 15
          BY <5>1 DEF Numbers
        <5>3. (key[keySw][current_7_seg] + 2) % 16 \in 0 .. 15
          BY <5>2
        <5>4. [key[keySw] EXCEPT ![current_7_seg] = (@ + 2) % 16] \in Numbers
          BY <5>1, <5>3 DEF Numbers
        <5>5. key' = [key EXCEPT ![keySw] =
                        [key[keySw] EXCEPT ![current_7_seg] = (@ + 2) % 16]]
          BY <4>1
        <5> QED
          BY <5>4, <5>5 DEF Keys
      <4>2. CASE key' = key
        BY <4>2
      <4> QED
        BY <2>2, <4>1, <4>2 DEF Up, Ignore
    <3>2. TypeOK'
      BY <1>7, <2>1, <2>2, <3>1 DEF Up, Ignore
    <3> QED
      BY <1>7, <1>n, <2>1, <2>2, <3>2 DEF Up, Ignore
  <2>3. CASE Shift
    <3>1. current_7_seg' \in Positions
      BY <2>3 DEF Shift, Ignore, Positions
    <3> QED
      BY <1>7, <1>n, <2>1, <2>3, <3>1 DEF Shift, Ignore
  <2>4. CASE Step
    <3> USE DEF Step, CanStep, DecryptPx, Ignore
    <3>1. decrypt_px_count' \in Nat /\ usedKeys' \in SUBSET Keys
      BY <2>4
    <3>2. stepped' \in BOOLEAN /\ display' \in {"zero", "d", "n", "pixel"}
      BY <2>4
    <3>3. TypeOK'
      BY <1>7, <2>1, <2>4, <3>1, <3>2
    <3> QED
      BY <1>7, <1>n, <2>1, <2>4, <3>3
  <2>5. CASE Start
    BY <1>7, <1>n, <2>1, <2>5 DEF Start
  <2>6. CASE Ignore
    BY <1>7, <1>n, <2>1, <2>6 DEF Ignore
  <2> QED
    BY <1>7, <2>2, <2>3, <2>4, <2>5, <2>6
<1>8. CASE SwClear
  BY <1>8, <1>n
     DEF SwClear, HandlerStep, panel, timer1, program, keyEntry, decryption
<1>9. CASE SwShow
  BY <1>9, <1>n
     DEF SwShow, HandlerStep, panel, timer1, keyEntry, decryption
<1>10. CASE TimerBody
  <2>1. has_started
    BY <1>10 DEF TimerBody, HandlerStep
  <2>2. CASE CanDecrypt /\ DecryptPx
    BY <1>10, <1>n, <2>1, <2>2
       DEF TimerBody, HandlerStep, CanDecrypt, DecryptPx, panel, timer1, keyEntry
  <2>3. CASE UNCHANGED << decryption, display >>
    BY <1>10, <1>n, <2>1, <2>3
       DEF TimerBody, HandlerStep, panel, timer1, keyEntry, decryption
  <2> QED
    BY <1>10, <2>2, <2>3 DEF TimerBody
<1>11. CASE TimerClear
  <2> USE DEF TimerClear, HandlerStep, panel, program, keyEntry, decryption
  <2>1. TypeOK'
    BY <1>11
  <2>2. AtMostOncePerPress'
    BY <1>11, <1>n
  <2> QED
    BY <1>11, <2>1, <2>2
<1>12. CASE \E b \in Buttons : Press(b)
  <2> PICK b \in Buttons : Press(b)
    BY <1>12
  <2>1. btnEdges' \in SUBSET Buttons /\ Cardinality(btnEdges') \in Nat
    BY ButtonSets DEF Press
  <2>2. Cardinality(btnEdges') <= Cardinality(btnEdges) + 1
    BY PressAddsOne DEF Press
  <2> QED
    BY <1>n, <2>1, <2>2 DEF Press, nios, program, keyEntry, decryption
<1>13. CASE FlipKeySw
  <2> USE DEF FlipKeySw, nios, program, keyEntry, decryption
  <2>1. TypeOK'
    BY <1>13
  <2>2. AtMostOncePerPress'
    BY <1>13, <1>n
  <2> QED
    BY <1>13, <2>1, <2>2
<1>14. CASE FlipModeSw
  BY <1>14, <1>n DEF FlipModeSw, nios, program, keyEntry, decryption
<1>15. CASE TimerExpires
  BY <1>15, <1>n DEF TimerExpires, nios, program, panel, keyEntry, decryption
<1>16. CASE CopyDone
  BY <1>16, <1>n DEF CopyDone, nios, program, panel, keyEntry, decryption
<1>17. CASE UNCHANGED vars
  BY <1>17 DEF vars, program, panel, timer1, keyEntry, decryption
<1> QED
  BY <1>1, <1>2, <1>3, <1>4, <1>5, <1>6, <1>7, <1>8, <1>9, <1>10, <1>11, <1>12,
     <1>13, <1>14, <1>15, <1>16, <1>17
     DEF Next, Nios, Environment, Main, BtnIsr, SwIsr, TimerIsr

THEOREM FirmwareInvariance == Spec => []IInv
<1>1. Init => IInv
  BY InitIInv
<1>2. IInv /\ [Next]_vars => IInv'
  BY StepIInv
<1> QED
  BY <1>1, <1>2, PTL DEF Spec

(* The types of Firmware: no digit leaves 0 .. 15, and current_7_seg stays *)
(* a digit of the number.                                                  *)
THEOREM FirmwareTypeCorrect == Spec => []TypeOK
<1>1. IInv => TypeOK
  BY DEF IInv
<1> QED
  BY <1>1, FirmwareInvariance, PTL

(* The key cannot change once a pixel was decrypted with it.               *)
THEOREM KeyIsFixed == Spec => []OneKey
<1>1. IInv => OneKey
  BY DEF IInv
<1> QED
  BY <1>1, FirmwareInvariance, PTL

(* Nothing is decrypted before START and before the image is there.        *)
THEOREM OnlyCopiedImage == Spec => []DecryptsCopiedImage
<1>1. IInv => DecryptsCopiedImage
  BY DEF IInv
<1> QED
  BY <1>1, FirmwareInvariance, PTL

(* No press is acted upon twice.                                           *)
THEOREM PressesCountOnce == Spec => []AtMostOncePerPress
<1>1. IInv => AtMostOncePerPress
  BY DEF IInv
<1> QED
  BY <1>1, FirmwareInvariance, PTL

(* sw_isr loses no fall of the switch.                                     *)
THEOREM DisplayFollowsSwitch == Spec => []ShownNumberSelected
<1>1. IInv => ShownNumberSelected
  BY DEF IInv
<1> QED
  BY <1>1, FirmwareInvariance, PTL

(* The timer alone never passes the total.                                 *)
THEOREM TimerStops == Spec => []TimerStopsAtTotal
<1>1. IInv => TimerStopsAtTotal
  BY DEF IInv
<1> QED
  BY <1>1, FirmwareInvariance, PTL
(* No handler runs before decrypt_wh is done, and before START the timer   *)
(* does not interrupt (main.c:44-52 and 231-250 of the Nios).              *)
THEOREM QuietBeforeStart == Spec => []QuietUntilStarted
<1>1. IInv => QuietUntilStarted
  BY DEF IInv
<1> QED
  BY <1>1, FirmwareInvariance, PTL
=============================================================================
