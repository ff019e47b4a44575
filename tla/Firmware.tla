------------------------------ MODULE Firmware ------------------------------
(***************************************************************************)
(* The program of the Nios (soft_core_cpu/software/Proyecto1/main.c) after *)
(* the handshake: main prepares the interrupts and idles; the handlers of  *)
(* the buttons, of the switches and of timer 1 let the user enter the key  *)
(* (d, n), start the decryption and decrypt pixel by pixel, by hand or     *)
(* with the timer.                                                         *)
(*                                                                         *)
(* Handlers do not nest: the HAL runs the pending one with the lowest      *)
(* number, and main only when none is pending.  The environment (buttons,  *)
(* switches, the timer, the HPS that sets image_copy_done) moves between   *)
(* any two steps of the processor.  A handler is one step for each         *)
(* register it shares with the environment where the order matters.        *)
(*                                                                         *)
(* A pixel is abstracted to the key it was decrypted with.                 *)
(***************************************************************************)
EXTENDS Integers, FiniteSets

CONSTANTS
  LAST_7SEG,   \* the last digit of a key
  Size,        \* the pixels of the image
  MaxPresses,  \* bound: presses of the buttons
  MaxCount     \* bound: the timer stops once so many pixels are decrypted

ASSUME FirmwareAssumption ==
  /\ LAST_7SEG \in Nat
  /\ Size \in Nat \ {0}
  /\ MaxPresses \in Nat
  /\ MaxCount \in Nat

Buttons == {"start", "step", "shift", "up"}

Positions == 0 .. LAST_7SEG
Numbers == [Positions -> 0 .. 15]
Keys == [d : Numbers, n : Numbers]
Zero == [p \in Positions |-> 0]

VARIABLES
  main,              \* where main is
  isr,               \* where the running handler is, or "none"
  edge_capture,      \* what the handler of the buttons has read
  btnEdges,          \* edge capture register of PIO_BTN
  swEdge,            \* edge capture register of PIO_SW, bit 0
  keySw, modeSw,     \* the switches: selected number, mode
  timerOn, timeout,  \* timer 1 counts with its interrupt enabled; status TO
  key,               \* d and n, by digit
  current_7_seg,     \* the digit UP changes
  has_started,
  total,             \* width * height, as decrypt_wh leaves them
  decrypt_px_count,
  display,           \* what PIO_7SEG shows
  image_copy_done,   \* set by the HPS in shared_data
  presses, acted,    \* history: presses, and those a handler has acted upon
  stepped,           \* history: a pixel was decrypted with STEP
  usedKeys           \* history: the keys pixels were decrypted with

panel == << keySw, modeSw, presses >>
timer1 == << timerOn, timeout >>
keyEntry == << key, current_7_seg >>
decryption == << decrypt_px_count, usedKeys >>
program == << keyEntry, has_started, decryption, display, acted, stepped >>
vars == << main, isr, edge_capture, btnEdges, swEdge, panel, timer1, program,
           total, image_copy_done >>

Init ==
  /\ main = "setup"
  /\ isr = "none"
  /\ edge_capture = {}
  /\ btnEdges = {}
  /\ swEdge = FALSE
  /\ keySw \in {"d", "n"}
  /\ modeSw \in {"MANUAL_MODE", "AUTOMATIC_MODE"}
  /\ timerOn = FALSE
  /\ timeout = FALSE
  /\ key = [d |-> Zero, n |-> Zero]
  /\ current_7_seg = 0
  /\ has_started = FALSE
  /\ total = 0
  /\ decrypt_px_count = 0
  /\ display = "zero"
  /\ image_copy_done = FALSE
  /\ presses = 0
  /\ acted = 0
  /\ stepped = FALSE
  /\ usedKeys = {}
----------------------------------------------------------------------------
(* The handlers main has registered.                                       *)
Registered ==
  CASE main \in {"setup", "size", "register_btn"} -> {}
    [] main = "register_sw"                       -> {"btn"}
    [] main = "register_timer"                    -> {"btn", "sw"}
    [] OTHER                                      -> {"btn", "sw", "timer"}

(* The interrupts that are asserted and enabled.                            *)
Pending ==
  {irq \in Registered :
     \/ irq = "btn" /\ btnEdges # {}
     \/ irq = "sw" /\ swEdge
     \/ irq = "timer" /\ timeout}

(* Mutant of HighestPriority: the timer comes first.                       *)
HighestPriorityTimer ==
  CASE "timer" \in Pending -> "timer"
    [] "btn" \in Pending   -> "btn"
    [] OTHER               -> "sw"

(* PIO_BTN_IRQ is 2, PIO_SW_IRQ is 3, TIMER1_100US_IRQ is 4.               *)
HighestPriority ==
  CASE "btn" \in Pending -> "btn"
    [] "sw" \in Pending  -> "sw"
    [] OTHER             -> "timer"

(* alt_irq_handler calls the handler of the pending interrupt.             *)
Interrupt ==
  /\ isr = "none"
  /\ Pending # {}
  /\ isr' = HighestPriority
  /\ UNCHANGED << main, edge_capture, btnEdges, swEdge, panel, timer1, program,
                  total, image_copy_done >>

MainStep(from, to) ==
  /\ isr = "none"
  /\ Pending = {}
  /\ main = from
  /\ main' = to
  /\ UNCHANGED << isr, edge_capture, panel, timer1, keyEntry, has_started,
                  decryption, image_copy_done, acted, stepped >>

(* The display is set to 0, the interrupts are unmasked and what the       *)
(* buttons did before is dropped.                                          *)
Setup ==
  /\ MainStep("setup", "size")
  /\ display' = "zero"
  /\ btnEdges' = {}
  /\ swEdge' = FALSE
  /\ UNCHANGED total

(* mod_exp returns 1 for the exponent 0, whatever the other arguments are, *)
(* and what it returns for another key is left open.                       *)
DecryptWH ==
  /\ MainStep("size", "register_btn")
  /\ total' \in IF key.d = Zero THEN {1} ELSE 0 .. Size
  /\ UNCHANGED << btnEdges, swEdge, display >>

Register ==
  /\ \/ MainStep("register_btn", "register_sw")
     \/ MainStep("register_sw", "register_timer")
     \/ MainStep("register_timer", "idle")
  /\ UNCHANGED << btnEdges, swEdge, total, display >>
----------------------------------------------------------------------------
HandlerStep(from, to) ==
  /\ isr = from
  /\ isr' = to
  /\ UNCHANGED << main, panel, total, image_copy_done >>

(* btn_isr reads the edges, clears them, and acts on what it has read.     *)
BtnRead ==
  /\ HandlerStep("btn", "btn_clear")
  /\ edge_capture' = btnEdges
  /\ UNCHANGED << btnEdges, swEdge, timer1, program >>

(* Mutant of BtnClear: the edge register is not written.                   *)
BtnClearNothing ==
  /\ HandlerStep("btn_clear", "btn_act")
  /\ UNCHANGED << edge_capture, btnEdges, swEdge, timer1, program >>

(* A write of any value clears all the edges, those of presses that came   *)
(* after the read too.                                                     *)
BtnClear ==
  /\ HandlerStep("btn_clear", "btn_act")
  /\ btnEdges' = {}
  /\ UNCHANGED << edge_capture, swEdge, timer1, program >>

DecryptPx ==
  /\ usedKeys' = usedKeys \union {key}
  /\ display' = "pixel"
  /\ decrypt_px_count' = decrypt_px_count + 1

Ignore ==
  UNCHANGED << keyEntry, has_started, timer1, decryption, display, stepped >>

(* Mutant of Up: the key can be changed after START.                       *)
UpAlways ==
  /\ key' = [key EXCEPT ![keySw][current_7_seg] = (@ + 2) % 16]
  /\ display' = keySw
  /\ UNCHANGED << current_7_seg, has_started, timer1, decryption, stepped >>

(* increase_digit adds 2 to the digit of the selected number, modulo 16,   *)
(* and shows the number.                                                   *)
Up ==
  \/ /\ ~ has_started
     /\ key' = [key EXCEPT ![keySw][current_7_seg] = (@ + 2) % 16]
     /\ display' = keySw
     /\ UNCHANGED << current_7_seg, has_started, timer1, decryption, stepped >>
  \/ has_started /\ Ignore

Shift ==
  \/ /\ ~ has_started
     /\ current_7_seg' = IF current_7_seg = LAST_7SEG THEN 0 ELSE current_7_seg + 1
     /\ UNCHANGED << key, has_started, timer1, decryption, display, stepped >>
  \/ has_started /\ Ignore

CanStep == has_started /\ image_copy_done /\ modeSw = "MANUAL_MODE"

Step ==
  \/ /\ CanStep
     /\ DecryptPx
     /\ stepped' = TRUE
     /\ UNCHANGED << keyEntry, has_started, timer1 >>
  \/ ~ CanStep /\ Ignore

(* Mutant of Start: the START bit of the timer is left out.                *)
StartNoTimer ==
  /\ has_started' = TRUE
  /\ display' = "zero"
  /\ UNCHANGED << timerOn, keyEntry, timeout, decryption, stepped >>

(* start() may be pressed again: the timer is started again.               *)
Start ==
  /\ has_started' = TRUE
  /\ display' = "zero"
  /\ timerOn' = TRUE
  /\ UNCHANGED << keyEntry, timeout, decryption, stepped >>

(* The switch on the edges: two buttons at once are nobody's case.         *)
BtnAct ==
  /\ HandlerStep("btn_act", "none")
  /\ \/ edge_capture = {"up"} /\ Up
     \/ edge_capture = {"shift"} /\ Shift
     \/ edge_capture = {"step"} /\ Step
     \/ edge_capture = {"start"} /\ Start
     \/ Cardinality(edge_capture) # 1 /\ Ignore
  /\ acted' = IF Cardinality(edge_capture) = 1 THEN acted + 1 ELSE acted
  /\ edge_capture' = {}
  /\ UNCHANGED << btnEdges, swEdge >>
----------------------------------------------------------------------------
(* sw_isr clears the edge, then reads the switch and shows the number.     *)
SwClear ==
  /\ HandlerStep("sw", "sw_show")
  /\ swEdge' = FALSE
  /\ UNCHANGED << edge_capture, btnEdges, timer1, program >>

SwShow ==
  /\ HandlerStep("sw_show", "none")
  /\ display' = keySw
  /\ UNCHANGED << edge_capture, btnEdges, swEdge, timer1, keyEntry, has_started,
                  decryption, acted, stepped >>

(* Mutant of CanDecrypt: one pixel too many.                               *)
CanDecryptOneMore ==
  decrypt_px_count <= total /\ image_copy_done /\ modeSw = "AUTOMATIC_MODE"

(* timer1_100us_isr decrypts a pixel when there is one left, the image was *)
(* copied and the mode is automatic, and then clears the interrupt.        *)
CanDecrypt ==
  decrypt_px_count # total /\ image_copy_done /\ modeSw = "AUTOMATIC_MODE"

TimerBody ==
  /\ HandlerStep("timer", "timer_clear")
  /\ \/ CanDecrypt /\ DecryptPx
     \/ ~ CanDecrypt /\ UNCHANGED << decryption, display >>
  /\ UNCHANGED << edge_capture, btnEdges, swEdge, timer1, keyEntry, has_started,
                  acted, stepped >>

TimerClear ==
  /\ HandlerStep("timer_clear", "none")
  /\ timeout' = FALSE
  /\ UNCHANGED << edge_capture, btnEdges, swEdge, timerOn, program >>
----------------------------------------------------------------------------
nios == << main, isr, edge_capture, program, total, timerOn >>

Press(b) ==
  /\ presses < MaxPresses
  /\ presses' = presses + 1
  /\ btnEdges' = btnEdges \union {b}
  /\ UNCHANGED << nios, swEdge, keySw, modeSw, timeout, image_copy_done >>

(* PIO_SW captures falling edges only, and bit 1 is masked.                *)
FlipKeySw ==
  /\ keySw' = IF keySw = "d" THEN "n" ELSE "d"
  /\ swEdge' = (swEdge \/ keySw = "d")
  /\ UNCHANGED << nios, btnEdges, modeSw, presses, timeout, image_copy_done >>

FlipModeSw ==
  /\ modeSw' = IF modeSw = "MANUAL_MODE" THEN "AUTOMATIC_MODE" ELSE "MANUAL_MODE"
  /\ UNCHANGED << nios, btnEdges, swEdge, keySw, presses, timeout, image_copy_done >>

TimerExpires ==
  /\ timerOn
  /\ ~ timeout
  /\ decrypt_px_count < MaxCount
  /\ timeout' = TRUE
  /\ UNCHANGED << nios, btnEdges, swEdge, panel, image_copy_done >>

(* The HPS program sets image_copy_done when the image is in shared_data.  *)
(* Its statement (line 124 of its main) comes after the return of line 121 *)
(* and is not reached, which Boot shows; this module is about the Nios and *)
(* lets it happen, so that the handlers that wait for the flag run.        *)
CopyDone ==
  /\ ~ image_copy_done
  /\ image_copy_done' = TRUE
  /\ UNCHANGED << nios, btnEdges, swEdge, panel, timeout >>
----------------------------------------------------------------------------
Main == Setup \/ DecryptWH \/ Register

BtnIsr == BtnRead \/ BtnClear \/ BtnAct

(* Mutant of SwIsr: the switch is read first, and the edge cleared last.   *)
SwIsrReadsFirst ==
  \/ /\ HandlerStep("sw", "sw_show")
     /\ display' = keySw
     /\ UNCHANGED << edge_capture, btnEdges, swEdge, timer1, keyEntry, has_started,
                     decryption, acted, stepped >>
  \/ /\ HandlerStep("sw_show", "none")
     /\ swEdge' = FALSE
     /\ UNCHANGED << edge_capture, btnEdges, timer1, program >>

SwIsr == SwClear \/ SwShow

TimerIsr == TimerBody \/ TimerClear

Nios == Interrupt \/ Main \/ BtnIsr \/ SwIsr \/ TimerIsr

Environment ==
  (\E b \in Buttons : Press(b)) \/ FlipKeySw \/ FlipModeSw \/ TimerExpires \/ CopyDone

Next == Nios \/ Environment

Spec == Init /\ [][Next]_vars

(* The processor runs and the timer counts; neither the user nor the HPS   *)
(* has to do anything.                                                     *)
FairSpec == Spec /\ WF_vars(Nios) /\ WF_vars(TimerExpires)
----------------------------------------------------------------------------
TypeOK ==
  /\ main \in {"setup", "size", "register_btn", "register_sw", "register_timer", "idle"}
  /\ isr \in {"none", "btn", "btn_clear", "btn_act", "sw", "sw_show", "timer",
              "timer_clear"}
  /\ edge_capture \in SUBSET Buttons
  /\ btnEdges \in SUBSET Buttons
  /\ swEdge \in BOOLEAN
  /\ keySw \in {"d", "n"}
  /\ modeSw \in {"MANUAL_MODE", "AUTOMATIC_MODE"}
  /\ timerOn \in BOOLEAN
  /\ timeout \in BOOLEAN
  /\ key \in Keys
  /\ current_7_seg \in Positions
  /\ has_started \in BOOLEAN
  /\ total \in 0 .. Size
  /\ decrypt_px_count \in Nat
  /\ display \in {"zero", "d", "n", "pixel"}
  /\ image_copy_done \in BOOLEAN
  /\ presses \in 0 .. MaxPresses
  /\ acted \in Nat
  /\ stepped \in BOOLEAN
  /\ usedKeys \in SUBSET Keys

(* All the pixels are decrypted with one key, the one that is still there: *)
(* no press that was pending when the decryption started changes a digit   *)
(* later (the has_started tests of btn_isr).                               *)
OneKey == usedKeys \subseteq {key}

(* Neither the timer nor STEP decrypts before the user has pressed START   *)
(* and the image is in shared_data (isImageCopyDone in both handlers).     *)
DecryptsCopiedImage == decrypt_px_count > 0 => has_started /\ image_copy_done

(* A press is acted upon once at most: the presses acted upon, those read  *)
(* and those still in the edge register never outnumber the presses (what  *)
(* btn_isr reads it clears before it acts).                                *)
AtMostOncePerPress ==
  /\ isr # "btn_act" => acted + Cardinality(btnEdges) <= presses
  /\ isr = "btn_act" =>
       acted + Cardinality(btnEdges) + Cardinality(edge_capture) <= presses

(* A number is not left on the display when the switch has fallen to the   *)
(* other one: the edge is captured or sw_isr is about to read the switch,  *)
(* because it clears the edge before it reads.                             *)
ShownNumberSelected ==
  display = "d" /\ keySw = "n" => swEdge \/ isr = "sw_show"

(* Unless STEP was used, no more pixels are decrypted than decrypt_wh has  *)
(* counted (the != of timer1_100us_isr).                                   *)
TimerStopsAtTotal == ~ stepped => decrypt_px_count <= total

(* No handler runs until decrypt_wh is done, and before START the timer    *)
(* does not interrupt and nothing is decrypted (main registers the         *)
(* handlers last, and only start() lets the timer interrupt).              *)
QuietUntilStarted ==
  /\ main \in {"setup", "size", "register_btn"} => isr = "none" /\ ~ has_started
  /\ ~ has_started => ~ timerOn /\ decrypt_px_count = 0 /\ usedKeys = {}
  /\ timeout \/ isr = "timer" => timerOn

(* The inductive invariant.                                                *)
EdgesKeptUntilCleared == isr = "btn_clear" => edge_capture \subseteq btnEdges

IInv ==
  /\ TypeOK
  /\ OneKey
  /\ DecryptsCopiedImage
  /\ AtMostOncePerPress
  /\ ShownNumberSelected
  /\ TimerStopsAtTotal
  /\ QuietUntilStarted
  /\ EdgesKeptUntilCleared

(* A timer whose handler takes longer than its period cannot keep a press  *)
(* from being read: the buttons have the lower interrupt number.           *)
PressesServed ==
  (main = "idle" /\ btnEdges # {}) ~> btnEdges = {}

(* The switches come to rest in automatic mode, the user has started and   *)
(* the image is in shared_data.                                            *)
AutomaticModeStays ==
  /\ <>[](modeSw = "AUTOMATIC_MODE" /\ has_started /\ image_copy_done)
  /\ \E number \in {"d", "n"} : <>[](keySw = number)

(* In automatic mode, once started, the timer decrypts up to the total and *)
(* nothing takes it back (start and timer1_100us_isr).                     *)
AutomaticDecrypts ==
  AutomaticModeStays => <>[](decrypt_px_count >= total)
=============================================================================
