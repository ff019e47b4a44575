-------------------------------- MODULE RwDelay --------------------------------
(* delay_for_n_mem_clocks of sequencer.c: how rw_mgr_mem_initialize and       *)
(* rw_mgr_mem_handoff wait between two commands to the memory (4, 250 or 512  *)
(* clocks).  A wait is counted out by two counters of a byte in the           *)
(* read-write manager (external: a counter of n makes n + 1 passes) and, for  *)
(* the longest waits, a loop around them over a counter of two bytes.         *)
EXTENDS Integers

(* What alt_u8, alt_u16 and alt_u32 hold.                                     *)
Alt8 == 256
Alt16 == Alt8 * Alt8
Alt32 == Alt16 * Alt16

(* Clocks of the interface, AFI_RATE_RATIO clocks of the memory each, rounded *)
(* up.                                                                        *)
AfiClocks(clocks, ratio) == (clocks + ratio - 1) \div ratio

(* inner and outer, as alt_u8 keeps them, and c_loop, as alt_u16 does.        *)
Counters(afi) ==
  LET inner == IF afi = 0 THEN 0 ELSE IF afi <= Alt8 THEN afi - 1 ELSE Alt8 - 1
      outer == IF afi <= Alt8 THEN 0
               ELSE IF afi <= Alt16 THEN (afi - 1) \div Alt8 ELSE Alt8 - 1
      loops == IF afi <= Alt16 THEN 0 ELSE (afi - 1) \div Alt16
  IN  [inner |-> inner % Alt8, outer |-> outer % Alt8, loops |-> loops % Alt16]

(* Passes of the idle loops before the call returns.                          *)
Idle(c) == (c.inner + 1) * (c.outer + 1) * (c.loops + 1)
================================================================================
