---------------------------- MODULE FilterPixel ----------------------------
(***************************************************************************)
(* The nine-point stencil of filter.c (filtro/src/filter.c; the copies in  *)
(* hard_core_cpu/src and soft_core_cpu/software/Proyecto1 differ only in   *)
(* the width of an input pixel).  A pixel is named by its index in the     *)
(* row-major image, as in the code; what a window holds is the indices     *)
(* filter_pixel reads, in the order of its static array pixels[9].         *)
(***************************************************************************)
EXTENDS Integers

NumPixels(w, h) == w * h

PixelIndices(w, h) == 0 .. NumPixels(w, h) - 1

(* y and x of a pixel, as filter_pixel computes them.                      *)
RowOf(idx, w) == idx \div w

ColumnOf(idx, w) == idx - RowOf(idx, w) * w

(* Mutant of FilterWindow: the row wraps around at the left border.        *)
FilterWindowWraps(idx, w, h) ==
  LET y        == RowOf(idx, w)
      x        == ColumnOf(idx, w)
      above    == IF y = 0     THEN idx ELSE idx - w
      below    == IF y = h - 1 THEN idx ELSE idx + w
      Left(c)  == IF x = 0     THEN c + w - 1 ELSE c - 1
      Right(c) == IF x = w - 1 THEN c   ELSE c + 1
  IN  << Left(above), above, Right(above),
         Left(idx),   idx,   Right(idx),
         Left(below), below, Right(below) >>

(* The indices filter_pixel loads into pixels[0..8] (here 1..9): the pixel *)
(* of the row above, the own row and the row below with its two            *)
(* neighbours, the pixel itself in the place of those beyond the border.   *)
FilterWindow(idx, w, h) ==
  LET y        == RowOf(idx, w)
      x        == ColumnOf(idx, w)
      above    == IF y = 0     THEN idx ELSE idx - w
      below    == IF y = h - 1 THEN idx ELSE idx + w
      Left(c)  == IF x = 0     THEN c   ELSE c - 1
      Right(c) == IF x = w - 1 THEN c   ELSE c + 1
  IN  << Left(above), above, Right(above),
         Left(idx),   idx,   Right(idx),
         Left(below), below, Right(below) >>

(* Mutant of Weights: the centre does not balance the others.              *)
WeightsUnbalanced == << 1, 2, 1, 2, -8, 2, 1, 2, 1 >>

(* The kernel, in quarters.                                                *)
Weights == << 1, 2, 1, 2, -12, 2, 1, 2, 1 >>

(* round() of a number of quarters: half a unit goes away from zero.       *)
Rounded(q) == IF q < 0 THEN -((2 - q) \div 4) ELSE (q + 2) \div 4

Bytes == 0 .. 255

(* What filter_pixel may return for a window and the values of its pixels: *)
(* the sum in single precision is exact, and the conversion of a number    *)
(* that is no byte is undefined.                                           *)
FilterValues(window, image) ==
  LET sum[k \in 0 .. 9] ==
        IF k = 0 THEN 0 ELSE sum[k - 1] + image[window[k]] * Weights[k]
  IN  IF Rounded(sum[9]) \in Bytes THEN { Rounded(sum[9]) } ELSE Bytes

(* The pixels the value of pixel idx depends on.                           *)
Neighbourhood(idx, w, h) ==
  { FilterWindow(idx, w, h)[k] : k \in 1 .. 9 }

============================================================================
