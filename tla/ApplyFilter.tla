---------------------------- MODULE ApplyFilter -----------------------------
(***************************************************************************)
(* One call of apply_filter (filter.c): filter_pixel for num_pixels pixels *)
(* from start_idx on.  The value of a pixel is represented by the indices  *)
(* it was computed from.                                                   *)
(***************************************************************************)
EXTENDS FilterPixel

CONSTANTS
  MaxW, MaxH,    \* bounds of the image sizes
  Coefficients   \* bound: the coefficients of the images of IsLaplaceOperator

ASSUME BoundsAssumption == MaxW \in Nat \ {0} /\ MaxH \in Nat \ {0}
ASSUME CoefficientAssumption == Coefficients \subseteq Int

Untouched == << >>

VARIABLES image_w, image_h, start_idx, num_pixels, i, out_buf

callArgs == << image_w, image_h, start_idx, num_pixels >>
callVars == << callArgs, i, out_buf >>

(* The callers pass a batch inside the image (BatchInsideHalf in Filtro).  *)
CallInit ==
  /\ image_w \in 1 .. MaxW
  /\ image_h \in 1 .. MaxH
  /\ start_idx \in 0 .. NumPixels(image_w, image_h)
  /\ num_pixels \in 0 .. (NumPixels(image_w, image_h) - start_idx)
  /\ i = start_idx
  /\ out_buf = [p \in PixelIndices(image_w, image_h) |-> Untouched]

FilterOne ==
  /\ i < start_idx + num_pixels
  /\ out_buf' = [out_buf EXCEPT ![i] = FilterWindow(i, image_w, image_h)]
  /\ i' = i + 1
  /\ UNCHANGED callArgs

CallNext == FilterOne

CallSpec == CallInit /\ [][CallNext]_callVars
----------------------------------------------------------------------------
Clamp(a, lo, hi) == IF a < lo THEN lo ELSE IF a > hi THEN hi ELSE a

(* The nine pixels around p in an image whose border is extended outwards: *)
(* the coordinates of the neighbours, clamped to the image.                *)
ExtendedWindow(p, w, h) ==
  LET At(dx, dy) == Clamp((p \div w) + dy, 0, h - 1) * w
                    + Clamp((p % w) + dx, 0, w - 1)
  IN  << At(-1, -1), At(0, -1), At(1, -1),
         At(-1,  0), At(0,  0), At(1,  0),
         At(-1,  1), At(0,  1), At(1,  1) >>

CallTypeOK ==
  /\ image_w \in 1 .. MaxW
  /\ image_h \in 1 .. MaxH
  /\ start_idx \in Nat
  /\ num_pixels \in Nat
  /\ i \in start_idx .. (start_idx + num_pixels)
  /\ start_idx + num_pixels <= NumPixels(image_w, image_h)
  /\ DOMAIN out_buf = PixelIndices(image_w, image_h)

(* README.md:16 of filtro: at the borders the border is extended.  Every   *)
(* value stored comes from the nine pixels around its own, the coordinates *)
(* clamped to the image; the branches of filter_pixel say the same.        *)
BorderExtended ==
  \A p \in PixelIndices(image_w, image_h) : out_buf[p] # Untouched =>
    out_buf[p] = ExtendedWindow(p, image_w, image_h)

(* Images that are polynomials of the coordinates of degree up to two: the *)
(* coefficients of 1, x, y, x^2, y^2 and xy; and their Laplacian.          *)
Quadratics == [1 .. 6 -> Coefficients]

ImageOf(q, w, h) ==
  [p \in PixelIndices(w, h) |->
     LET x == p % w  y == p \div w
     IN  q[1] + q[2] * x + q[3] * y + q[4] * x * x + q[5] * y * y + q[6] * x * y]

Laplacian(q) == 2 * q[4] + 2 * q[5]

Inside(p, w, h) == p % w \in 1 .. w - 2 /\ p \div w \in 1 .. h - 2

(* README.md:15 of filtro: the filter is the nine-point Laplace operator.  *)
(* Away from the border it gives every quadratic image whose Laplacian is  *)
(* a byte that Laplacian, for which the order of the nine loads and that   *)
(* of the weights must agree, and a flat image becomes 0 everywhere, the   *)
(* border included.                                                        *)
IsLaplaceOperator ==
  \A p \in PixelIndices(image_w, image_h) : out_buf[p] # Untouched =>
    /\ Inside(p, image_w, image_h) =>
         \A q \in Quadratics : Laplacian(q) \in Bytes =>
           FilterValues(out_buf[p], ImageOf(q, image_w, image_h)) = { Laplacian(q) }
    /\ \A v \in Coefficients :
         FilterValues(out_buf[p], [k \in PixelIndices(image_w, image_h) |-> v]) = {0}

(* filter_pixel never reads outside the image, however thin the image is.  *)
ReadsInsideImage ==
  i \in PixelIndices(image_w, image_h) =>
    Neighbourhood(i, image_w, image_h) \subseteq PixelIndices(image_w, image_h)
============================================================================
