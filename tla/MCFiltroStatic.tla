--------------------------- MODULE MCFiltroStatic ---------------------------
(* Model checking of FiltroStatic on one small image.                      *)
EXTENDS FiltroStatic

(* Every split of the image between the processors.                        *)
EverySplit == 0 .. W * H
=============================================================================
