------------------------------ MODULE MCFiltro ------------------------------
(* Model checking of Filtro on one small image.                            *)
EXTENDS Filtro

(* Every split of the image between the processors.                        *)
EverySplit == 0 .. W * H
============================================================================
