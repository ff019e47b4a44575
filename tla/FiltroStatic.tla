---------------------------- MODULE FiltroStatic ----------------------------
(***************************************************************************)
(* verificar_filtro again, with what filter_pixel does to get the value it *)
(* stores: it loads the nine entries of the window into pixels[9], which   *)
(* is a static array and therefore one array for both timer threads, and   *)
(* then sums the nine entries up.  A step is one load or one term of the   *)
(* sum; apply_filter stores the value with the step that follows the sum.  *)
(***************************************************************************)
EXTENDS Filtro

VARIABLES
  pixels,   \* static float pixels[9]: the image index each entry came from
  entry,    \* per worker: loads, then terms, done for the current pixel
  result,   \* per worker: the entries its sum has taken so far
  taps      \* per pixel: the entries its stored value was computed from

staticVars == << pixels, entry, result, taps >>

Entries == 1 .. 9
Empty == [k \in Entries |-> -1]

StaticInit ==
  /\ Init
  /\ pixels = Empty
  /\ entry = [t \in Workers |-> 0]
  /\ result = [t \in Workers |-> Empty]
  /\ taps = [p \in Pixels |-> Empty]

(* Worker t is inside filter_pixel, called for pixel i[t].                 *)
InFilterPixel(t) ==
  /\ pc[t] = "filter"
  /\ i[t] < StartIdx(t) + num[t]

(* Mutant of LoadEntry: a border branch without its assignment.            *)
LoadEntryNoBorder(t) ==
  LET k == entry[t] + 1
      p == FilterWindow(i[t], W, H)[k]
  IN
  /\ InFilterPixel(t)
  /\ k \in Entries
  /\ pixels' = [pixels EXCEPT ![k] = IF p = i[t] /\ k # 5 THEN @ ELSE p]
  /\ entry' = [entry EXCEPT ![t] = @ + 1]
  /\ UNCHANGED << vars, result, taps >>

(* The next of the nine assignments to pixels[].                           *)
LoadEntry(t) ==
  LET k == entry[t] + 1 IN
  /\ InFilterPixel(t)
  /\ k \in Entries
  /\ pixels' = [pixels EXCEPT ![k] = FilterWindow(i[t], W, H)[k]]
  /\ entry' = [entry EXCEPT ![t] = @ + 1]
  /\ UNCHANGED << vars, result, taps >>

(* Mutant of AddEntry: pixels[] and filter[] run in opposite directions.   *)
AddEntryFlipped(t) ==
  LET k == entry[t] - 8 IN
  /\ InFilterPixel(t)
  /\ k \in Entries
  /\ result' = [result EXCEPT ![t][k] = pixels[10 - k]]
  /\ entry' = [entry EXCEPT ![t] = @ + 1]
  /\ UNCHANGED << vars, pixels, taps >>

(* The next turn of the loop over pixels[] and filter[].                   *)
AddEntry(t) ==
  LET k == entry[t] - 8 IN
  /\ InFilterPixel(t)
  /\ k \in Entries
  /\ result' = [result EXCEPT ![t][k] = pixels[k]]
  /\ entry' = [entry EXCEPT ![t] = @ + 1]
  /\ UNCHANGED << vars, pixels, taps >>

(* filter_pixel returns and apply_filter stores its value.                 *)
StorePixel(t) ==
  /\ entry[t] = 18
  /\ FilterNextPixel(t)
  /\ taps' = [taps EXCEPT ![i[t]] = result[t]]
  /\ entry' = [entry EXCEPT ![t] = 0]
  /\ result' = [result EXCEPT ![t] = Empty]
  /\ UNCHANGED pixels

StaticNext ==
  \/ /\ MainStep \/ NiosControl \/ CortexControl \/ Terminated
     /\ UNCHANGED staticVars
  \/ \E t \in Workers : LoadEntry(t) \/ AddEntry(t) \/ StorePixel(t)

StaticSpec == StaticInit /\ [][StaticNext]_<<vars, staticVars>>
----------------------------------------------------------------------------
(* filtro/README.md:15: the filter is a convolution with the kernel of the *)
(* nine-point stencil, so a stored value comes from the window of its own  *)
(* pixel and of no other.                                                  *)
OwnNeighbourhood ==
  \A p \in Pixels : out[p] # Unfiltered => taps[p] = FilterWindow(p, W, H)

(* The race needs pixels on both sides of the split: when one processor    *)
(* has the whole image, the thread of the other, if main starts it at all, *)
(* never enters filter_pixel, and the values stored are right.             *)
OneProcessorExact ==
  filter_hps_start \in {0, W * H} => OwnNeighbourhood

(* Entry k of the window of pixel p, or of a pixel of the other half.      *)
TornEntry(p, k, value) ==
  \/ value = FilterWindow(p, W, H)[k]
  \/ \E q \in Pixels :
       /\ (q < filter_hps_start) # (p < filter_hps_start)
       /\ value = FilterWindow(q, W, H)[k]

(* What the race can do is bounded: an entry may come from the window of   *)
(* a pixel of the other half, but then it is the entry of the same         *)
(* position, and no sum is taken over entries that were never loaded.      *)
TornAtSamePosition ==
  \A p \in Pixels : out[p] # Unfiltered =>
    \A k \in Entries : TornEntry(p, k, taps[p][k])
----------------------------------------------------------------------------
(* The inductive invariant, with that of Filtro.                           *)
StaticTypeOK ==
  /\ pixels \in [Entries -> Int]
  /\ entry \in [Workers -> 0 .. 18]
  /\ result \in [Workers -> [Entries -> Int]]
  /\ taps \in [Pixels -> [Entries -> Int]]

(* A thread in the middle of filter_pixel stays there; one that enters it  *)
(* begins with the first load.                                             *)
StartsWithFirstLoad ==
  \A t \in Workers :
    entry[t] # 0 => InFilterPixel(t) \/ pc[t] \in {"exited", "killed"}

(* What a thread has loaded is there, or the other thread has loaded the   *)
(* same entry since.                                                       *)
LoadedEntries ==
  \A t \in Workers : InFilterPixel(t) =>
    \A k \in Entries : k <= entry[t] => TornEntry(i[t], k, pixels[k])

SummedEntries ==
  \A t \in Workers : InFilterPixel(t) =>
    \A k \in Entries : k + 9 <= entry[t] => TornEntry(i[t], k, result[t][k])

SInv ==
  /\ IInv
  /\ StaticTypeOK
  /\ StartsWithFirstLoad
  /\ LoadedEntries
  /\ SummedEntries
  /\ TornAtSamePosition
============================================================================
