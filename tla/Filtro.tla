------------------------------- MODULE Filtro -------------------------------
(***************************************************************************)
(* verificar_filtro (filtro/): the program that emulates the two           *)
(* processors of the system with threads over one shared memory.           *)
(*                                                                         *)
(*   "main"    main(): starts the two timers, decrypts (main_loop_soft_    *)
(*             core), busy-waits for both filters, saves the image.        *)
(*   "nios"    timer thread calling timer_isr_soft_core: filters the       *)
(*             pixels below filter_hps_start.                              *)
(*   "cortex"  timer thread calling proceso_periodico_hard_core: filters   *)
(*             the pixels from filter_hps_start on.                        *)
(*                                                                         *)
(* The threads share struct shared_header and the two image sectors and    *)
(* use no lock.  A step ends at each access to a field another thread may  *)
(* write, so the interleavings of the steps are those of the accesses.     *)
(* apply_filter stores one pixel per step; which values the stencil read   *)
(* is the subject of module FiltroStatic.                                  *)
(***************************************************************************)
EXTENDS FilterPixel

CONSTANTS
  W, H,        \* image_w and image_h of the loaded image
  HpsStarts    \* the values load_data can compute for filter_hps_start

(* FreeImage loads images with at least one pixel.                         *)
ASSUME ImageAssumption == W \in Nat \ {0} /\ H \in Nat \ {0}

(* width * height * percent_qsys with percent_qsys in [0, 1] (parse_opt    *)
(* refuses any other), truncated to an int.                                *)
ASSUME SplitAssumption == HpsStarts \subseteq 0 .. NumPixels(W, H)

N == NumPixels(W, H)   \* image_w * image_h
Pixels == PixelIndices(W, H)

Workers == {"nios", "cortex"}
Threads == Workers \union {"main"}

Unfiltered == "unfiltered"

VARIABLES
  decrypt_px_count,      \* shared_header, written by main
  decrypt_done,          \* shared_header, written by main
  filter_hps_start,      \* shared_header, written by load_data only
  nios_filter_done,      \* shared_header, written by nios
  hps_filter_done,       \* shared_header, written by cortex (or by main)
  out,                   \* FILTERED_IMAGE_SECTOR: who stored each pixel
  soft_filter_px_count,  \* static of process.c, used by nios
  hard_filter_px_count,  \* static of process.c, used by cortex
  unfiltered,            \* cortex: unfiltered_decrypted_px_count
  num,                   \* per worker: num_pixels_to_filter
  i,                     \* per worker: the loop variable of apply_filter
  resultado,             \* the pixels written to resultado.png
  pc                     \* per thread: where it is

Places ==
  {"start_nios", "start_cortex", "decrypt", "wait", "save", "free", "freed",
   "aborted", "unborn", "sleep", "count", "decide", "filter", "exited",
   "killed"}

header == << decrypt_px_count, decrypt_done, filter_hps_start,
             nios_filter_done, hps_filter_done >>
counts == << soft_filter_px_count, hard_filter_px_count >>
locals == << unfiltered, num, i >>
vars == << header, out, counts, locals, resultado, pc >>

(* pc of a thread moves from one place to the next.                        *)
Goto(t, from, to) ==
  /\ pc[t] = from
  /\ pc' = [pc EXCEPT ![t] = to]

(* start_idx of the call of apply_filter that thread t makes.              *)
StartIdx(t) ==
  IF t = "nios" THEN soft_filter_px_count
                ELSE filter_hps_start + hard_filter_px_count
----------------------------------------------------------------------------
(* init_memory has run: the header of load_data is in shared memory, the   *)
(* filtered sector is all zero and no timer thread exists.                 *)
Init ==
  /\ decrypt_px_count = 0
  /\ decrypt_done = FALSE
  /\ filter_hps_start \in HpsStarts
  /\ nios_filter_done = FALSE
  /\ hps_filter_done = FALSE
  /\ out = [p \in Pixels |-> Unfiltered]
  /\ soft_filter_px_count = 0
  /\ hard_filter_px_count = 0
  /\ unfiltered = 0
  /\ num = [t \in Workers |-> 0]
  /\ i = [t \in Workers |-> 0]
  /\ resultado = [p \in Pixels |-> Unfiltered]
  /\ pc = [t \in Threads |-> IF t = "main" THEN "start_nios" ELSE "unborn"]

(* start_timer(timer_isr_soft_core): the thread exists and sleeps.         *)
StartNiosTimer ==
  /\ pc["main"] = "start_nios"
  /\ pc' = [pc EXCEPT !["main"] = "start_cortex", !["nios"] = "sleep"]
  /\ UNCHANGED << header, out, counts, locals, resultado >>

(* main starts the second timer only if some pixel was left to the Cortex. *)
StartCortexTimer ==
  /\ pc["main"] = "start_cortex"
  /\ filter_hps_start < N
  /\ pc' = [pc EXCEPT !["main"] = "decrypt", !["cortex"] = "sleep"]
  /\ UNCHANGED << header, out, counts, locals, resultado >>

(* Mutant of NoCortexTimer: off by one in the comparison of main.          *)
NoCortexTimerOffByOne ==
  /\ filter_hps_start >= N - 1
  /\ Goto("main", "start_cortex", "decrypt")
  /\ hps_filter_done' = TRUE
  /\ UNCHANGED << decrypt_px_count, decrypt_done, filter_hps_start,
                  nios_filter_done, out, counts, locals, resultado >>

NoCortexTimer ==
  /\ filter_hps_start >= N
  /\ Goto("main", "start_cortex", "decrypt")
  /\ hps_filter_done' = TRUE
  /\ UNCHANGED << decrypt_px_count, decrypt_done, filter_hps_start,
                  nios_filter_done, out, counts, locals, resultado >>

(* pthread_create fails: start_timer ends the process.                     *)
StartTimerFails ==
  /\ \/ pc["main"] = "start_nios"
     \/ pc["main"] = "start_cortex" /\ filter_hps_start < N
  /\ pc' = [t \in Threads |-> IF t = "main" THEN "aborted" ELSE "exited"]
  /\ UNCHANGED << header, out, counts, locals, resultado >>

(* One turn of the loop of main_loop_soft_core.                            *)
DecryptPixel ==
  /\ pc["main"] = "decrypt"
  /\ decrypt_px_count # N
  /\ decrypt_px_count' = decrypt_px_count + 1
  /\ UNCHANGED << decrypt_done, filter_hps_start, nios_filter_done,
                  hps_filter_done, out, counts, locals, resultado, pc >>

DecryptFinished ==
  /\ decrypt_px_count = N
  /\ Goto("main", "decrypt", "wait")
  /\ decrypt_done' = TRUE
  /\ UNCHANGED << decrypt_px_count, filter_hps_start, nios_filter_done,
                  hps_filter_done, out, counts, locals, resultado >>

(* Mutant of FiltersFinished: main waits for one filter only.              *)
FiltersFinishedEither ==
  /\ nios_filter_done \/ hps_filter_done
  /\ Goto("main", "wait", "save")
  /\ UNCHANGED << header, out, counts, locals, resultado >>

(* The busy wait of main ends.                                             *)
FiltersFinished ==
  /\ nios_filter_done /\ hps_filter_done
  /\ Goto("main", "wait", "save")
  /\ UNCHANGED << header, out, counts, locals, resultado >>

SaveFilteredImage ==
  /\ Goto("main", "save", "free")
  /\ resultado' = out
  /\ UNCHANGED << header, out, counts, locals >>

(* free_memory and the return of main.                                     *)
FreeMemory ==
  /\ Goto("main", "free", "freed")
  /\ UNCHANGED << header, out, counts, locals, resultado >>
----------------------------------------------------------------------------
(* Mutants of NiosBatch: not truncated at filter_hps_start; only the whole *)
(* half at once.                                                           *)
NiosBatchNotTruncated ==
  LET left      == filter_hps_start - soft_filter_px_count
      decrypted == decrypt_px_count - soft_filter_px_count
  IN  IF decrypted > 2 * W \/ decrypted = left THEN decrypted ELSE 0

NiosBatchAtTheEnd ==
  LET left == filter_hps_start - soft_filter_px_count
  IN  IF decrypt_px_count >= filter_hps_start THEN left ELSE 0

(* timer_isr_soft_core up to its call of apply_filter.  decrypt_px_count   *)
(* is read once; the other fields it reads here do not change.             *)
NiosBatch ==
  LET left      == filter_hps_start - soft_filter_px_count
      decrypted == decrypt_px_count - soft_filter_px_count
      ready     == IF soft_filter_px_count + decrypted > filter_hps_start
                   THEN left ELSE decrypted
  IN  IF ready > 2 * W \/ ready = left THEN ready ELSE 0

NiosTick ==
  /\ Goto("nios", "sleep", "filter")
  /\ num' = [num EXCEPT !["nios"] = NiosBatch]
  /\ i' = [i EXCEPT !["nios"] = StartIdx("nios")]
  /\ UNCHANGED << header, out, counts, unfiltered, resultado >>

(* Mutant of NiosReport: the timer is not switched off.                    *)
NiosReportNoExit ==
  LET filtered == soft_filter_px_count + num["nios"] IN
  /\ Goto("nios", "filter", "sleep")
  /\ ~ (i["nios"] < StartIdx("nios") + num["nios"])
  /\ soft_filter_px_count' = filtered
  /\ nios_filter_done' = (nios_filter_done \/ filtered = filter_hps_start)
  /\ UNCHANGED << decrypt_px_count, decrypt_done, filter_hps_start,
                  hps_filter_done, out, hard_filter_px_count, locals,
                  resultado >>

(* The rest of timer_isr_soft_core: the count, and the last batch ends the *)
(* thread.                                                                 *)
NiosReport ==
  LET filtered == soft_filter_px_count + num["nios"] IN
  /\ pc["nios"] = "filter"
  /\ ~ (i["nios"] < StartIdx("nios") + num["nios"])
  /\ soft_filter_px_count' = filtered
  /\ nios_filter_done' = (nios_filter_done \/ filtered = filter_hps_start)
  /\ pc' = [pc EXCEPT !["nios"] = IF filtered = filter_hps_start
                                  THEN "exited" ELSE "sleep"]
  /\ UNCHANGED << decrypt_px_count, decrypt_done, filter_hps_start,
                  hps_filter_done, out, hard_filter_px_count, locals,
                  resultado >>

(* The progress printf divides by filter_hps_start.  Dividing by zero is   *)
(* undefined: on the processors that trap it the whole process is killed,  *)
(* on the others the handler goes on as in NiosReport.                     *)
NiosDivideFault ==
  /\ pc["nios"] = "filter"
  /\ ~ (i["nios"] < StartIdx("nios") + num["nios"])
  /\ filter_hps_start = 0
  /\ soft_filter_px_count' = soft_filter_px_count + num["nios"]
  /\ pc' = [t \in Threads |-> "killed"]
  /\ UNCHANGED << header, out, hard_filter_px_count, locals, resultado >>
----------------------------------------------------------------------------
(* proceso_periodico_hard_core reads decrypt_px_count a first time; below  *)
(* filter_hps_start it returns, which changes nothing.                     *)
CortexTick ==
  /\ decrypt_px_count >= filter_hps_start
  /\ Goto("cortex", "sleep", "count")
  /\ UNCHANGED << header, out, counts, locals, resultado >>

(* It reads decrypt_px_count again, and truncates at 0.                    *)
CortexCount ==
  LET left == decrypt_px_count - filter_hps_start - hard_filter_px_count IN
  /\ Goto("cortex", "count", "decide")
  /\ unfiltered' = IF left < 0 THEN 0 ELSE left
  /\ UNCHANGED << header, out, counts, num, i, resultado >>

(* Mutant of CortexDecide: the end of the decryption makes no difference.  *)
CortexDecideTwoRowsOnly ==
  /\ Goto("cortex", "decide", "filter")
  /\ num' = [num EXCEPT !["cortex"] =
               IF unfiltered > 2 * W THEN unfiltered ELSE 0]
  /\ i' = [i EXCEPT !["cortex"] = StartIdx("cortex")]
  /\ UNCHANGED << header, out, counts, unfiltered, resultado >>

(* It reads decrypt_done, by now possibly newer than the count.            *)
CortexDecide ==
  /\ Goto("cortex", "decide", "filter")
  /\ num' = [num EXCEPT !["cortex"] =
               IF unfiltered > 2 * W \/ decrypt_done THEN unfiltered ELSE 0]
  /\ i' = [i EXCEPT !["cortex"] = StartIdx("cortex")]
  /\ UNCHANGED << header, out, counts, unfiltered, resultado >>

CortexReport ==
  LET filtered == hard_filter_px_count + num["cortex"]
      last     == filter_hps_start + filtered = N
  IN
  /\ pc["cortex"] = "filter"
  /\ ~ (i["cortex"] < StartIdx("cortex") + num["cortex"])
  /\ hard_filter_px_count' = filtered
  /\ hps_filter_done' = (hps_filter_done \/ last)
  /\ pc' = [pc EXCEPT !["cortex"] = IF last THEN "exited" ELSE "sleep"]
  /\ UNCHANGED << decrypt_px_count, decrypt_done, filter_hps_start,
                  nios_filter_done, out, soft_filter_px_count, locals,
                  resultado >>
----------------------------------------------------------------------------
(* One turn of the loop of apply_filter, called by worker t.               *)
FilterNextPixel(t) ==
  /\ pc[t] = "filter"
  /\ i[t] < StartIdx(t) + num[t]
  /\ out' = [out EXCEPT ![i[t]] = t]
  /\ i' = [i EXCEPT ![t] = @ + 1]
  /\ UNCHANGED << header, counts, unfiltered, num, resultado, pc >>

MainStep ==
  \/ StartNiosTimer \/ StartCortexTimer \/ NoCortexTimer \/ StartTimerFails
  \/ DecryptPixel \/ DecryptFinished
  \/ FiltersFinished \/ SaveFilteredImage \/ FreeMemory

NiosControl == NiosTick \/ NiosReport \/ NiosDivideFault

CortexControl == CortexTick \/ CortexCount \/ CortexDecide \/ CortexReport

(* The process is over, or it was killed.                                  *)
Finished == pc["main"] \in {"freed", "aborted", "killed"}

Terminated == Finished /\ UNCHANGED vars

Next ==
  \/ MainStep
  \/ NiosControl
  \/ CortexControl
  \/ \E t \in Workers : FilterNextPixel(t)
  \/ Terminated

(* The operating system runs every thread; the sleeps of timer_thread and  *)
(* of main_loop_soft_core end.                                             *)
WorkerFairness ==
  /\ WF_vars(NiosControl \/ FilterNextPixel("nios"))
  /\ WF_vars(CortexControl \/ FilterNextPixel("cortex"))

MainFairness == WF_vars(MainStep)

Spec == Init /\ [][Next]_vars

(* main may stop, or take any time for a pixel.                            *)
WorkersFairSpec == Spec /\ WorkerFairness
----------------------------------------------------------------------------
TypeOK ==
  /\ decrypt_px_count \in 0 .. N
  /\ decrypt_done \in BOOLEAN
  /\ filter_hps_start \in 0 .. N
  /\ nios_filter_done \in BOOLEAN
  /\ hps_filter_done \in BOOLEAN
  /\ out \in [Pixels -> Workers \union {Unfiltered}]
  /\ soft_filter_px_count \in 0 .. N
  /\ hard_filter_px_count \in 0 .. N
  /\ unfiltered \in 0 .. N
  /\ num \in [Workers -> 0 .. N]
  /\ i \in [Workers -> 0 .. N]
  /\ resultado \in [Pixels -> Workers \union {Unfiltered}]
  /\ pc \in [Threads -> Places]

(* The flags main waits for are enough: when resultado.png has been        *)
(* written, every pixel of it was filtered, and by the processor it was    *)
(* assigned to (main.c, the busy wait and save_filtered_image).            *)
SavedImageComplete ==
  pc["main"] \in {"free", "freed"} =>
    \A p \in Pixels :
      resultado[p] = IF p < filter_hps_start THEN "nios" ELSE "cortex"

(* Once main frees the shared memory no timer thread will use it again:    *)
(* each sets its flag after its last access (free_memory in main.c,        *)
(* against the two handlers of process.c).                                 *)
NoUseAfterFree ==
  pc["main"] = "freed" => \A t \in Workers : pc[t] \in {"unborn", "exited"}

(* No processor filters a pixel that is not decrypted yet, whatever        *)
(* decrypt_px_count was when it computed its batch (process.c).            *)
FilteredWereDecrypted ==
  \A p \in Pixels : out[p] # Unfiltered => p < decrypt_px_count

(* The two processors share the image without a lock and no pixel is       *)
(* filtered twice: a store always hits a pixel nobody has stored yet.      *)
FilteredOnce ==
  [][\A t \in Workers : FilterNextPixel(t) => out[i[t]] = Unfiltered]_vars

(* The int num_pixels_to_filter becomes a size_t in apply_filter: it is    *)
(* never negative there and the batch never leaves the part of the image   *)
(* that belongs to the processor.                                          *)
BatchInsideHalf ==
  \A t \in Workers : pc[t] = "filter" =>
    /\ num[t] >= 0
    /\ StartIdx(t) + num[t] <= IF t = "nios" THEN filter_hps_start ELSE N

(* When main is scheduled too, and unless a thread could not be created or *)
(* the division by filter_hps_start faulted, the image is saved and the    *)
(* program ends (the busy wait of main.c for the flags of process.c).      *)
Terminates ==
  MainFairness =>
    ((filter_hps_start > 0) ~> (pc["main"] \in {"freed", "aborted"}))

(* The filters overlap the decryption: with a pixel more than two rows     *)
(* behind the decrypted ones it gets filtered, even if main never decrypts *)
(* another (the batch rules of both handlers).                             *)
PipelineProgress ==
  \A p \in Pixels :
    (p + 2 * W < decrypt_px_count) ~> (out[p] # Unfiltered \/ Finished)

(* The threads, the flags and the batches implement the job that ImageJob  *)
(* describes.                                                              *)
Job == INSTANCE ImageJob WITH
  Size      <- N,
  decrypted <- decrypt_px_count,
  filtered  <- {p \in Pixels : out[p] # Unfiltered},
  outcome   <- CASE pc["main"] \in {"free", "freed"} -> "saved"
                 [] pc["main"] \in {"aborted", "killed"} -> "lost"
                 [] OTHER -> "running"

ImplementsJob == Job!Spec

----------------------------------------------------------------------------
(* The inductive invariant.  i[t] is the cursor of worker t: the pixels of *)
(* its half below the cursor are stored, those from it on are not.         *)
CursorsSplitImage ==
  \A p \in Pixels :
    out[p] = IF p < filter_hps_start
             THEN IF p < i["nios"]   THEN "nios"   ELSE Unfiltered
             ELSE IF p < i["cortex"] THEN "cortex" ELSE Unfiltered

NiosCursor ==
  /\ i["nios"] <= filter_hps_start
  /\ i["nios"] <= decrypt_px_count
  /\ pc["nios"] \in {"unborn", "sleep"} => i["nios"] = soft_filter_px_count
  /\ pc["nios"] = "filter" =>
       /\ soft_filter_px_count <= i["nios"]
       /\ i["nios"] <= soft_filter_px_count + num["nios"]
       /\ soft_filter_px_count + num["nios"] <= filter_hps_start
       /\ soft_filter_px_count + num["nios"] <= decrypt_px_count

(* Before its first batch the cursor of the Cortex is still 0.             *)
CortexCursor ==
  LET start == filter_hps_start + hard_filter_px_count IN
  /\ i["cortex"] <= decrypt_px_count
  /\ pc["cortex"] \in {"unborn", "sleep", "count", "decide"} =>
       \/ i["cortex"] = start
       \/ i["cortex"] = 0 /\ hard_filter_px_count = 0
  /\ pc["cortex"] \in {"count", "decide"} => start <= decrypt_px_count
  /\ pc["cortex"] = "decide" => start + unfiltered <= decrypt_px_count
  /\ pc["cortex"] = "filter" =>
       /\ start <= i["cortex"]
       /\ i["cortex"] <= start + num["cortex"]
       /\ start + num["cortex"] <= decrypt_px_count

(* A filter flag is set by the last access of its thread, or by main when  *)
(* there is no thread and no pixel.                                        *)
FlagsAreFinal ==
  /\ nios_filter_done =>
       pc["nios"] \in {"exited", "killed"} /\ i["nios"] = filter_hps_start
  /\ hps_filter_done =>
       /\ pc["cortex"] \in {"unborn", "exited", "killed"}
       /\ i["cortex"] = N \/ filter_hps_start = N
       /\ pc["cortex"] = "unborn" => filter_hps_start = N
       /\ pc["main"] \notin {"start_nios", "start_cortex"}

MainFollowsFlags ==
  /\ pc["main"] \in {"save", "free", "freed"} =>
       nios_filter_done /\ hps_filter_done
  /\ pc["main"] \in {"free", "freed"} => resultado = out

(* Each thread is at a place of its own code, and none outlives main's     *)
(* process.                                                                *)
ThreadPlaces ==
  /\ pc["main"] \in {"start_nios", "start_cortex", "decrypt", "wait", "save",
                     "free", "freed", "aborted", "killed"}
  /\ pc["nios"] \in {"unborn", "sleep", "filter", "exited", "killed"}
  /\ pc["cortex"] \in {"unborn", "sleep", "count", "decide", "filter",
                       "exited", "killed"}
  /\ pc["main"] = "start_nios" => pc["nios"] = "unborn"
  /\ pc["main"] \in {"start_nios", "start_cortex"} => pc["cortex"] = "unborn"
  /\ pc["main"] = "aborted" => \A t \in Workers : pc[t] = "exited"
  /\ pc["main"] = "killed" <=> pc["nios"] = "killed"
  /\ pc["main"] = "killed" <=> pc["cortex"] = "killed"

IInv ==
  /\ TypeOK
  /\ CursorsSplitImage
  /\ NiosCursor
  /\ CortexCursor
  /\ FlagsAreFinal
  /\ MainFollowsFlags
  /\ ThreadPlaces
============================================================================
