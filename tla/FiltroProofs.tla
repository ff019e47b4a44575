---------------------------- MODULE FiltroProofs ----------------------------
(***************************************************************************)
(* Proofs about Filtro and FiltroStatic for every image size and every set *)
(* of splits.                                                              *)
(***************************************************************************)
EXTENDS FiltroStatic, TLAPS

(* An image has a positive number of pixels.                               *)
LEMMA ImageSize ==
  /\ N \in Nat \ {0}
  /\ Pixels = 0 .. N - 1
  /\ HpsStarts \subseteq 0 .. N
BY ImageAssumption, SplitAssumption DEF N, Pixels, NumPixels, PixelIndices

LEMMA InitIInv == Init => IInv
<1> SUFFICES ASSUME Init PROVE IInv
    OBVIOUS
<1> USE ImageSize DEF Init
<1>0. filter_hps_start \in 0 .. N
  OBVIOUS
<1>1. TypeOK
  <2>1. pc \in [Threads -> Places]
    BY DEF Places
  <2>2. /\ out \in [Pixels -> Workers \union {Unfiltered}]
        /\ resultado \in [Pixels -> Workers \union {Unfiltered}]
    OBVIOUS
  <2>3. num \in [Workers -> 0 .. N] /\ i \in [Workers -> 0 .. N]
    OBVIOUS
  <2>4. /\ decrypt_done \in BOOLEAN
        /\ nios_filter_done \in BOOLEAN
        /\ hps_filter_done \in BOOLEAN
    OBVIOUS
  <2>5. {decrypt_px_count, soft_filter_px_count, hard_filter_px_count,
         unfiltered} \subseteq 0 .. N
    OBVIOUS
  <2> QED
    BY <1>0, <2>1, <2>2, <2>3, <2>4, <2>5 DEF TypeOK
<1>2. CursorsSplitImage
  BY <1>0 DEF CursorsSplitImage, Workers, Unfiltered
<1>3. NiosCursor
  BY <1>0 DEF NiosCursor, Workers, Threads
<1>4. CortexCursor
  BY <1>0 DEF CortexCursor, Workers, Threads
<1>5. FlagsAreFinal /\ MainFollowsFlags /\ ThreadPlaces
  BY DEF FlagsAreFinal, MainFollowsFlags, ThreadPlaces, Workers, Threads
<1> QED
  BY <1>1, <1>2, <1>3, <1>4, <1>5 DEF IInv

(* apply_filter returns with the cursor at the end of its batch.           *)
LEMMA BatchEnd ==
  ASSUME IInv, NEW t \in Workers, pc[t] = "filter",
         ~ (i[t] < StartIdx(t) + num[t])
  PROVE  i[t] = StartIdx(t) + num[t]
<1>1. /\ filter_hps_start \in Int
      /\ soft_filter_px_count \in Int
      /\ hard_filter_px_count \in Int
      /\ num[t] \in Int
      /\ i[t] \in Int
  BY ImageSize DEF IInv, TypeOK, Workers
<1>2. StartIdx(t) \in Int
  BY <1>1 DEF StartIdx
<1>3. CASE t = "nios"
  <2>1. i[t] <= soft_filter_px_count + num[t]
    BY <1>3 DEF IInv, NiosCursor
  <2> QED
    BY <1>1, <1>3, <2>1 DEF StartIdx
<1>4. CASE t = "cortex"
  <2>1. i[t] <= filter_hps_start + hard_filter_px_count + num[t]
    BY <1>4 DEF IInv, CortexCursor
  <2> QED
    BY <1>1, <1>4, <2>1 DEF StartIdx
<1> QED
  BY <1>3, <1>4 DEF Workers

(* Every step keeps the invariant.  Its parts speak of all the variables   *)
(* together, so every case needs the parts expanded.                       *)
LEMMA StepIInv == IInv /\ [Next]_vars => IInv'
<1> SUFFICES ASSUME IInv, [Next]_vars PROVE IInv'
    OBVIOUS
<1> USE ImageSize DEF IInv, TypeOK, CursorsSplitImage, NiosCursor,
        CortexCursor, FlagsAreFinal, MainFollowsFlags, ThreadPlaces, Workers, Threads,
        Unfiltered, Places
<1> USE DEF Goto, header, counts, locals, StartIdx
<1>1. CASE StartNiosTimer
  BY <1>1 DEF StartNiosTimer
<1>2. CASE StartCortexTimer
  BY <1>2 DEF StartCortexTimer
<1>3. CASE NoCortexTimer
  BY <1>3 DEF NoCortexTimer
<1>4. CASE StartTimerFails
  BY <1>4 DEF StartTimerFails
<1>5. CASE DecryptPixel
  BY <1>5 DEF DecryptPixel
<1>6. CASE DecryptFinished
  BY <1>6 DEF DecryptFinished
<1>7. CASE FiltersFinished
  BY <1>7 DEF FiltersFinished
<1>8. CASE SaveFilteredImage
  BY <1>8 DEF SaveFilteredImage
<1>9. CASE FreeMemory
  BY <1>9 DEF FreeMemory
<1>10. CASE NiosTick
  BY <1>10 DEF NiosTick, NiosBatch
<1>11. CASE NiosReport
  BY <1>11 DEF NiosReport
<1>12. CASE NiosDivideFault
  BY <1>12 DEF NiosDivideFault
<1>13. CASE CortexTick
  BY <1>13 DEF CortexTick
<1>14. CASE CortexCount
  BY <1>14 DEF CortexCount
<1>15. CASE CortexDecide
  BY <1>15 DEF CortexDecide
<1>16. CASE CortexReport
  <2> USE <1>16 DEF CortexReport
  <2>1. i["cortex"] = StartIdx("cortex") + num["cortex"]
    BY BatchEnd
  <2>2. TypeOK'
    BY <2>1
  <2>3. CursorsSplitImage'
    BY <2>1
  <2>4. NiosCursor'
    OBVIOUS
  <2>5. CortexCursor'
    BY <2>1
  <2>6. FlagsAreFinal'
    BY <2>1
  <2>7. MainFollowsFlags'
    OBVIOUS
  <2>8. ThreadPlaces'
    OBVIOUS
  <2> QED
    BY <2>2, <2>3, <2>4, <2>5, <2>6, <2>7, <2>8
<1>17. CASE FilterNextPixel("nios")
  <2> USE <1>17 DEF FilterNextPixel
  <2>1. i["nios"] \in Pixels
    OBVIOUS
  <2>2. TypeOK'
    BY <2>1
  <2>3. CursorsSplitImage'
    BY <2>1
  <2>4. NiosCursor'
    OBVIOUS
  <2>5. CortexCursor'
    OBVIOUS
  <2>6. FlagsAreFinal'
    OBVIOUS
  <2>7. MainFollowsFlags'
    OBVIOUS
  <2>8. ThreadPlaces'
    OBVIOUS
  <2> QED
    BY <2>2, <2>3, <2>4, <2>5, <2>6, <2>7, <2>8
<1>18. CASE FilterNextPixel("cortex")
  <2> USE <1>18 DEF FilterNextPixel
  <2>1. i["cortex"] \in Pixels
    OBVIOUS
  <2>2. TypeOK'
    BY <2>1
  <2>3. CursorsSplitImage'
    BY <2>1
  <2>4. NiosCursor'
    OBVIOUS
  <2>5. CortexCursor'
    OBVIOUS
  <2>6. FlagsAreFinal'
    OBVIOUS
  <2>7. MainFollowsFlags'
    OBVIOUS
  <2>8. ThreadPlaces'
    OBVIOUS
  <2> QED
    BY <2>2, <2>3, <2>4, <2>5, <2>6, <2>7, <2>8
<1>19. CASE UNCHANGED vars
  BY <1>19 DEF vars
<1> QED
  BY <1>1, <1>2, <1>3, <1>4, <1>5, <1>6, <1>7, <1>8, <1>9, <1>10, <1>11,
     <1>12, <1>13, <1>14, <1>15, <1>16, <1>17, <1>18, <1>19
     DEF Next, MainStep, NiosControl, CortexControl, Terminated
----------------------------------------------------------------------------
(* The invariant holds in every state verificar_filtro reaches.            *)
THEOREM Invariance == Spec => []IInv
<1> QED
  BY InitIInv, StepIInv, PTL DEF Spec

(* Type correctness: the header, the counts and the cursors of process.c   *)
(* stay within the image, and every thread is at a place of its code.      *)
THEOREM TypeCorrect == Spec => []TypeOK
<1>1. IInv => TypeOK
  BY DEF IInv
<1> QED
  BY <1>1, Invariance, PTL

(* No pixel is filtered before it is decrypted (process.c, both handlers). *)
THEOREM OnlyDecryptedFiltered == Spec => []FilteredWereDecrypted
<1>1. ASSUME IInv PROVE FilteredWereDecrypted
  <2> SUFFICES ASSUME NEW p \in Pixels, out[p] # Unfiltered
               PROVE  p < decrypt_px_count
    BY DEF FilteredWereDecrypted
  <2>1. p \in Int /\ decrypt_px_count \in Int
    BY <1>1, ImageSize DEF IInv, TypeOK
  <2>2. i["nios"] \in Int /\ i["cortex"] \in Int
    BY <1>1, ImageSize DEF IInv, TypeOK, Workers
  <2>3. p < i["nios"] \/ p < i["cortex"]
    BY <1>1 DEF IInv, CursorsSplitImage
  <2> QED
    BY <1>1, <2>1, <2>2, <2>3 DEF IInv, NiosCursor, CortexCursor
<1> QED
  BY <1>1, Invariance, PTL

(* The batch of a handler stays in the half of the image of its processor. *)
THEOREM BatchesInsideHalves == Spec => []BatchInsideHalf
<1>1. ASSUME IInv PROVE BatchInsideHalf
  <2> SUFFICES ASSUME NEW t \in Workers, pc[t] = "filter"
               PROVE  /\ num[t] >= 0
                      /\ StartIdx(t) + num[t] <= IF t = "nios"
                                                 THEN filter_hps_start ELSE N
    BY DEF BatchInsideHalf
  <2>1. /\ decrypt_px_count \in 0 .. N
        /\ num[t] \in 0 .. N
        /\ soft_filter_px_count \in Int /\ hard_filter_px_count \in Int
        /\ filter_hps_start \in Int
    BY <1>1, ImageSize DEF IInv, TypeOK
  <2>2. CASE t = "nios"
    <3>1. soft_filter_px_count + num[t] <= filter_hps_start
      BY <1>1, <2>2 DEF IInv, NiosCursor
    <3> QED
      BY <2>1, <2>2, <3>1 DEF StartIdx
  <2>3. CASE t = "cortex"
    <3>1. filter_hps_start + hard_filter_px_count + num[t] <= decrypt_px_count
      BY <1>1, <2>3 DEF IInv, CortexCursor
    <3> QED
      BY ImageSize, <2>1, <2>3, <3>1 DEF StartIdx
  <2> QED
    BY <2>2, <2>3 DEF Workers
<1> QED
  BY <1>1, Invariance, PTL

(* free_memory in main.c runs when no timer thread touches sdram any more. *)
THEOREM FreedAfterLastUse == Spec => []NoUseAfterFree
<1>1. ASSUME IInv PROVE NoUseAfterFree
  BY <1>1 DEF IInv, FlagsAreFinal, MainFollowsFlags, ThreadPlaces,
              NoUseAfterFree, Workers
<1> QED
  BY <1>1, Invariance, PTL

(* What main writes to resultado.png is the whole image, each half of it   *)
(* from the processor it was assigned to.                                  *)
THEOREM SavedComplete == Spec => []SavedImageComplete
<1>1. ASSUME IInv PROVE SavedImageComplete
  <2> SUFFICES ASSUME pc["main"] \in {"free", "freed"}, NEW p \in Pixels
               PROVE  resultado[p] = IF p < filter_hps_start
                                     THEN "nios" ELSE "cortex"
    BY DEF SavedImageComplete
  <2>1. resultado = out /\ nios_filter_done /\ hps_filter_done
    BY <1>1 DEF IInv, MainFollowsFlags
  <2>2. /\ i["nios"] = filter_hps_start
        /\ i["cortex"] = N \/ filter_hps_start = N
    BY <1>1, <2>1 DEF IInv, FlagsAreFinal
  <2>3. p < N
    BY ImageSize
  <2> QED
    BY <1>1, <2>1, <2>2, <2>3 DEF IInv, CursorsSplitImage
<1> QED
  BY <1>1, Invariance, PTL

(* apply_filter never stores a pixel that has been stored before, by this  *)
(* processor or by the other.                                              *)
LEMMA FreshPixel ==
  ASSUME IInv, NEW t \in Workers, FilterNextPixel(t)
  PROVE  /\ i[t] \in Pixels
         /\ out[i[t]] = Unfiltered
         /\ i[t] < decrypt_px_count
<1>1. /\ decrypt_px_count \in 0 .. N
      /\ num[t] \in 0 .. N
      /\ i[t] \in 0 .. N
      /\ soft_filter_px_count \in 0 .. N /\ hard_filter_px_count \in 0 .. N
      /\ filter_hps_start \in 0 .. N
  BY ImageSize DEF IInv, TypeOK
<1>2. i[t] < StartIdx(t) + num[t] /\ pc[t] = "filter"
  BY DEF FilterNextPixel
<1>3. CASE t = "nios"
  <2>1. /\ soft_filter_px_count + num[t] <= filter_hps_start
        /\ soft_filter_px_count + num[t] <= decrypt_px_count
    BY <1>2, <1>3 DEF IInv, NiosCursor
  <2>2. i[t] < filter_hps_start /\ i[t] < decrypt_px_count
    BY ImageSize, <1>1, <1>2, <1>3, <2>1 DEF StartIdx
  <2>3. i[t] \in Pixels
    BY ImageSize, <1>1, <2>2
  <2> QED
    BY <1>1, <1>3, <2>2, <2>3 DEF IInv, CursorsSplitImage
<1>4. CASE t = "cortex"
  <2>1. /\ filter_hps_start + hard_filter_px_count <= i[t]
        /\ filter_hps_start + hard_filter_px_count + num[t] <= decrypt_px_count
    BY <1>2, <1>4 DEF IInv, CortexCursor
  <2>2. ~ (i[t] < filter_hps_start) /\ i[t] < decrypt_px_count
    BY ImageSize, <1>1, <1>2, <1>4, <2>1 DEF StartIdx
  <2>3. i[t] \in Pixels
    BY ImageSize, <1>1, <2>2
  <2> QED
    BY <1>1, <1>4, <2>2, <2>3 DEF IInv, CursorsSplitImage
<1> QED
  BY <1>3, <1>4 DEF Workers

(* No pixel is filtered twice, by one processor or by both.                *)
THEOREM NoPixelTwice == Spec => FilteredOnce
<1>1. ASSUME IInv, [Next]_vars
      PROVE  [\A t \in Workers :
                FilterNextPixel(t) => out[i[t]] = Unfiltered]_vars
  BY <1>1, FreshPixel
<1> QED
  BY <1>1, Invariance, PTL DEF Spec, FilteredOnce
----------------------------------------------------------------------------
(* Filtro implements ImageJob: an initial state of the program is one of   *)
(* the job, and each action of a thread does nothing to the job, decrypts  *)
(* or filters one pixel, saves the image or loses it.                      *)
LEMMA JobInit == Init => Job!Init
<1> SUFFICES ASSUME Init PROVE Job!Init
    OBVIOUS
<1>1. {p \in Pixels : out[p] # Unfiltered} = {}
  BY DEF Init
<1>2. pc["main"] = "start_nios" /\ decrypt_px_count = 0
  BY DEF Init, Threads
<1> QED
  BY <1>1, <1>2 DEF Job!Init

LEMMA JobStep == IInv /\ [Next]_vars => [Job!Next]_(Job!vars)
<1> SUFFICES ASSUME IInv, [Next]_vars PROVE [Job!Next]_(Job!vars)
    OBVIOUS
<1> DEFINE Done == {p \in Pixels : out[p] # Unfiltered}
           Outcome == CASE pc["main"] \in {"free", "freed"} -> "saved"
                        [] pc["main"] \in {"aborted", "killed"} -> "lost"
                        [] OTHER -> "running"
<1>a. SUFFICES \/ Job!Decrypt \/ Job!Save \/ Job!Lose
               \/ \E p \in 0 .. N - 1 : Job!Filter(p)
               \/ /\ decrypt_px_count' = decrypt_px_count
                  /\ Done' = Done
                  /\ Outcome' = Outcome
  BY DEF Job!Next, Job!vars
<1> HIDE DEF Done, Outcome
<1>1. CASE StartNiosTimer \/ StartCortexTimer \/ NoCortexTimer
           \/ DecryptFinished \/ FiltersFinished
  BY <1>1 DEF IInv, TypeOK, Threads, Done, Outcome, Goto, header,
     StartNiosTimer, StartCortexTimer, NoCortexTimer, DecryptFinished,
     FiltersFinished
<1>2. CASE StartTimerFails
  BY <1>2 DEF IInv, TypeOK, Threads, Done, Outcome, header, StartTimerFails,
     Job!Lose
<1>3. CASE DecryptPixel
  BY <1>3, ImageSize DEF IInv, TypeOK, MainFollowsFlags, Done, Outcome,
     Job!Decrypt, DecryptPixel
<1>4. CASE SaveFilteredImage
  <2>1. pc["main"] = "save" /\ pc'["main"] = "free"
    BY <1>4 DEF IInv, TypeOK, Threads, Goto, SaveFilteredImage
  <2>2. /\ i["nios"] = filter_hps_start
        /\ i["cortex"] = N \/ filter_hps_start = N
    BY <2>1 DEF IInv, MainFollowsFlags, FlagsAreFinal
  <2>3. \A p \in Pixels : out[p] # Unfiltered
    BY ImageSize, <2>2 DEF IInv, CursorsSplitImage, Unfiltered
  <2> QED
    BY <1>4, ImageSize, <2>1, <2>3
       DEF header, SaveFilteredImage, Job!Save
<1>5. CASE FreeMemory
  BY <1>5 DEF IInv, TypeOK, Threads, Done, Outcome, Goto, header, FreeMemory
<1>6. CASE NiosTick \/ NiosReport \/ CortexControl
  BY <1>6 DEF IInv, TypeOK, Threads, Done, Outcome, Goto, header, NiosTick,
     NiosReport, CortexControl, CortexTick, CortexCount, CortexDecide,
     CortexReport
<1>7. CASE NiosDivideFault
  BY <1>7 DEF IInv, FlagsAreFinal, MainFollowsFlags, ThreadPlaces, Done,
     Outcome, header, NiosDivideFault, Threads, Job!Lose
<1>8. ASSUME NEW t \in Workers, FilterNextPixel(t)
      PROVE  \E p \in 0 .. N - 1 : Job!Filter(p)
  <2>1. /\ i[t] \in Pixels
        /\ out[i[t]] = Unfiltered
        /\ i[t] < decrypt_px_count
    BY <1>8, FreshPixel
  <2>2. /\ pc[t] = "filter"
        /\ out' = [out EXCEPT ![i[t]] = t]
        /\ decrypt_px_count' = decrypt_px_count
        /\ pc' = pc
    BY <1>8 DEF FilterNextPixel, header
  <2>3. pc["main"] \notin {"free", "freed", "aborted", "killed"}
    BY <2>2 DEF IInv, FlagsAreFinal, MainFollowsFlags, ThreadPlaces, Workers
  <2>4. Done' = Done \union {i[t]}
    BY <2>1, <2>2 DEF IInv, TypeOK, Done, Workers, Unfiltered
  <2>5. Job!Filter(i[t])
    BY <2>1, <2>2, <2>3, <2>4 DEF Job!Filter, Done
  <2>6. i[t] \in 0 .. N - 1
    BY <2>1, ImageSize
  <2> QED
    BY <2>5, <2>6 DEF Job!Filter
<1>9. CASE UNCHANGED vars
  BY <1>9 DEF vars, header, Done, Outcome
<1> QED
  BY <1>1, <1>2, <1>3, <1>4, <1>5, <1>6, <1>7, <1>8, <1>9
     DEF Next, MainStep, NiosControl, Terminated

(* The threads, the flags and the batches implement the job: pixels are    *)
(* decrypted in order, each is filtered once and after it was decrypted,   *)
(* and the image is saved only when all of it is filtered.                 *)
THEOREM FiltroImplementsJob == Spec => ImplementsJob
<1> QED
  BY JobInit, JobStep, Invariance, PTL DEF Spec, ImplementsJob, Job!Spec
----------------------------------------------------------------------------
(* With filter_pixel in detail.  A step inside it is none of Filtro's.     *)
LEMMA StaticStepIsStep == StaticNext => [Next]_vars
<1> SUFFICES ASSUME StaticNext PROVE [Next]_vars
  OBVIOUS
<1>1. CASE MainStep \/ NiosControl \/ CortexControl \/ Terminated
  BY <1>1 DEF Next
<1>2. ASSUME NEW t \in Workers, LoadEntry(t) \/ AddEntry(t) \/ StorePixel(t)
      PROVE  [Next]_vars
  BY <1>2 DEF LoadEntry, AddEntry, StorePixel, Next
<1> QED
  BY <1>1, <1>2 DEF StaticNext

(* So what was proved of the threads holds with the shared pixels[] too.   *)
THEOREM StaticRefinesFiltro == StaticSpec => Spec
<1>1. StaticInit => Init
  BY DEF StaticInit
<1>2. [StaticNext]_<< vars, staticVars >> => [Next]_vars
  BY StaticStepIsStep
<1> QED
  BY <1>1, <1>2, PTL DEF StaticSpec, Spec

LEMMA WindowType ==
  ASSUME NEW q \in Pixels
  PROVE  /\ FilterWindow(q, W, H) \in [Entries -> Int]
         /\ \A k \in Entries : FilterWindow(q, W, H)[k] \in Int
<1>1. q \in Int /\ W \in Nat \ {0} /\ H \in Int
  BY ImageSize, ImageAssumption
<1>2. RowOf(q, W) \in Int
  BY <1>1 DEF RowOf
<1>3. ColumnOf(q, W) \in Int
  BY <1>1, <1>2 DEF ColumnOf
<1>4. FilterWindow(q, W, H) \in [Entries -> Int]
  BY <1>1, <1>2, <1>3 DEF FilterWindow, Entries
<1> QED
  BY <1>4

(* The pixel a worker filters is one of its own half.                      *)
LEMMA CursorInHalf ==
  ASSUME IInv, NEW t \in Workers, InFilterPixel(t)
  PROVE  /\ i[t] \in Pixels
         /\ i[t] < filter_hps_start <=> t = "nios"
BY ImageSize
DEF IInv, TypeOK, NiosCursor, CortexCursor, InFilterPixel, StartIdx, Workers

LEMMA OtherCursorOpposite ==
  ASSUME IInv, NEW t \in Workers, NEW u \in Workers, t # u,
         InFilterPixel(t), InFilterPixel(u)
  PROVE  /\ i[t] \in Pixels /\ i[u] \in Pixels
         /\ (i[t] < filter_hps_start) # (i[u] < filter_hps_start)
BY CursorInHalf DEF Workers

LEMMA StaticInitInv == StaticInit => SInv
<1> SUFFICES ASSUME StaticInit PROVE SInv
  OBVIOUS
<1>1. IInv
  BY InitIInv DEF StaticInit
<1>2. StaticTypeOK
  BY DEF StaticInit, StaticTypeOK, Empty, Entries
<1>3. \A t \in Workers : entry[t] = 0
  BY DEF StaticInit
<1>4. \A p \in Pixels : out[p] = Unfiltered
  BY DEF StaticInit, Init
<1>5. StartsWithFirstLoad
  BY <1>3 DEF StartsWithFirstLoad
<1>6. LoadedEntries /\ SummedEntries
  BY <1>3 DEF LoadedEntries, SummedEntries, Entries
<1>7. TornAtSamePosition
  BY <1>4 DEF TornAtSamePosition
<1> QED
  BY <1>1, <1>2, <1>5, <1>6, <1>7 DEF SInv

(* The steps outside filter_pixel.                                         *)
LEMMA ControlKeepsCursor ==
  ASSUME IInv, MainStep \/ NiosControl \/ CortexControl \/ Terminated,
         NEW t \in Workers
  PROVE  /\ filter_hps_start' = filter_hps_start /\ out' = out
         /\ InFilterPixel(t) =>
              \/ pc'[t] \in {"exited", "killed"}
              \/ InFilterPixel(t)' /\ i'[t] = i[t]
         /\ pc[t] \in {"exited", "killed"} => pc'[t] \in {"exited", "killed"}
<1> USE DEF InFilterPixel, StartIdx, Goto, header, counts, locals, Workers, Threads,
        IInv, TypeOK
<1>1. CASE MainStep
  BY <1>1 DEF MainStep, StartNiosTimer, StartCortexTimer, NoCortexTimer,
     StartTimerFails, DecryptPixel, DecryptFinished, FiltersFinished,
     SaveFilteredImage, FreeMemory, ThreadPlaces
<1>2. CASE NiosControl
  BY <1>2 DEF NiosControl, NiosTick, NiosReport, NiosDivideFault
<1>3. CASE CortexControl
  BY <1>3 DEF CortexControl, CortexTick, CortexCount, CortexDecide, CortexReport
<1>4. CASE Terminated
  BY <1>4 DEF Terminated, vars
<1> QED
  BY <1>1, <1>2, <1>3, <1>4

LEMMA ControlKeepsSInv ==
  ASSUME SInv, MainStep \/ NiosControl \/ CortexControl \/ Terminated,
         UNCHANGED staticVars
  PROVE  SInv'
<1>1. IInv /\ IInv'
  <2>1. [Next]_vars
    BY DEF Next
  <2> QED
    BY <2>1, StepIInv DEF SInv
<1>2. UNCHANGED << pixels, entry, result, taps, filter_hps_start, out >>
  <2>1. "nios" \in Workers
    BY DEF Workers
  <2> QED
    BY <1>1, <2>1, ControlKeepsCursor DEF staticVars
<1>3. \A t \in Workers :
        /\ InFilterPixel(t) =>
             \/ pc'[t] \in {"exited", "killed"}
             \/ InFilterPixel(t)' /\ i'[t] = i[t]
        /\ pc[t] \in {"exited", "killed"} => pc'[t] \in {"exited", "killed"}
  BY <1>1, ControlKeepsCursor
<1>4. StaticTypeOK'
  BY <1>2 DEF SInv, StaticTypeOK
<1>5. StartsWithFirstLoad'
  BY <1>2, <1>3 DEF SInv, StartsWithFirstLoad
<1>6. ASSUME NEW t \in Workers, InFilterPixel(t)', entry[t] # 0
      PROVE  InFilterPixel(t) /\ i'[t] = i[t]
  <2>1. pc'[t] \notin {"exited", "killed"}
    BY <1>6 DEF InFilterPixel
  <2> QED
    BY <1>3, <1>6, <2>1 DEF SInv, StartsWithFirstLoad
<1>7. LoadedEntries'
  <2> SUFFICES ASSUME NEW t \in Workers, InFilterPixel(t)', NEW k \in Entries,
                      k <= entry[t]
               PROVE  TornEntry(i[t], k, pixels[k])'
    BY <1>2 DEF LoadedEntries
  <2>1. entry[t] # 0
    BY DEF SInv, StaticTypeOK, Entries
  <2>2. InFilterPixel(t) /\ i'[t] = i[t]
    BY <1>6, <2>1
  <2>3. TornEntry(i[t], k, pixels[k])
    BY <2>2 DEF SInv, LoadedEntries
  <2> QED
    BY <1>2, <2>2, <2>3 DEF TornEntry
<1>8. SummedEntries'
  <2> SUFFICES ASSUME NEW t \in Workers, InFilterPixel(t)', NEW k \in Entries,
                      k + 9 <= entry[t]
               PROVE  TornEntry(i[t], k, result[t][k])'
    BY <1>2 DEF SummedEntries
  <2>1. entry[t] # 0
    BY DEF SInv, StaticTypeOK, Entries
  <2>2. InFilterPixel(t) /\ i'[t] = i[t]
    BY <1>6, <2>1
  <2>3. TornEntry(i[t], k, result[t][k])
    BY <2>2 DEF SInv, SummedEntries
  <2> QED
    BY <1>2, <2>2, <2>3 DEF TornEntry
<1>9. TornAtSamePosition'
  BY <1>2 DEF SInv, TornAtSamePosition, TornEntry
<1> QED
  BY <1>1, <1>4, <1>5, <1>7, <1>8, <1>9 DEF SInv

(* A step inside filter_pixel changes nothing but the arrays.              *)
LEMMA InsideKeepsThreads ==
  ASSUME SInv, UNCHANGED vars
  PROVE  /\ IInv'
         /\ \A t \in Workers : InFilterPixel(t)' <=> InFilterPixel(t)
         /\ UNCHANGED << i, pc, out, filter_hps_start >>
<1>1. IInv'
  BY StepIInv DEF SInv
<1> QED
  BY <1>1 DEF vars, locals, header, counts, InFilterPixel, StartIdx

(* One thread loads an entry of its own window: the other may find it in   *)
(* the place of its own.                                                   *)
LEMMA LoadKeepsSInv ==
  ASSUME SInv, NEW t \in Workers, LoadEntry(t)
  PROVE  SInv'
<1> DEFINE k0 == entry[t] + 1
           loaded == FilterWindow(i[t], W, H)[k0]
<1>1. /\ UNCHANGED << vars, result, taps >> /\ InFilterPixel(t) /\ k0 \in Entries
      /\ pixels' = [pixels EXCEPT ![k0] = loaded]
      /\ entry' = [entry EXCEPT ![t] = @ + 1]
  BY DEF LoadEntry
<1>2. /\ IInv' /\ \A u \in Workers : InFilterPixel(u)' <=> InFilterPixel(u)
      /\ UNCHANGED << i, pc, out, filter_hps_start >>
  BY <1>1, InsideKeepsThreads
<1>3. i[t] \in Pixels /\ loaded \in Int
  BY <1>1, CursorInHalf, WindowType DEF SInv
<1>4. /\ pixels \in [Entries -> Int] /\ entry \in [Workers -> 0 .. 18]
      /\ \A u \in Workers : entry[u] \in 0 .. 18
  BY DEF SInv, StaticTypeOK
<1>5. pixels'[k0] = loaded /\ \A k \in Entries : k # k0 => pixels'[k] = pixels[k]
  BY <1>1, <1>4
<1>6. entry'[t] = k0 /\ \A u \in Workers : u # t => entry'[u] = entry[u]
  BY <1>1, <1>4
<1>7. StaticTypeOK'
  <2>1. entry' \in [Workers -> 0 .. 18]
    BY <1>1, <1>4 DEF Entries
  <2>2. pixels' \in [Entries -> Int]
    BY <1>1, <1>3, <1>4
  <2> QED
    BY <1>1, <2>1, <2>2 DEF SInv, StaticTypeOK
<1>8. StartsWithFirstLoad'
  BY <1>1, <1>2, <1>6 DEF SInv, StartsWithFirstLoad
<1>9. ASSUME NEW u \in Workers, InFilterPixel(u) PROVE TornEntry(i[u], k0, loaded)
  <2>1. CASE u = t
    BY <2>1 DEF TornEntry
  <2>2. CASE u # t
    <3>1. i[t] \in Pixels /\ (i[t] < filter_hps_start) # (i[u] < filter_hps_start)
      BY <1>1, <1>9, <2>2, OtherCursorOpposite DEF SInv
    <3> QED
      BY <3>1, Zenon DEF TornEntry
  <2> QED
    BY <2>1, <2>2
<1> HIDE DEF loaded
<1>10. LoadedEntries'
  <2> SUFFICES ASSUME NEW u \in Workers, InFilterPixel(u), NEW k \in Entries,
                      k <= entry'[u]
               PROVE  TornEntry(i[u], k, pixels'[k])
    BY <1>2 DEF LoadedEntries, TornEntry
  <2>1. CASE k = k0
    BY <1>5, <1>9, <2>1
  <2>2. CASE k # k0
    <3>1. k <= entry[u]
      BY <1>4, <1>6, <2>2 DEF Entries
    <3>2. TornEntry(i[u], k, pixels[k])
      BY <3>1 DEF SInv, LoadedEntries
    <3> QED
      BY <1>5, <2>2, <3>2
  <2> QED
    BY <2>1, <2>2
<1>11. SummedEntries'
  <2> SUFFICES ASSUME NEW u \in Workers, InFilterPixel(u), NEW k \in Entries,
                      k + 9 <= entry'[u]
               PROVE  TornEntry(i[u], k, result[u][k])
    BY <1>1, <1>2 DEF SummedEntries, TornEntry
  <2>1. k + 9 <= entry[u]
    BY <1>1, <1>4, <1>6 DEF Entries
  <2> QED
    BY <2>1 DEF SInv, SummedEntries
<1>12. TornAtSamePosition'
  BY <1>1, <1>2 DEF SInv, TornAtSamePosition, TornEntry
<1> QED
  BY <1>2, <1>7, <1>8, <1>10, <1>11, <1>12 DEF SInv

LEMMA AddKeepsSInv ==
  ASSUME SInv, NEW t \in Workers, AddEntry(t)
  PROVE  SInv'
<1> DEFINE k0 == entry[t] - 8
<1>1. /\ UNCHANGED << vars, pixels, taps >> /\ InFilterPixel(t) /\ k0 \in Entries
      /\ result' = [result EXCEPT ![t][k0] = pixels[k0]]
      /\ entry' = [entry EXCEPT ![t] = @ + 1]
  BY DEF AddEntry
<1>2. /\ IInv' /\ \A u \in Workers : InFilterPixel(u)' <=> InFilterPixel(u)
      /\ UNCHANGED << i, pc, out, filter_hps_start >>
  BY <1>1, InsideKeepsThreads
<1>3. /\ pixels \in [Entries -> Int] /\ entry \in [Workers -> 0 .. 18]
      /\ result \in [Workers -> [Entries -> Int]]
      /\ \A u \in Workers : entry[u] \in 0 .. 18
  BY DEF SInv, StaticTypeOK
<1>4. /\ result'[t][k0] = pixels[k0]
      /\ \A u \in Workers, k \in Entries :
           ~(u = t /\ k = k0) => result'[u][k] = result[u][k]
  BY <1>1, <1>3
<1>5. entry'[t] = k0 + 9 /\ \A u \in Workers : u # t => entry'[u] = entry[u]
  BY <1>1, <1>3
<1>6. StaticTypeOK'
  <2>1. entry' \in [Workers -> 0 .. 18]
    BY <1>1, <1>3 DEF Entries
  <2>2. result' \in [Workers -> [Entries -> Int]]
    BY <1>1, <1>3
  <2> QED
    BY <1>1, <2>1, <2>2 DEF SInv, StaticTypeOK
<1>7. StartsWithFirstLoad'
  BY <1>1, <1>2, <1>5 DEF SInv, StartsWithFirstLoad
<1>8. LoadedEntries'
  <2> SUFFICES ASSUME NEW u \in Workers, InFilterPixel(u), NEW k \in Entries,
                      k <= entry'[u]
               PROVE  TornEntry(i[u], k, pixels[k])
    BY <1>1, <1>2 DEF LoadedEntries, TornEntry
  <2>1. k <= entry[u]
    BY <1>1, <1>3, <1>5 DEF Entries
  <2> QED
    BY <2>1 DEF SInv, LoadedEntries
<1>9. SummedEntries'
  <2> SUFFICES ASSUME NEW u \in Workers, InFilterPixel(u), NEW k \in Entries,
                      k + 9 <= entry'[u]
               PROVE  TornEntry(i[u], k, result'[u][k])
    BY <1>2 DEF SummedEntries, TornEntry
  <2>1. CASE u = t /\ k = k0
    <3>1. k <= entry[u]
      BY <1>1, <1>3, <2>1 DEF Entries
    <3>2. TornEntry(i[u], k, pixels[k])
      BY <3>1 DEF SInv, LoadedEntries
    <3> QED
      BY <1>4, <2>1, <3>2
  <2>2. CASE ~(u = t /\ k = k0)
    <3>1. k + 9 <= entry[u]
      BY <1>1, <1>3, <1>5, <2>2 DEF Entries
    <3>2. TornEntry(i[u], k, result[u][k])
      BY <3>1 DEF SInv, SummedEntries
    <3> QED
      BY <1>4, <2>2, <3>2
  <2> QED
    BY <2>1, <2>2
<1>10. TornAtSamePosition'
  BY <1>1, <1>2 DEF SInv, TornAtSamePosition, TornEntry
<1> QED
  BY <1>2, <1>6, <1>7, <1>8, <1>9, <1>10 DEF SInv

(* The value stored was summed up from nine entries of this window.        *)
LEMMA StoreKeepsSInv ==
  ASSUME SInv, NEW t \in Workers, StorePixel(t)
  PROVE  SInv'
<1>1. /\ entry[t] = 18 /\ InFilterPixel(t) /\ UNCHANGED pixels
      /\ out' = [out EXCEPT ![i[t]] = t] /\ i' = [i EXCEPT ![t] = @ + 1]
      /\ taps' = [taps EXCEPT ![i[t]] = result[t]]
      /\ entry' = [entry EXCEPT ![t] = 0]
      /\ result' = [result EXCEPT ![t] = Empty]
      /\ UNCHANGED << header, counts, unfiltered, num, pc >>
  BY DEF StorePixel, FilterNextPixel, InFilterPixel
<1>2. IInv'
  <2>1. [Next]_vars
    BY DEF StorePixel, Next
  <2> QED
    BY <2>1, StepIInv DEF SInv
<1>3. i[t] \in Pixels
  BY <1>1, CursorInHalf DEF SInv
<1>4. /\ entry \in [Workers -> 0 .. 18] /\ taps \in [Pixels -> [Entries -> Int]]
      /\ result \in [Workers -> [Entries -> Int]] /\ i \in [Workers -> 0 .. N]
      /\ out \in [Pixels -> Workers \union {Unfiltered}]
  BY DEF SInv, StaticTypeOK, IInv, TypeOK
<1>5. ASSUME NEW u \in Workers, u # t
      PROVE  /\ entry'[u] = entry[u] /\ result'[u] = result[u] /\ i'[u] = i[u]
             /\ InFilterPixel(u)' <=> InFilterPixel(u)
  BY <1>1, <1>4, <1>5 DEF InFilterPixel, StartIdx, header, counts
<1>6. entry'[t] = 0 /\ filter_hps_start' = filter_hps_start /\ pc' = pc
  BY <1>1, <1>4 DEF header
<1>7. StaticTypeOK'
  <2>1. Empty \in [Entries -> Int]
    BY DEF Empty
  <2>2. entry' \in [Workers -> 0 .. 18]
    BY <1>1, <1>4
  <2>3. result' \in [Workers -> [Entries -> Int]]
    BY <1>1, <1>4, <2>1
  <2>4. taps' \in [Pixels -> [Entries -> Int]]
    BY <1>1, <1>3, <1>4
  <2> QED
    BY <1>1, <2>2, <2>3, <2>4 DEF SInv, StaticTypeOK
<1>8. StartsWithFirstLoad'
  BY <1>5, <1>6 DEF SInv, StartsWithFirstLoad
<1>9. LoadedEntries'
  <2> SUFFICES ASSUME NEW u \in Workers, InFilterPixel(u)', NEW k \in Entries,
                      k <= entry'[u]
               PROVE  TornEntry(i[u], k, pixels[k])'
    BY DEF LoadedEntries
  <2>1. u # t
    BY <1>6 DEF Entries
  <2>2. TornEntry(i[u], k, pixels[k])
    BY <1>5, <2>1 DEF SInv, LoadedEntries
  <2> QED
    BY <1>1, <1>5, <1>6, <2>1, <2>2 DEF TornEntry
<1>10. SummedEntries'
  <2> SUFFICES ASSUME NEW u \in Workers, InFilterPixel(u)', NEW k \in Entries,
                      k + 9 <= entry'[u]
               PROVE  TornEntry(i[u], k, result[u][k])'
    BY DEF SummedEntries
  <2>1. u # t
    BY <1>6 DEF Entries
  <2>2. TornEntry(i[u], k, result[u][k])
    BY <1>5, <2>1 DEF SInv, SummedEntries
  <2> QED
    BY <1>5, <1>6, <2>1, <2>2 DEF TornEntry
<1>11. TornAtSamePosition'
  <2> SUFFICES ASSUME NEW p \in Pixels, out'[p] # Unfiltered, NEW k \in Entries
               PROVE  TornEntry(p, k, taps[p][k])'
    BY DEF TornAtSamePosition
  <2>1. CASE p = i[t]
    <3>1. taps'[p] = result[t]
      BY <1>1, <1>3, <1>4, <2>1
    <3>2. TornEntry(p, k, result[t][k])
      BY <1>1, <2>1 DEF SInv, SummedEntries, Entries
    <3> QED
      BY <1>6, <3>1, <3>2 DEF TornEntry
  <2>2. CASE p # i[t]
    <3>1. taps'[p] = taps[p] /\ out'[p] = out[p]
      BY <1>1, <1>3, <1>4, <2>2
    <3>2. TornEntry(p, k, taps[p][k])
      BY <3>1 DEF SInv, TornAtSamePosition
    <3> QED
      BY <1>6, <3>1, <3>2 DEF TornEntry
  <2> QED
    BY <2>1, <2>2
<1> QED
  BY <1>2, <1>7, <1>8, <1>9, <1>10, <1>11 DEF SInv

LEMMA StaticInvariance == StaticSpec => []SInv
<1>1. SInv /\ StaticNext => SInv'
  BY ControlKeepsSInv, LoadKeepsSInv, AddKeepsSInv, StoreKeepsSInv DEF StaticNext
<1>2. SInv /\ UNCHANGED << vars, staticVars >> => SInv'
  <2> SUFFICES ASSUME SInv, UNCHANGED << vars, staticVars >> PROVE SInv'
    OBVIOUS
  <2>1. /\ IInv' /\ \A u \in Workers : InFilterPixel(u)' <=> InFilterPixel(u)
        /\ UNCHANGED << i, pc, out, filter_hps_start >>
    BY InsideKeepsThreads
  <2>2. UNCHANGED << pixels, entry, result, taps >>
    BY DEF staticVars
  <2> QED
    BY <2>1, <2>2 DEF SInv, StaticTypeOK, StartsWithFirstLoad, LoadedEntries,
       SummedEntries, TornAtSamePosition, TornEntry
<1> QED
  BY StaticInitInv, <1>1, <1>2, PTL DEF StaticSpec

(* Two threads in filter_pixel at once can only mix the entry of one       *)
(* window with the entry of the same position of a window of the other     *)
(* half, and every one of the nine was loaded.                             *)
THEOREM RaceIsBounded == StaticSpec => []TornAtSamePosition
<1>1. SInv => TornAtSamePosition
  BY DEF SInv
<1> QED
  BY <1>1, StaticInvariance, PTL

(* With the whole image on one side of the split the values are right: the *)
(* race on pixels[9] needs pixels of both halves.                          *)
THEOREM OneProcessorIsExact == StaticSpec => []OneProcessorExact
<1>1. SInv => OneProcessorExact
  <2> SUFFICES ASSUME SInv, filter_hps_start \in {0, N},
                      NEW p \in Pixels, out[p] # Unfiltered
               PROVE  taps[p] = FilterWindow(p, W, H)
    BY DEF OneProcessorExact, OwnNeighbourhood, N, NumPixels
  <2>1. ASSUME NEW k \in Entries PROVE taps[p][k] = FilterWindow(p, W, H)[k]
    <3>1. TornEntry(p, k, taps[p][k])
      BY DEF SInv, TornAtSamePosition
    <3>2. \A q \in Pixels : (q < filter_hps_start) = (p < filter_hps_start)
      BY ImageSize
    <3> QED
      BY <3>1, <3>2 DEF TornEntry
  <2>2. taps[p] \in [Entries -> Int] /\ FilterWindow(p, W, H) \in [Entries -> Int]
    BY WindowType DEF SInv, StaticTypeOK
  <2> QED
    BY <2>1, <2>2
<1> QED
  BY <1>1, StaticInvariance, PTL
=============================================================================
