----------------------------- MODULE BootProofs -----------------------------
(***************************************************************************)
(* Proofs about the boot, for any number of runs of the HPS program, each  *)
(* started at any moment, and files of any length.                         *)
(***************************************************************************)
EXTENDS Boot, TLAPS

LEMMA FilesAreSequences ==
  ASSUME NEW f \in Files
  PROVE  f \in Seq(Tokens)
<1>1. PICK k \in 0 .. MaxTokens : f \in [1 .. k -> Tokens]
  BY DEF Files
<1> QED
  BY <1>1, LoaderAssumption

LEMMA EmptyFile == << >> \in Files /\ << >> \in Seq(Tokens)
<1>1. << >> \in [1 .. 0 -> Tokens]
  OBVIOUS
<1>2. 0 \in 0 .. MaxTokens
  BY LoaderAssumption
<1> QED
  BY <1>1, <1>2 DEF Files

LEMMA InitIInv == Init => IInv
<1> SUFFICES ASSUME Init PROVE IInv
    OBVIOUS
<1>1. pio \in Values /\ ack \in Values
  BY DEF Init, Plain, Values, Contents
<1>2. runs \in 0 .. MaxRuns
  BY StartAssumption DEF Init
<1>3. mapped \subseteq Contents /\ early \in BOOLEAN /\ acked \in BOOLEAN
  BY DEF Init
<1>4. file \in Files /\ rest \in Seq(Tokens) /\ count = 0
  BY EmptyFile DEF Init
<1>5. image \in ImageRecords
  BY DEF Init, NoImage, ImageRecords
<1>6. TypeOK
  BY <1>1, <1>2, <1>3, <1>4, <1>5 DEF Init, TypeOK, Contents
<1> QED
  BY <1>6 DEF Init, IInv, LateRunsSeeOffset, ReadSoFarIsWidth

(* The handshake: nothing the loader uses changes.                         *)
LEMMA HandshakeStep ==
  ASSUME IInv, NiosMain \/ NiosDisplay \/ HpsStart \/ HpsKilled
           \/ HpsMap \/ HpsFails \/ HpsReadAgain \/ HpsAcknowledge
  PROVE  IInv'
<1> USE DEF IInv, TypeOK, LateRunsSeeOffset,
        OffsetWithOrWithoutMask, Plain, HANDSHAKE_VAL_CALC, Values, Contents,
        niosVars, hpsVars, loaderVars, ReadSoFarIsWidth, AllNumbers
<1>1. CASE NiosBanner
  BY <1>1 DEF NiosBanner, NiosMove
<1>2. CASE NiosPublish
  BY <1>2 DEF NiosPublish, NiosMove
<1>3. CASE NiosConfirmed
  BY <1>3 DEF NiosConfirmed, NiosMove
<1>4. CASE NiosClear
  BY <1>4 DEF NiosClear, NiosMove
<1>5. CASE NiosDisplay
  BY <1>5 DEF NiosDisplay
<1>6. CASE HpsStart
  <2>1. early' \in BOOLEAN /\ runs' \in 0 .. MaxRuns
    BY <1>6, StartAssumption DEF HpsStart
  <2>2. nios \in {"boot", "publish"} => early'
    BY <1>6 DEF HpsStart
  <2>3. hps' = "locate" /\ UNCHANGED << pio, nios, shared, ack, mapped, acked,
                                        file, rest, count, image >>
    BY <1>6 DEF HpsStart
  <2> QED
    BY <2>1, <2>2, <2>3
<1>7. CASE HpsFails \/ HpsKilled
  BY <1>7 DEF HpsFails, HpsKilled
<1>8. CASE HpsMap
  BY <1>8 DEF HpsMap, PageAligned
<1>9. CASE HpsReadAgain
  BY <1>9 DEF HpsReadAgain
<1>10. CASE HpsAcknowledge
  BY <1>10 DEF HpsAcknowledge
<1> QED
  BY <1>1, <1>2, <1>3, <1>4, <1>5, <1>6, <1>7, <1>8, <1>9, <1>10 DEF NiosMain

(* The loader: nothing of the handshake changes, but for where the HPS is. *)
LEMMA LoaderStep ==
  ASSUME IInv, HpsOpen \/ HpsOpenFails \/ ReadNumber \/ DiscardLine \/ EndOfFile
  PROVE  IInv'
<1>1. /\ UNCHANGED hsVars
      /\ hps \in {"open", "load"} /\ hps' \in {"off", "load", "returned"}
  BY DEF HpsOpen, HpsOpenFails, ReadNumber, DiscardLine, EndOfFile, AtNumber,
         AtText, AtEnd
<1>2. LateRunsSeeOffset'
  BY <1>1 DEF IInv, LateRunsSeeOffset, hsVars, niosVars
<1>3. file \in Seq(Tokens) /\ rest \in Seq(Tokens) /\ image \in ImageRecords
      /\ count = 0
  BY FilesAreSequences DEF IInv, TypeOK
<1>4. /\ file' \in Files /\ rest' \in Seq(Tokens) /\ count' = 0
      /\ image' \in ImageRecords
      /\ ReadSoFarIsWidth'
  <2>1. CASE HpsOpen
    <3>1. file' \in Files /\ file' \in Seq(Tokens) /\ rest' = file' /\ image' = image
      BY <2>1, FilesAreSequences DEF HpsOpen
    <3> QED
      BY <2>1, <3>1, <1>3 DEF HpsOpen, ReadSoFarIsWidth
  <2>2. CASE HpsOpenFails
    BY <2>2, <1>3 DEF HpsOpenFails, loaderVars, IInv, TypeOK, ReadSoFarIsWidth
  <2>3. CASE ReadNumber
    <3>1. rest # << >> /\ Head(rest) \in Numbers /\ Head(rest) = rest[1]
      BY <2>3, <1>3 DEF ReadNumber, AtNumber, Tokens
    <3>2. image' = IF shared = "offset"
                   THEN [image EXCEPT !.image_w = Head(rest)] ELSE image
      BY <2>3, <1>3 DEF ReadNumber, WriteImage
    <3>3. image' \in ImageRecords
      BY <3>1, <3>2, <1>3 DEF ImageRecords
    <3>4. file' = file /\ rest' = Tail(rest) /\ count' = count /\ shared' = shared
          /\ hps = "load"
      BY <2>3 DEF ReadNumber, hsVars, AtNumber
    <3>5. rest' \in Seq(Tokens) /\ Len(rest') = Len(rest) - 1
          /\ \A j \in 1 .. Len(rest') : rest'[j] = rest[j + 1]
      BY <3>1, <3>4, <1>3
    <3>6. ReadSoFarIsWidth'
      <4> SUFFICES ASSUME AllNumbers'
                   PROVE  /\ Len(rest') <= Len(file)
                          /\ \A j \in 1 .. Len(rest') :
                               rest'[j] = file[Len(file) - Len(rest') + j]
                          /\ shared = "offset" =>
                               image'.image_w = file[Len(file) - Len(rest')]
        BY <3>4 DEF ReadSoFarIsWidth
      <4>1. /\ Len(rest) <= Len(file)
            /\ \A j \in 1 .. Len(rest) :
                 rest[j] = file[Len(file) - Len(rest) + j]
        BY <3>4 DEF IInv, ReadSoFarIsWidth, AllNumbers
      <4>2. Len(rest) \in Nat /\ Len(file) \in Nat /\ Len(rest) > 0
        BY <3>1, <1>3
      <4>3. Len(rest') <= Len(file)
        BY <4>1, <4>2, <3>5
      <4>4. ASSUME NEW j \in 1 .. Len(rest')
            PROVE  rest'[j] = file[Len(file) - Len(rest') + j]
        <5>1. j + 1 \in 1 .. Len(rest) /\ rest'[j] = rest[j + 1]
          BY <3>5, <4>2
        <5>2. Len(file) - Len(rest) + (j + 1) = Len(file) - Len(rest') + j
          BY <3>5, <4>2
        <5> QED
          BY <5>1, <5>2, <4>1
      <4>5. ASSUME shared = "offset"
            PROVE  image'.image_w = file[Len(file) - Len(rest')]
        <5>1. rest[1] = file[Len(file) - Len(rest) + 1]
          BY <4>1, <4>2
        <5>2. Len(file) - Len(rest) + 1 = Len(file) - Len(rest')
          BY <3>5, <4>2
        <5>3. image'.image_w = rest[1]
          BY <4>5, <3>1, <3>2, <1>3 DEF ImageRecords
        <5> QED
          BY <5>1, <5>2, <5>3
      <4> QED
        BY <4>3, <4>4, <4>5
    <3> QED
      BY <3>3, <3>4, <3>5, <3>6, <1>3 DEF IInv, TypeOK
  <2>4. CASE DiscardLine
    <3>1. PICK k \in 1 .. Len(rest) : rest' = SubSeq(rest, k + 1, Len(rest))
      BY <2>4 DEF DiscardLine
    <3>2. rest' \in Seq(Tokens)
      BY <3>1, <1>3
    <3>3. file' = file /\ count' = count /\ image' = image /\ shared' = shared
          /\ hps = "load"
      BY <2>4 DEF DiscardLine, hsVars, AtText
    <3>4. ReadSoFarIsWidth'
      <4> SUFFICES ASSUME AllNumbers PROVE FALSE
        BY <3>3 DEF ReadSoFarIsWidth, AllNumbers
      <4>1. rest # << >> /\ rest[1] = Bad
        BY <2>4, <1>3 DEF DiscardLine, AtText
      <4>2. /\ Len(rest) <= Len(file)
            /\ rest[1] = file[Len(file) - Len(rest) + 1]
        <5>1. 1 \in 1 .. Len(rest)
          BY <4>1, <1>3
        <5> QED
          BY <5>1, <3>3 DEF IInv, ReadSoFarIsWidth
      <4>3. Len(file) - Len(rest) + 1 \in DOMAIN file
        BY <4>1, <4>2, <1>3
      <4> QED
        BY <4>1, <4>2, <4>3 DEF AllNumbers
    <3> QED
      BY <3>2, <3>3, <3>4, <1>3 DEF IInv, TypeOK
  <2>5. CASE EndOfFile
    <3>1. PICK p \in Percentages :
            WriteImage([image EXCEPT !.filter_hps_start =
                          image.image_h * image.image_w * p])
      BY <2>5 DEF EndOfFile
    <3>2. image.image_h = 0 /\ image.image_w \in Nat /\ p \in Nat
      <4>1. image.image_h = 0 /\ image.image_w \in Numbers \union {0}
        BY <1>3 DEF ImageRecords
      <4>2. Numbers \union {0} \subseteq Nat /\ p \in Nat
        BY LoaderAssumption
      <4> QED
        BY <4>2, <4>1
    <3>3. image.image_h * image.image_w * p = 0
      BY <3>2
    <3>4. image' \in ImageRecords
      BY <3>1, <3>3, <1>3 DEF WriteImage, ImageRecords
    <3> QED
      BY <2>5, <3>4, <1>3 DEF EndOfFile, IInv, TypeOK, ReadSoFarIsWidth
  <2> QED
    BY <2>1, <2>2, <2>3, <2>4, <2>5
<1>5. TypeOK'
  BY <1>1, <1>4 DEF IInv, TypeOK, hsVars, niosVars
<1> QED
  BY <1>2, <1>4, <1>5 DEF IInv

LEMMA StepIInv == IInv /\ [Next]_vars => IInv'
<1> SUFFICES ASSUME IInv, [Next]_vars PROVE IInv'
    OBVIOUS
<1>1. CASE UNCHANGED vars
  BY <1>1 DEF vars, niosVars, hpsVars, loaderVars, IInv, TypeOK,
     LateRunsSeeOffset, ReadSoFarIsWidth, AllNumbers
<1> QED
  BY <1>1, HandshakeStep, LoaderStep DEF Next, HpsMain

(* The invariant holds whenever the HPS program is started or killed.      *)
THEOREM BootInvariance == Spec => []IInv
  BY InitIInv, StepIInv, PTL DEF Spec

(* A run started after the publication writes into the register, while the *)
(* Nios waits, nothing but the value it waits for, and has mapped the      *)
(* address the Nios published, although the HPS computes the value from a  *)
(* second read of the register (main.c:64-77 of the HPS), and whatever     *)
(* runs before it, early ones among them, have left in the register.       *)
THEOREM NoDisturbance == Spec => WaitNotDisturbed
<1>1. ASSUME IInv, [Next]_vars
      PROVE  [nios = "wait" /\ pio' # pio /\ ~ early =>
                pio' = HANDSHAKE_VAL_CALC(Plain("offset"))
                  /\ shared = "offset"]_vars
  <2> SUFFICES ASSUME nios = "wait", pio' # pio, ~ early
               PROVE  pio' = HANDSHAKE_VAL_CALC(Plain("offset"))
                        /\ shared = "offset"
    OBVIOUS
  <2>1. HpsAcknowledge
    BY <1>1 DEF Next, vars, niosVars, hpsVars, NiosMain, HpsMain, NiosMove,
       NiosBanner, NiosPublish, NiosConfirmed, NiosClear, NiosDisplay,
       HpsStart, HpsKilled, HpsMap, HpsFails, HpsReadAgain, HpsOpen,
       HpsOpenFails, ReadNumber, DiscardLine, EndOfFile, hsVars
  <2>2. hps = "write" /\ pio' = HANDSHAKE_VAL_CALC(ack)
    BY <2>1 DEF HpsAcknowledge
  <2>3. shared = "offset" /\ ack \in OffsetWithOrWithoutMask
    BY <1>1, <2>2 DEF IInv, LateRunsSeeOffset
  <2> QED
    BY <2>2, <2>3 DEF OffsetWithOrWithoutMask, HANDSHAKE_VAL_CALC, Plain
<1> QED
  BY <1>1, BootInvariance, PTL DEF Spec, WaitNotDisturbed

(* The variables of both programs and the fields of shared_data keep their *)
(* ranges: in particular the HPS writes no height, no pixel and no split   *)
(* but 0 (main.c:99-118 of the HPS).                                       *)
THEOREM BootTypeCorrect == Spec => []TypeOK
<1>1. IInv => TypeOK
  BY DEF IInv
<1> QED
  BY <1>1, BootInvariance, PTL

(* A file of numbers, of any length, leaves its last number in image_w     *)
(* (main.c:90-102 of the HPS), and not its first.                          *)
THEOREM WidthIsLast == Spec => []LastNumberIsWidth
<1>1. IInv => LastNumberIsWidth
  <2> SUFFICES ASSUME IInv, AtEnd, shared = "offset", file # << >>, AllNumbers
               PROVE  image.image_w = file[Len(file)]
    BY DEF LastNumberIsWidth
  <2>1. file \in Seq(Tokens) /\ Len(rest) = 0
    BY FilesAreSequences DEF IInv, TypeOK, AtEnd
  <2>2. Len(file) \in Nat /\ Len(file) > 0
    BY <2>1
  <2>3. image.image_w = file[Len(file) - Len(rest)]
    BY <2>1, <2>2 DEF IInv, ReadSoFarIsWidth, AtEnd
  <2> QED
    BY <2>1, <2>2, <2>3
<1> QED
  BY <1>1, BootInvariance, PTL
============================================================================
