------------------------------- MODULE Boot -------------------------------
(***************************************************************************)
(* The boot of the board: the initial handshake of the Nios (Proyecto1/    *)
(* main.c) with the program on the HPS (hard_core_cpu/src/main.c), and the *)
(* loader of the input file, which is the rest of that program.            *)
(*                                                                         *)
(* The Nios tells the HPS where shared_data is through the register of the *)
(* seven segment display, the one register both processors can reach, and  *)
(* waits until the HPS has or-ed a magic mask into it.  The HPS program is *)
(* started by hand, at any moment: nothing makes it wait for the Nios.  It *)
(* may be killed and started again.                                        *)
(*                                                                         *)
(* A value of the register is what its upper bits say and whether the bits *)
(* of MAGIC_HANDSHAKE_MASK (0x420) are set:                                *)
(*   "zero"    0x000000, the value after reset and after the handshake     *)
(*   "banner"  0xFAFAFA                                                    *)
(*   "offset"  the page-aligned offset of shared_data, not 0 because the   *)
(*             linker puts the program before it                           *)
(*   "digits"  a key or a pixel the Nios displays after the handshake      *)
(*                                                                         *)
(* A file is the sequence of its tokens: numbers, and text that is none.   *)
(* What follows the first return of the HPS program (line 121: setting     *)
(* image_copy_done, starting the filter thread, saving the image) is never *)
(* reached, so it is no action of this module.                             *)
(***************************************************************************)
EXTENDS Integers, Sequences, TLC

CONSTANTS
  MaxRuns,     \* bound: how often the HPS program is started
  Numbers,     \* the numbers files hold
  Bad,         \* text that is no number
  MaxTokens,   \* bound: the tokens of a file
  Percentages  \* nios_processing_percentage, from the command line

ASSUME StartAssumption == MaxRuns \in Nat

ASSUME LoaderAssumption ==
  /\ Numbers \subseteq Nat /\ Bad \notin Numbers
  /\ MaxTokens \in Nat
  /\ Percentages \subseteq Nat

Contents == {"zero", "banner", "offset", "digits"}
Values == [content : Contents, magic : BOOLEAN]

Plain(c) == [content |-> c, magic |-> FALSE]

HANDSHAKE_VAL_CALC(v) == [v EXCEPT !.magic = TRUE]

Tokens == Numbers \union {Bad}
Files == UNION {[1 .. k -> Tokens] : k \in 0 .. MaxTokens}

VARIABLES
  pio,       \* the data register of PIO_7SEG
  nios,      \* where the main of the Nios is
  hps,       \* where the program on the HPS is
  runs,      \* how often it was started
  shared,    \* HPS: the address shared_data is mapped at
  ack,       \* HPS: the value read from the register to or the mask into
  mapped,    \* what runs of the HPS program have mapped as shared_data
  early,     \* history: the present run was started before the Nios had
             \* published the offset
  acked,     \* history: a run that was not has written its acknowledgement
  file,      \* HPS: the input file
  rest,      \* HPS: what fscanf has not read of it
  count,     \* HPS: count, never assigned after its declaration
  image      \* the image fields of shared_data

niosVars == << nios >>
loaderVars == << file, rest, count, image >>
hpsVars == << hps, runs, shared, ack, mapped, early, acked, loaderVars >>
vars == << pio, niosVars, hpsVars >>

(* The Nios clears shared_data before its main.                            *)
NoImage == [image_w |-> 0, image_h |-> 0, image_encrypted |-> << >>,
            filter_hps_start |-> 0, image_copy_done |-> FALSE]

Init ==
  /\ pio = Plain("zero")
  /\ nios = "boot"
  /\ hps = "off"
  /\ runs = 0
  /\ shared = "zero"
  /\ ack = Plain("zero")
  /\ mapped = {}
  /\ early = FALSE
  /\ acked = FALSE
  /\ file = << >>
  /\ rest = << >>
  /\ count = 0
  /\ image = NoImage
----------------------------------------------------------------------------
NiosMove(from, to) == nios = from /\ nios' = to

NiosBanner ==
  /\ NiosMove("boot", "publish")
  /\ pio' = Plain("banner")
  /\ UNCHANGED hpsVars

NiosPublish ==
  /\ NiosMove("publish", "wait")
  /\ pio' = Plain("offset")
  /\ UNCHANGED hpsVars

(* The polling loop ends when it reads the value the HPS should write.     *)
NiosConfirmed ==
  /\ pio = HANDSHAKE_VAL_CALC(Plain("offset"))
  /\ NiosMove("wait", "confirmed")
  /\ UNCHANGED << pio, hpsVars >>

NiosClear ==
  /\ NiosMove("confirmed", "running")
  /\ pio' = Plain("zero")
  /\ UNCHANGED hpsVars

(* From here on the handlers of the Nios use the register as a display.    *)
NiosDisplay ==
  /\ nios = "running"
  /\ \E m \in BOOLEAN : pio' = [content |-> "digits", magic |-> m]
  /\ UNCHANGED << nios, hpsVars >>
----------------------------------------------------------------------------
(* The user starts the program, which opens /dev/mem and maps the register.*)
HpsStart ==
  /\ hps \in {"off", "returned"}
  /\ runs < MaxRuns
  /\ early' = (nios \in {"boot", "publish"})
  /\ runs' = runs + 1
  /\ hps' = "locate"
  /\ UNCHANGED << pio, niosVars, shared, ack, mapped, acked, loaderVars >>

(* open or mmap fails: the program returns 1.  mmap refuses an address     *)
(* that is not page-aligned.                                               *)
HpsFails ==
  /\ hps = "locate"
  /\ hps' = "off"
  /\ UNCHANGED << pio, niosVars, runs, shared, ack, mapped, early, acked, loaderVars >>

(* The user, or the shell, ends the program between any two of its steps.  *)
HpsKilled ==
  /\ hps \notin {"off", "returned"}
  /\ hps' = "off"
  /\ UNCHANGED << pio, niosVars, runs, shared, ack, mapped, early, acked, loaderVars >>

PageAligned(v) ==
  ~ v.magic /\ v.content \in {"zero", "offset", "digits"}

(* The first read of the register: where to map shared_data.               *)
HpsMap ==
  /\ hps = "locate"
  /\ PageAligned(pio)
  /\ shared' = pio.content
  /\ mapped' = mapped \union {pio.content}
  /\ hps' = "read"
  /\ UNCHANGED << pio, niosVars, runs, ack, early, acked, loaderVars >>

(* The acknowledgement reads the register a second time ...                *)
HpsReadAgain ==
  /\ hps = "read"
  /\ ack' = pio
  /\ hps' = "write"
  /\ UNCHANGED << pio, niosVars, runs, shared, mapped, early, acked, loaderVars >>

(* Mutants of HpsAcknowledge: the mask is left out; the mask alone.        *)
HpsAcknowledgeNoMask ==
  /\ hps = "write"
  /\ pio' = ack
  /\ acked' = (acked \/ ~ early)
  /\ hps' = "open"
  /\ UNCHANGED << niosVars, runs, shared, ack, mapped, early, loaderVars >>

HpsAcknowledgeMaskOnly ==
  /\ hps = "write"
  /\ pio' = HANDSHAKE_VAL_CALC(Plain("zero"))
  /\ acked' = (acked \/ ~ early)
  /\ hps' = "open"
  /\ UNCHANGED << niosVars, runs, shared, ack, mapped, early, loaderVars >>

(* ... and writes it back with the mask.                                   *)
HpsAcknowledge ==
  /\ hps = "write"
  /\ pio' = HANDSHAKE_VAL_CALC(ack)
  /\ acked' = (acked \/ ~ early)
  /\ hps' = "open"
  /\ UNCHANGED << niosVars, runs, shared, ack, mapped, early, loaderVars >>

----------------------------------------------------------------------------
hsVars == << pio, niosVars, runs, shared, ack, mapped, early, acked >>

(* fopen of the file named on the command line.                            *)
HpsOpen ==
  /\ hps = "open"
  /\ hps' = "load"
  /\ file' \in Files
  /\ rest' = file'
  /\ count' = 0
  /\ UNCHANGED << hsVars, image >>

HpsOpenFails ==
  /\ hps = "open"
  /\ hps' = "off"
  /\ UNCHANGED << hsVars, loaderVars >>

(* A write to the shared_data the HPS has mapped: elsewhere it hits other  *)
(* memory than the image.                                                  *)
WriteImage(new) == image' = IF shared = "offset" THEN new ELSE image

AtNumber == hps = "load" /\ rest # << >> /\ Head(rest) # Bad
AtText   == hps = "load" /\ rest # << >> /\ Head(rest) = Bad
AtEnd    == hps = "load" /\ rest = << >>

(* A number goes where count says: the width, the height or a pixel; both  *)
(* of the first go on without counting.                                    *)
ReadNumber ==
  /\ AtNumber
  /\ WriteImage(
       CASE count = 0 -> [image EXCEPT !.image_w = Head(rest)]
         [] count = 1 -> [image EXCEPT !.image_h = Head(rest)]
         [] OTHER     -> [image EXCEPT !.image_encrypted =
                            (count - 2 :> Head(rest)) @@ @])
  /\ rest' = Tail(rest)
  /\ UNCHANGED << hsVars, hps, file, count >>

(* Mutant of DiscardLine: fgets is left out.                               *)
DiscardNothing ==
  /\ AtText
  /\ UNCHANGED vars

(* fgets discards the line from the text on, which may hold more tokens.   *)
DiscardLine ==
  /\ AtText
  /\ \E k \in 1 .. Len(rest) : rest' = SubSeq(rest, k + 1, Len(rest))
  /\ UNCHANGED << hsVars, hps, file, count, image >>

(* The end of the file: the split between the processors, and return 0.    *)
EndOfFile ==
  /\ AtEnd
  /\ \E nios_processing_percentage \in Percentages :
       WriteImage([image EXCEPT !.filter_hps_start =
         image.image_h * image.image_w * nios_processing_percentage])
  /\ hps' = "returned"
  /\ UNCHANGED << hsVars, file, rest, count >>
----------------------------------------------------------------------------
NiosMain == NiosBanner \/ NiosPublish \/ NiosConfirmed \/ NiosClear

HpsMain ==
  \/ HpsMap \/ HpsFails \/ HpsReadAgain \/ HpsAcknowledge
  \/ HpsOpen \/ HpsOpenFails \/ ReadNumber \/ DiscardLine \/ EndOfFile

Next == NiosMain \/ NiosDisplay \/ HpsStart \/ HpsKilled \/ HpsMain

(* Both processors run; nobody has to start the HPS program.               *)
Spec == Init /\ [][Next]_vars

FairSpec == Spec /\ WF_vars(NiosMain) /\ WF_vars(HpsMain)
----------------------------------------------------------------------------
ImageRecords ==
  [image_w : Numbers \union {0}, image_h : {0}, image_encrypted : {<< >>},
   filter_hps_start : {0}, image_copy_done : {FALSE}]

TypeOK ==
  /\ pio \in Values
  /\ nios \in {"boot", "publish", "wait", "confirmed", "running"}
  /\ hps \in {"off", "locate", "read", "write", "open", "load", "returned"}
  /\ runs \in 0 .. MaxRuns
  /\ shared \in Contents
  /\ ack \in Values
  /\ mapped \subseteq Contents
  /\ early \in BOOLEAN /\ acked \in BOOLEAN
  /\ file \in Files
  /\ rest \in Seq(Tokens)
  /\ count = 0
  /\ image \in ImageRecords

(* main.c:228 of the Nios: it waits "a que el HPS confirme que recibio la  *)
(* direccion": past the handshake, the HPS has mapped shared_data at the   *)
(* address the Nios published.  A run that was started early may map what  *)
(* the register held after reset and acknowledge, with its second read,    *)
(* the offset it never mapped.                                             *)
ConfirmedByReader ==
  nios \in {"confirmed", "running"} => "offset" \in mapped

(* main.c:76 of the HPS: the handshake tells the Nios "que ya se puede     *)
(* seguir": once a run started after the publication has written its       *)
(* acknowledgement the Nios goes on, whatever earlier runs, early ones     *)
(* among them, have left in the register.                                  *)
HandshakeCompletes == acked ~> nios = "running"

(* main.c:228 of the Nios, for the runs of which it is true: a run started *)
(* after the publication changes the register while the Nios waits only to *)
(* the value the Nios waits for, and only after it has mapped shared_data  *)
(* where the Nios has it, whatever earlier runs have left behind.          *)
WaitNotDisturbed ==
  [][nios = "wait" /\ pio' # pio /\ ~ early =>
       pio' = HANDSHAKE_VAL_CALC(Plain("offset")) /\ shared = "offset"]_vars

(* Bad text never keeps the loop from ending, wherever the lines end.      *)
LoaderReturns == hps = "load" ~> hps # "load"

AllNumbers == \A j \in DOMAIN file : file[j] # Bad

(* When no text is bad, the width is the last number of the file, pixel or *)
(* not, because count stays 0: whatever earlier runs have left there.      *)
LastNumberIsWidth ==
  AtEnd /\ shared = "offset" /\ file # << >> /\ AllNumbers =>
    image.image_w = file[Len(file)]

(* main.c:81 of the HPS, "copia contenidos del archivo a sdram", and :123, *)
(* "setea image_copy_done": a run that has mapped shared_data and returns  *)
(* 0 has copied its file, width, height and pixels, and told the Nios.     *)
ImageHandedOver ==
  hps = "returned" /\ shared = "offset" /\ Len(file) > 2 /\ AllNumbers =>
    /\ image.image_w = file[1]
    /\ image.image_h = file[2]
    /\ DOMAIN image.image_encrypted = 0 .. Len(file) - 3
    /\ \A j \in 3 .. Len(file) : image.image_encrypted[j - 3] = file[j]
    /\ image.image_copy_done
----------------------------------------------------------------------------
(* The inductive invariant.  While the Nios waits, the register holds the  *)
(* offset unless the mask is in it, whoever wrote it: so a run started     *)
(* after the publication either finds the offset and maps it, or finds a   *)
(* value mmap refuses.                                                     *)
OffsetWithOrWithoutMask ==
  {Plain("offset"), HANDSHAKE_VAL_CALC(Plain("offset"))}

LateRunsSeeOffset ==
  /\ nios \in {"boot", "publish"} /\ hps \notin {"off", "returned"} => early
  /\ nios = "wait" =>
       /\ ~ pio.magic => pio = Plain("offset")
       /\ ~ early /\ hps = "read" =>
            shared = "offset" /\ pio \in OffsetWithOrWithoutMask
       /\ ~ early /\ hps = "write" =>
            shared = "offset" /\ ack \in OffsetWithOrWithoutMask

(* While the loader reads a file of numbers, what it has read is what      *)
(* rest leaves out, and the last of it is the width.                       *)
ReadSoFarIsWidth ==
  hps = "load" /\ AllNumbers =>
    /\ Len(rest) <= Len(file)
    /\ \A j \in 1 .. Len(rest) : rest[j] = file[Len(file) - Len(rest) + j]
    /\ shared = "offset" /\ Len(rest) < Len(file) =>
         image.image_w = file[Len(file) - Len(rest)]

IInv == TypeOK /\ LateRunsSeeOffset /\ ReadSoFarIsWidth
============================================================================
