--------------------------- MODULE JtagUartProofs ---------------------------
(***************************************************************************)
(* The driver of the JTAG UART implements ByteStream in both directions,   *)
(* for every size of the buffers and of the FIFOs: without a critical      *)
(* section no byte is lost, repeated or overtaken, wherever the interrupt  *)
(* routine comes between two steps of a call and whatever the host does.   *)
(***************************************************************************)
EXTENDS JtagUart, SequenceTheorems, TLAPS

Cells == 0 .. BufLen - 1

(* The remainders of the ring written without division: the bytes a ring   *)
(* holds and the cell of one of them.                                      *)
Held(out, in) == IF in >= out THEN in - out ELSE in - out + BufLen
Cell(out, k) == IF out + k < BufLen THEN out + k ELSE out + k - BufLen

Types ==
  /\ rxFifo \in Seq(Nat) /\ txFifo \in Seq(Nat)
  /\ rx_in \in Cells /\ rx_out \in Cells /\ rx_buf \in [Cells -> Nat]
  /\ tx_in \in Cells /\ tx_out \in Cells /\ tx_buf \in [Cells -> Nat]
  /\ control \in [wi : BOOLEAN, space : Nat]
  /\ count \in Nat /\ n \in Nat
  /\ txSent \in Nat /\ rxSent \in Nat

(* The space the interrupt routine has left is there: the host only takes  *)
(* bytes out of the transmit FIFO.                                         *)
SpaceIsThere == control.space + Len(txFifo) <= Depth /\ Len(rxFifo) <= Depth

(* What write_look measured is still free when the bytes are copied and    *)
(* when they are published, for the interrupt routine only frees cells.    *)
RoomToWrite ==
  pc \in {"w_copy", "w_publish"} =>
    /\ n > 0 /\ n <= count
    /\ n + Held(tx_out, tx_in) < BufLen
    /\ tx_in + n <= BufLen

Copied ==
  pc = "w_publish" => \A k \in 0 .. n - 1 : tx_buf[tx_in + k] = txSent + k

(* What read_look measured is still there, and was not overwritten.        *)
BytesToRead ==
  pc \in {"r_copy", "r_publish"} =>
    /\ n > 0 /\ n <= count
    /\ n <= Held(rx_out, rx_in)
    /\ rx_out + n <= BufLen

Taken ==
  pc = "r_publish" => chunk = [j \in 1 .. n |-> rx_buf[rx_out + j - 1]]

IInv ==
  /\ Types
  /\ SpaceIsThere
  /\ RoomToWrite
  /\ Copied
  /\ BytesToRead
  /\ Taken
-----------------------------------------------------------------------------
LEMMA Size == BufLen \in Nat /\ BufLen > 1 /\ Depth \in Nat \ {0}
BY SizeAssumption

LEMMA RemainderIs ==
  ASSUME NEW m \in Nat \ {0}, NEW q \in Int, NEW r \in 0 .. m - 1
  PROVE  (q * m + r) % m = r
<1> DEFINE a == q * m + r
           d == a \div m
           s == a % m
<1>1. a \in Int
  OBVIOUS
<1>2. d \in Int /\ s \in 0 .. m - 1 /\ a = m * d + s
  BY <1>1
<1>3. q * m + r = d * m + s
  BY <1>2
<1> HIDE DEF d, s
<1>4. q = d
  <2>1. CASE q < d
    <3>1. (q + 1) * m <= d * m
      BY <2>1, <1>2
    <3> QED
      BY <3>1, <1>2, <1>3
  <2>2. CASE d < q
    <3>1. (d + 1) * m <= q * m
      BY <2>2, <1>2
    <3> QED
      BY <3>1, <1>2, <1>3
  <2> QED
    BY <2>1, <2>2, <1>2
<1> QED
  BY <1>2, <1>3, <1>4 DEF s

(* The remainders of the ring without division.                            *)
LEMMA HeldIs ==
  ASSUME NEW out \in Cells, NEW in \in Cells
  PROVE  /\ (in - out) % BufLen = Held(out, in)
         /\ Held(out, in) \in Cells
         /\ Held(out, in) \in Nat
<1>1. BufLen \in Nat \ {0} /\ out \in Nat /\ in \in Nat
  BY Size DEF Cells
<1>2. (in - out) % BufLen = Held(out, in)
  <2>1. CASE in >= out
    <3>1. in - out \in 0 .. BufLen - 1 /\ in - out = 0 * BufLen + (in - out)
      BY <1>1, <2>1 DEF Cells
    <3>2. (0 * BufLen + (in - out)) % BufLen = in - out
      BY <1>1, <3>1, RemainderIs
    <3> QED
      BY <2>1, <3>1, <3>2 DEF Held
  <2>2. CASE in < out
    <3> DEFINE r == in - out + BufLen
    <3>1. r \in 0 .. BufLen - 1 /\ in - out = (-1) * BufLen + r
      BY <1>1, <2>2 DEF Cells
    <3>2. ((-1) * BufLen + r) % BufLen = r
      BY <1>1, <3>1, RemainderIs
    <3> QED
      BY <1>1, <2>2, <3>1, <3>2 DEF Held
  <2> QED
    BY <1>1, <2>1, <2>2
<1> QED
  BY <1>1, <1>2 DEF Held, Cells

LEMMA CellIs ==
  ASSUME NEW out \in Cells, NEW k \in Nat, k <= BufLen
  PROVE  /\ After(out, k) = Cell(out, k)
         /\ Cell(out, k) \in Cells
<1>1. BufLen \in Nat \ {0} /\ out \in Nat /\ k \in Nat
  BY Size DEF Cells
<1>2. After(out, k) = Cell(out, k)
  <2>1. CASE out + k < BufLen
    <3>1. out + k \in 0 .. BufLen - 1 /\ out + k = 0 * BufLen + (out + k)
      BY <1>1, <2>1
    <3>2. (0 * BufLen + (out + k)) % BufLen = out + k
      BY <1>1, <3>1, RemainderIs
    <3> QED
      BY <2>1, <3>1, <3>2 DEF After, Cell
  <2>2. CASE out + k >= BufLen
    <3> DEFINE r == out + k - BufLen
    <3>1. r \in 0 .. BufLen - 1 /\ out + k = 1 * BufLen + r
      BY <1>1, <2>2 DEF Cells
    <3>2. (1 * BufLen + r) % BufLen = r
      BY <1>1, <3>1, RemainderIs
    <3> QED
      BY <1>1, <2>2, <3>1, <3>2 DEF After, Cell
  <2> QED
    BY <1>1, <2>1, <2>2
<1> QED
  BY <1>1, <1>2 DEF Cell, Cells

(* What the bytes of a ring are.                                           *)
LEMMA RingBytes ==
  ASSUME NEW buf \in [Cells -> Nat], NEW out \in Cells, NEW in \in Cells
  PROVE  /\ InRing(buf, out, in) \in Seq(Nat)
         /\ Len(InRing(buf, out, in)) = Held(out, in)
         /\ \A j \in 1 .. Held(out, in) :
              /\ Cell(out, j - 1) \in Cells
              /\ InRing(buf, out, in)[j] = buf[Cell(out, j - 1)]
<1> DEFINE h == Held(out, in)
<1>0. (in - out) % BufLen = h /\ h \in Cells
  BY HeldIs, Zenon
<1> HIDE DEF h
<1>1. h \in Nat /\ h < BufLen /\ BufLen \in Nat
  BY <1>0, Size DEF Cells
<1>2. \A j \in 1 .. h : After(out, j - 1) = Cell(out, j - 1)
                        /\ Cell(out, j - 1) \in Cells
  <2> TAKE j \in 1 .. h
  <2>1. j - 1 \in Nat /\ j - 1 <= BufLen
    BY <1>1
  <2> QED
    BY <2>1, CellIs, Zenon
<1>3. InRing(buf, out, in) = [j \in 1 .. h |-> buf[After(out, j - 1)]]
  BY <1>0, Zenon DEF InRing
<1>4. \A j \in 1 .. h : buf[After(out, j - 1)] \in Nat
  BY <1>2
<1>5. InRing(buf, out, in) \in Seq(Nat) /\ Len(InRing(buf, out, in)) = h
  BY <1>1, <1>3, <1>4
<1> QED
  BY <1>2, <1>3, <1>5 DEF h

LEMMA NumberedBytes ==
  ASSUME NEW from \in Nat, NEW len \in Nat
  PROVE  /\ Numbered(from, len) \in Seq(Nat)
         /\ Len(Numbered(from, len)) = len
         /\ \A j \in 1 .. len : Numbered(from, len)[j] = from + j - 1
BY DEF Numbered
-----------------------------------------------------------------------------
SameRing(buf, new, out, in) == InRing(new, out, in) = InRing(buf, out, in)

(* A ring is the same as long as the cells it holds are.                   *)
LEMMA RingUntouched ==
  ASSUME NEW buf \in [Cells -> Nat], NEW new \in [Cells -> Nat],
         NEW out \in Cells, NEW in \in Cells,
         \A k \in 0 .. Held(out, in) - 1 : new[Cell(out, k)] = buf[Cell(out, k)]
  PROVE  SameRing(buf, new, out, in)
<1> DEFINE h == Held(out, in)
           s == InRing(buf, out, in)
           t == InRing(new, out, in)
<1>1. h \in Nat
  BY HeldIs
<1>2. /\ s \in Seq(Nat) /\ Len(s) = h
      /\ \A j \in 1 .. h : s[j] = buf[Cell(out, j - 1)]
  BY RingBytes, Zenon
<1>3. /\ t \in Seq(Nat) /\ Len(t) = h
      /\ \A j \in 1 .. h : t[j] = new[Cell(out, j - 1)]
  BY RingBytes, Zenon
<1> HIDE DEF s, t
<1>4. ASSUME NEW j \in 1 .. h PROVE s[j] = t[j]
  <2>1. j - 1 \in 0 .. h - 1
    BY <1>1
  <2>2. new[Cell(out, j - 1)] = buf[Cell(out, j - 1)]
    BY <2>1
  <2> QED
    BY <1>2, <1>3, <2>2, Zenon
<1>5. s = t
  BY <1>2, <1>3, <1>4, SeqEqual
<1> QED
  BY <1>5 DEF s, t, SameRing

IsExtended(buf, out, in, len, from) ==
  /\ After(in, len) \in Cells
  /\ Held(out, After(in, len)) = Held(out, in) + len
  /\ InRing(buf, out, After(in, len))
       = InRing(buf, out, in) \o Numbered(from, len)

(* Bytes written behind the last one, and published.                       *)
LEMMA RingExtended ==
  ASSUME NEW buf \in [Cells -> Nat], NEW out \in Cells, NEW in \in Cells,
         NEW len \in Nat, len + Held(out, in) < BufLen, in + len <= BufLen,
         NEW from \in Nat, \A k \in 0 .. len - 1 : buf[in + k] = from + k
  PROVE  IsExtended(buf, out, in, len, from)
<1> DEFINE h == Held(out, in)
           new == After(in, len)
           s == InRing(buf, out, in)
           t == InRing(buf, out, new)
           u == s \o Numbered(from, len)
<1>1. BufLen \in Nat /\ out \in Nat /\ in \in Nat /\ h \in Nat
  BY Size, HeldIs DEF Cells
<1>2. new = Cell(in, len) /\ new \in Cells
  <2>1. len <= BufLen
    BY <1>1
  <2> QED
    BY <2>1, CellIs, Zenon
<1>3. Held(out, new) = h + len
  BY <1>1, <1>2 DEF Held, Cell, Cells
<1>4. /\ s \in Seq(Nat) /\ Len(s) = h
      /\ \A j \in 1 .. h : s[j] = buf[Cell(out, j - 1)]
  BY RingBytes, Zenon
<1>5. /\ t \in Seq(Nat) /\ Len(t) = h + len
      /\ \A j \in 1 .. h + len : t[j] = buf[Cell(out, j - 1)]
  <2>1. /\ t \in Seq(Nat) /\ Len(t) = Held(out, new)
        /\ \A j \in 1 .. Held(out, new) : t[j] = buf[Cell(out, j - 1)]
    BY <1>2, RingBytes, Zenon
  <2> QED
    BY <1>3, <2>1, Zenon
<1>6. \A k \in 0 .. len - 1 : Cell(out, h + k) = in + k
  BY <1>1 DEF Held, Cell, Cells
<1>7. /\ Numbered(from, len) \in Seq(Nat) /\ Len(Numbered(from, len)) = len
      /\ \A j \in 1 .. len : Numbered(from, len)[j] = from + j - 1
  BY NumberedBytes
<1> HIDE DEF h, s, t, new
<1>8. /\ u \in Seq(Nat) /\ Len(u) = h + len
      /\ \A j \in 1 .. h + len :
           u[j] = IF j <= h THEN s[j] ELSE Numbered(from, len)[j - h]
  <2> DEFINE v == Numbered(from, len)
  <2>1. /\ u \in Seq(Nat) /\ Len(u) = Len(s) + Len(v)
        /\ \A j \in 1 .. Len(s) + Len(v) :
             u[j] = IF j <= Len(s) THEN s[j] ELSE v[j - Len(s)]
    BY <1>4, <1>7, ConcatProperties, Zenon
  <2> QED
    BY <2>1, <1>4, <1>7, Zenon
<1> HIDE DEF u
<1>9. ASSUME NEW j \in 1 .. h + len PROVE t[j] = u[j]
  <2>1. CASE j <= h
    <3>1. j \in 1 .. h
      BY <2>1, <1>1
    <3>2. s[j] = buf[Cell(out, j - 1)] /\ t[j] = buf[Cell(out, j - 1)]
      BY <3>1, <1>4, <1>5, Zenon
    <3>3. u[j] = s[j]
      BY <2>1, <1>8
    <3> QED
      BY <3>2, <3>3
  <2>2. CASE j > h
    <3>1. j - h \in 1 .. len /\ (j - h) - 1 \in 0 .. len - 1
          /\ h + ((j - h) - 1) = j - 1
      BY <2>2, <1>1
    <3>2. u[j] = from + (j - h) - 1
      BY <2>2, <3>1, <1>1, <1>7, <1>8
    <3>3. t[j] = buf[in + ((j - h) - 1)]
      BY <3>1, <1>5, <1>6
    <3>4. buf[in + ((j - h) - 1)] = from + ((j - h) - 1)
      BY <3>1
    <3> QED
      BY <3>2, <3>3, <3>4, <1>1
  <2> QED
    BY <2>1, <2>2, <1>1
<1>10. t = u
  BY <1>5, <1>8, <1>9, SeqEqual
<1> QED
  BY <1>2, <1>3, <1>10 DEF t, u, s, h, new, IsExtended

(* Bytes taken from the front.                                             *)
LEMMA RingShortened ==
  ASSUME NEW buf \in [Cells -> Nat], NEW out \in Cells, NEW in \in Cells,
         NEW len \in Nat, len <= Held(out, in)
  PROVE  /\ After(out, len) \in Cells
         /\ Held(After(out, len), in) = Held(out, in) - len
         /\ \A j \in 1 .. Held(out, in) - len :
              InRing(buf, After(out, len), in)[j] = InRing(buf, out, in)[len + j]
<1> DEFINE h == Held(out, in)
           new == After(out, len)
<1>0. h \in Cells
  BY HeldIs, Zenon
<1>1. /\ BufLen \in Nat /\ out \in Nat /\ in \in Nat /\ h \in Nat
      /\ h < BufLen /\ len <= BufLen
  <2> HIDE DEF h
  <2>1. len <= h
    BY DEF h
  <2> QED
    BY <1>0, <2>1, Size DEF Cells
<1>2. new = Cell(out, len) /\ new \in Cells
  BY <1>1, CellIs, Zenon
<1>3. Held(new, in) = h - len
  BY <1>1, <1>2 DEF Held, Cell, Cells
<1>4. \A j \in 1 .. h : InRing(buf, out, in)[j] = buf[Cell(out, j - 1)]
  BY RingBytes, Zenon
<1>5. \A j \in 1 .. h - len : InRing(buf, new, in)[j] = buf[Cell(new, j - 1)]
  <2>1. \A j \in 1 .. Held(new, in) : InRing(buf, new, in)[j] = buf[Cell(new, j - 1)]
    BY <1>2, RingBytes, Zenon
  <2> QED
    BY <1>3, <2>1, Zenon
<1>6. ASSUME NEW j \in 1 .. h - len
      PROVE  InRing(buf, new, in)[j] = InRing(buf, out, in)[len + j]
  <2>1. Cell(new, j - 1) = Cell(out, (len + j) - 1)
    BY <1>1, <1>2 DEF Cell, Held, Cells
  <2>2. len + j \in 1 .. h
    BY <1>1
  <2> QED
    BY <1>4, <1>5, <2>1, <2>2
<1> QED
  BY <1>2, <1>3, <1>6

(* The cells behind the last byte hold none of the bytes.                  *)
LEMMA FreeCells ==
  ASSUME NEW out \in Cells, NEW in \in Cells,
         NEW len \in Nat, len + Held(out, in) < BufLen, in + len <= BufLen,
         NEW k \in 0 .. Held(out, in) - 1
  PROVE  Cell(out, k) \notin in .. in + len - 1
<1>1. BufLen \in Nat /\ out \in Cells /\ in \in Cells
  BY Size
<1> QED
  BY <1>1 DEF Held, Cell, Cells
(* The bytes in front, up to the end of the buffer, and the others.        *)
Front(buf, out, len) == [j \in 1 .. len |-> buf[out + j - 1]]

LEMMA RingSplit ==
  ASSUME NEW buf \in [Cells -> Nat], NEW out \in Cells, NEW in \in Cells,
         NEW len \in Nat, len <= Held(out, in), out + len <= BufLen
  PROVE  /\ Front(buf, out, len) \in Seq(Nat)
         /\ Len(Front(buf, out, len)) = len
         /\ InRing(buf, After(out, len), in) \in Seq(Nat)
         /\ InRing(buf, out, in)
              = Front(buf, out, len) \o InRing(buf, After(out, len), in)
<1> DEFINE h == Held(out, in)
           v == Front(buf, out, len)
           r == InRing(buf, out, in)
           s == InRing(buf, After(out, len), in)
           x == v \o s
<1>0. h \in Nat /\ len <= h /\ BufLen \in Nat
  <2>1. h \in Nat
    BY HeldIs, Zenon
  <2> QED
    BY <2>1, Size
<1>1. /\ After(out, len) \in Cells /\ Held(After(out, len), in) = h - len
      /\ \A j \in 1 .. h - len : s[j] = r[len + j]
  BY RingShortened, Zenon
<1>2. r \in Seq(Nat) /\ Len(r) = h /\ \A j \in 1 .. h : r[j] = buf[Cell(out, j - 1)]
  BY RingBytes, Zenon
<1>3. s \in Seq(Nat) /\ Len(s) = h - len
  BY <1>1, RingBytes, Zenon
<1>4. /\ v \in Seq(Nat) /\ Len(v) = len
      /\ \A j \in 1 .. len : v[j] = buf[out + j - 1]
  <2>1. \A j \in 1 .. len : buf[out + j - 1] \in Nat
    BY <1>0 DEF Cells
  <2> QED
    BY <2>1 DEF Front
<1>5. \A j \in 1 .. len : Cell(out, j - 1) = out + j - 1
  BY <1>0 DEF Cell, Cells
<1> HIDE DEF h, r, s, v
<1>6. /\ x \in Seq(Nat) /\ Len(x) = Len(v) + Len(s)
      /\ \A j \in 1 .. Len(v) + Len(s) :
           x[j] = IF j <= Len(v) THEN v[j] ELSE s[j - Len(v)]
  BY <1>3, <1>4, ConcatProperties, Zenon
<1> HIDE DEF x
<1>7. Len(x) = Len(r)
  BY <1>0, <1>2, <1>3, <1>4, <1>6
<1>8. ASSUME NEW j \in 1 .. Len(r) PROVE r[j] = x[j]
  <2>1. CASE j <= len
    <3>1. j \in 1 .. len /\ j \in 1 .. h /\ j \in 1 .. Len(v) + Len(s)
      BY <2>1, <1>0, <1>2, <1>3, <1>4
    <3>2. r[j] = buf[Cell(out, j - 1)] /\ Cell(out, j - 1) = out + j - 1
          /\ v[j] = buf[out + j - 1]
      BY <3>1, <1>2, <1>4, <1>5, Zenon
    <3>3. x[j] = v[j]
      BY <2>1, <3>1, <1>4, <1>6
    <3> QED
      BY <3>2, <3>3
  <2>2. CASE j > len
    <3>1. j - len \in 1 .. h - len /\ len + (j - len) = j
          /\ j \in 1 .. Len(v) + Len(s)
      BY <2>2, <1>0, <1>2, <1>3, <1>4
    <3>2. s[j - len] = r[len + (j - len)]
      BY <3>1, <1>1, Zenon
    <3>3. x[j] = s[j - len]
      BY <2>2, <3>1, <1>4, <1>6
    <3> QED
      BY <3>1, <3>2, <3>3
  <2> QED
    BY <2>1, <2>2, <1>0, <1>2
<1>9. r = x
  BY <1>2, <1>6, <1>7, <1>8, SeqEqual
<1> QED
  BY <1>3, <1>4, <1>9 DEF r, s, v, x
-----------------------------------------------------------------------------
LEMMA Joined == \A a, b, c \in Seq(Nat) : (a \o b) \o c = a \o (b \o c)
BY ConcatAssociative

(* What the steps do to a queue made of a ring and a FIFO.  The interrupt  *)
(* routine fills the transmit FIFO from the ring.                          *)
LEMMA MovedToFifo ==
  ASSUME NEW f \in Seq(Nat), NEW buf \in [Cells -> Nat],
         NEW out \in Cells, NEW in \in Cells, out # in
  PROVE  /\ After(out, 1) \in Cells
         /\ Held(After(out, 1), in) = Held(out, in) - 1
         /\ Append(f, buf[out]) \o InRing(buf, After(out, 1), in)
              = f \o InRing(buf, out, in)
<1> DEFINE s == InRing(buf, After(out, 1), in)
<1>1. 1 \in Nat /\ 1 <= Held(out, in) /\ out + 1 <= BufLen
  BY Size DEF Held, Cells
<1>2. After(out, 1) \in Cells /\ Held(After(out, 1), in) = Held(out, in) - 1
  BY <1>1, RingShortened, Zenon
<1>3. s \in Seq(Nat) /\ InRing(buf, out, in) = Front(buf, out, 1) \o s
  BY <1>1, RingSplit, Zenon
<1>4. Front(buf, out, 1) = << buf[out] >>
  BY DEF Front, Cells
<1>5. buf[out] \in Nat /\ << buf[out] >> \in Seq(Nat)
  OBVIOUS
<1> HIDE DEF s
<1>6. Append(f, buf[out]) = f \o << buf[out] >>
  BY <1>5, AppendIsConcat, Zenon
<1>7. (f \o << buf[out] >>) \o s = f \o (<< buf[out] >> \o s)
  BY <1>3, <1>5, Joined
<1>8. Append(f, buf[out]) \o s = f \o InRing(buf, out, in)
  BY <1>3, <1>4, <1>6, <1>7, Zenon
<1> QED
  BY <1>2, <1>8 DEF s

IsMoved(f, buf, new, out, in) ==
  /\ new \in [Cells -> Nat]
  /\ After(in, 1) \in Cells
  /\ Held(out, After(in, 1)) = Held(out, in) + 1
  /\ InRing(new, out, After(in, 1)) \o Tail(f) = InRing(buf, out, in) \o f

(* The interrupt routine empties the receive FIFO into the ring.           *)
LEMMA MovedToRing ==
  ASSUME NEW f \in Seq(Nat), f # << >>, NEW buf \in [Cells -> Nat],
         NEW out \in Cells, NEW in \in Cells, After(in, 1) # out,
         NEW new, new = [buf EXCEPT ![in] = Head(f)]
  PROVE  IsMoved(f, buf, new, out, in)
<1> DEFINE r == InRing(buf, out, in)
<1>1. /\ Head(f) \in Nat /\ Tail(f) \in Seq(Nat)
      /\ Len(f) \in Nat \ {0} /\ Len(Tail(f)) = Len(f) - 1
      /\ \A j \in 1 .. Len(Tail(f)) : Tail(f)[j] = f[j + 1]
      /\ Head(f) = f[1]
  BY HeadTailProperties
<1>2. new \in [Cells -> Nat] /\ \A c \in Cells : c # in => new[c] = buf[c]
  BY <1>1
<1>3. 1 + Held(out, in) < BufLen /\ in + 1 <= BufLen
  <2>1. in \in 0 .. BufLen - 1 /\ out \in 0 .. BufLen - 1
    BY DEF Cells
  <2>2. Cell(in, 1) # out
    BY Size, CellIs
  <2> QED
    BY ONLY <2>1, <2>2, Size DEF Held, Cell
<1>4. InRing(new, out, in) = r
  <2>1. \A k \in 0 .. Held(out, in) - 1 : Cell(out, k) \notin in .. in + 1 - 1
    BY <1>3, FreeCells
  <2>2. in \in in .. in + 1 - 1
    BY DEF Cells
  <2>3. Held(out, in) \in Cells
    BY HeldIs
  <2>4. \A k \in 0 .. Held(out, in) - 1 : Cell(out, k) \in Cells
    <3> TAKE k \in 0 .. Held(out, in) - 1
    <3>1. k \in Nat /\ k <= BufLen
      BY <2>3, Size DEF Cells
    <3> QED
      BY <3>1, CellIs
  <2>5. \A k \in 0 .. Held(out, in) - 1 : new[Cell(out, k)] = buf[Cell(out, k)]
    BY <1>2, <2>1, <2>2, <2>4
  <2> QED
    <3>1. SameRing(buf, new, out, in)
      BY <1>2, <2>5, RingUntouched, Zenon
    <3> QED
      BY <3>1 DEF SameRing
<1>5. /\ After(in, 1) \in Cells
      /\ Held(out, After(in, 1)) = Held(out, in) + 1
      /\ InRing(new, out, After(in, 1)) = r \o Numbered(Head(f), 1)
  <2>1. \A k \in 0 .. 1 - 1 : new[in + k] = Head(f) + k
    BY <1>1 DEF Cells
  <2>2. 1 \in Nat
    OBVIOUS
  <2>3. IsExtended(new, out, in, 1, Head(f))
    BY <1>1, <1>2, <1>3, <2>1, <2>2, RingExtended, Zenon
  <2> QED
    BY <1>4, <2>3, Zenon DEF IsExtended
<1>6. Numbered(Head(f), 1) \o Tail(f) = f
  <2> DEFINE v == Numbered(Head(f), 1)
             x == v \o Tail(f)
  <2>1. v \in Seq(Nat) /\ Len(v) = 1 /\ v[1] = f[1]
    BY <1>1 DEF Numbered
  <2> HIDE DEF v
  <2>2. /\ x \in Seq(Nat) /\ Len(x) = Len(v) + Len(Tail(f))
        /\ \A j \in 1 .. Len(v) + Len(Tail(f)) :
             x[j] = IF j <= Len(v) THEN v[j] ELSE Tail(f)[j - Len(v)]
    BY <1>1, <2>1, ConcatProperties, Zenon
  <2> HIDE DEF x
  <2>3. Len(x) = Len(f) /\ \A j \in 1 .. Len(x) : x[j] = f[j]
    BY <1>1, <2>1, <2>2
  <2>4. x = f
    BY <2>2, <2>3, SeqEqual
  <2> QED
    BY <2>4 DEF x, v
<1>7. r \in Seq(Nat) /\ Numbered(Head(f), 1) \in Seq(Nat)
  BY <1>1, RingBytes DEF Numbered
<1> HIDE DEF r
<1>8. (r \o Numbered(Head(f), 1)) \o Tail(f) = r \o (Numbered(Head(f), 1) \o Tail(f))
  BY <1>1, <1>7, Joined
<1> QED
  BY <1>2, <1>5, <1>6, <1>8 DEF r, IsMoved
-----------------------------------------------------------------------------
(* The steps that move no byte: a call goes on from label to label, or the *)
(* interrupt routine does, or the alarm looks at the device.               *)
LabelsOfCopies == {"w_copy", "w_publish", "r_copy", "r_publish"}
BytesStay == UNCHANGED << rxFifo, txFifo, rxVars, txVars, txSent, rxSent >>

LEMMA CallGoesOn ==
  ASSUME IInv, BytesStay, UNCHANGED control,
         pc' \notin LabelsOfCopies, count' \in Nat, n' \in Nat
  PROVE  IInv'
BY DEF IInv, Types, SpaceIsThere, RoomToWrite, Copied, BytesToRead, Taken,
       BytesStay, LabelsOfCopies, rxVars, txVars

LEMMA RoutineGoesOn ==
  ASSUME IInv, BytesStay, UNCHANGED callVars,
         control' \in [wi : BOOLEAN, space : Nat],
         control'.space + Len(txFifo) <= Depth
  PROVE  IInv'
BY DEF IInv, Types, SpaceIsThere, RoomToWrite, Copied, BytesToRead, Taken,
       BytesStay, rxVars, txVars, callVars

LEMMA InitInv == Init => IInv
<1> SUFFICES ASSUME Init PROVE IInv
  OBVIOUS
<1>1. Types
  BY Size DEF Init, Types, Cells, NoControl
<1>2. Len(rxFifo) = 0 /\ Len(txFifo) = 0
  BY DEF Init
<1>3. SpaceIsThere
  BY <1>2, Size DEF Init, SpaceIsThere, NoControl
<1> QED
  BY <1>1, <1>3 DEF Init, IInv, RoomToWrite, Copied, BytesToRead, Taken

(* The host takes a byte, so the space counted by the routine stays there, *)
(* and gives one only while there is room.                                 *)
LEMMA HostScanInv == IInv /\ HostScan => IInv'
<1> SUFFICES ASSUME IInv, HostScan PROVE IInv'
  OBVIOUS
<1>1. txFifo' \in Seq(Nat) /\ Len(txFifo') <= Len(txFifo) /\ Len(txFifo) \in Nat
      /\ Len(txFifo') \in Nat
  <2>1. CASE txFifo = << >>
    BY <2>1 DEF HostScan, IInv, Types
  <2>2. CASE txFifo # << >>
    <3>1. txFifo \in Seq(Nat) /\ txFifo' = Tail(txFifo)
      BY <2>2 DEF HostScan, IInv, Types
    <3>2. /\ Tail(txFifo) \in Seq(Nat) /\ Len(Tail(txFifo)) = Len(txFifo) - 1
          /\ Len(txFifo) \in Nat \ {0}
      BY <2>2, <3>1, HeadTailProperties, EmptySeq
    <3> QED
      BY <3>1, <3>2
  <2> QED
    BY <2>1, <2>2
<1>2. rxFifo' \in Seq(Nat) /\ rxSent' \in Nat /\ Len(rxFifo') <= Depth
  <2>1. CASE UNCHANGED << rxFifo, rxSent >>
    BY <2>1 DEF IInv, Types, SpaceIsThere
  <2>2. CASE /\ Len(rxFifo) < Depth /\ rxFifo' = Append(rxFifo, rxSent)
             /\ rxSent' = rxSent + 1
    BY <2>2, Size, AppendProperties DEF IInv, Types
  <2> QED
    BY <2>1, <2>2 DEF HostScan
<1>3. UNCHANGED << rxVars, txVars, control, callVars, txSent >>
  BY DEF HostScan, isrVars
<1>4. Types'
  BY <1>1, <1>2, <1>3 DEF IInv, Types, rxVars, txVars, callVars
<1>5. SpaceIsThere'
  BY <1>1, <1>2, <1>3, Size DEF IInv, Types, SpaceIsThere
<1>6. RoomToWrite' /\ Copied' /\ BytesToRead' /\ Taken'
  BY <1>3 DEF IInv, RoomToWrite, Copied, BytesToRead, Taken,
              rxVars, txVars, callVars
<1> QED
  BY <1>4, <1>5, <1>6 DEF IInv

LEMMA IsrControlInv == IInv /\ IsrControl => IInv'
<1> SUFFICES ASSUME IInv, IsrControl PROVE IInv'
  OBVIOUS
<1>1. BytesStay /\ UNCHANGED callVars
  BY DEF IsrControl, IsrUnchanged, BytesStay, streamVars
<1>2. Len(txFifo) \in Nat /\ Len(txFifo) <= Depth /\ Depth \in Nat
  BY Size DEF IInv, Types, SpaceIsThere
<1>3. /\ control' \in [wi : BOOLEAN, space : Nat]
      /\ control'.space + Len(txFifo) <= Depth
  <2>1. CASE ReadPending \/ WritePending
    <3>1. control' = [wi |-> WritePending, space |-> Depth - Len(txFifo)]
      BY <2>1 DEF IsrControl
    <3>2. WritePending \in BOOLEAN
      BY DEF WritePending
    <3> DEFINE b == WritePending
               room == Depth - Len(txFifo)
    <3>3. room \in Nat /\ room + Len(txFifo) <= Depth
      BY <1>2
    <3>4. b \in BOOLEAN /\ control' = [wi |-> b, space |-> room]
      BY <3>1, <3>2
    <3> HIDE DEF b, room
    <3> QED
      BY <3>3, <3>4
  <2>2. CASE ~(ReadPending \/ WritePending)
    BY <2>2, <1>2 DEF IsrControl, IInv, Types, SpaceIsThere
  <2> QED
    BY <2>1, <2>2
<1> QED
  BY <1>1, <1>3, RoutineGoesOn

LEMMA IsrRxEndInv == IInv /\ IsrRxEnd => IInv'
<1> SUFFICES ASSUME IInv, IsrRxEnd PROVE IInv'
  OBVIOUS
<1>1. BytesStay /\ UNCHANGED callVars
  BY DEF IsrRxEnd, IsrUnchanged, BytesStay, streamVars
<1>2. Len(txFifo) \in Nat /\ Len(txFifo) <= Depth /\ Depth \in Nat
  BY Size DEF IInv, Types, SpaceIsThere
<1>3. /\ control' \in [wi : BOOLEAN, space : Nat]
      /\ control'.space + Len(txFifo) <= Depth
  BY <1>2 DEF IsrRxEnd, NoControl, IInv, Types, SpaceIsThere
<1> QED
  BY <1>1, <1>3, RoutineGoesOn

(* A byte moved to the transmit FIFO only frees a cell of the ring.        *)
LEMMA IsrTxInv == IInv /\ IsrTx => IInv'
<1> SUFFICES ASSUME IInv, IsrTx PROVE IInv'
  OBVIOUS
<1>1. CASE control.space > 0 /\ tx_out # tx_in
  <2>1. Len(txFifo) \in Nat /\ Len(txFifo) < Depth /\ Depth \in Nat
    BY <1>1, Size DEF IInv, Types, SpaceIsThere
  <2>2. /\ txFifo' = Append(txFifo, tx_buf[tx_out])
        /\ tx_out' = After(tx_out, 1)
        /\ control' = [control EXCEPT !.space = @ - 1]
        /\ UNCHANGED << rxFifo, rxVars, tx_in, tx_buf, callVars, txSent, rxSent >>
    BY <1>1, <2>1 DEF IsrTx, IsrUnchanged, streamVars
  <2>3. tx_out' \in Cells /\ Held(tx_out', tx_in) = Held(tx_out, tx_in) - 1
    <3>1. /\ After(tx_out, 1) \in Cells
          /\ Held(After(tx_out, 1), tx_in) = Held(tx_out, tx_in) - 1
      BY <1>1, MovedToFifo DEF IInv, Types
    <3> QED
      BY <2>2, <3>1
  <2>4. txFifo' \in Seq(Nat) /\ Len(txFifo') = Len(txFifo) + 1
    BY <2>2, AppendProperties DEF IInv, Types
  <2>5. /\ control' \in [wi : BOOLEAN, space : Nat]
        /\ control'.space = control.space - 1
    <3>1. control \in [wi : BOOLEAN, space : Nat] /\ control.space > 0
      BY <1>1 DEF IInv, Types
    <3>2. control.space - 1 \in Nat
      BY <3>1
    <3> QED
      BY <2>2, <3>1, <3>2, Zenon
  <2>6. Types'
    BY <2>2, <2>3, <2>4, <2>5 DEF IInv, Types, rxVars, callVars
  <2>7. SpaceIsThere'
    BY <2>1, <2>2, <2>4, <2>5, Size DEF IInv, Types, SpaceIsThere
  <2>8. RoomToWrite'
    <3>1. Held(tx_out, tx_in) \in Nat /\ n \in Nat
      BY HeldIs DEF IInv, Types
    <3>2. Held(tx_out', tx_in') = Held(tx_out, tx_in) - 1
          /\ UNCHANGED << pc, n, count, tx_in >>
      BY <2>2, <2>3 DEF callVars
    <3> DEFINE h == Held(tx_out, tx_in)
    <3>3. pc \in {"w_copy", "w_publish"} =>
            n + (h - 1) < BufLen /\ n > 0 /\ n <= count /\ tx_in + n <= BufLen
      BY <3>1, Size DEF IInv, RoomToWrite
    <3> QED
      BY <3>2, <3>3 DEF RoomToWrite
  <2>9. Copied' /\ BytesToRead' /\ Taken'
    BY <2>2 DEF IInv, Copied, BytesToRead, Taken, rxVars, callVars
  <2> QED
    BY <2>6, <2>7, <2>8, <2>9 DEF IInv
<1>2. CASE ~(control.space > 0 /\ tx_out # tx_in)
  <2>1. BytesStay /\ UNCHANGED callVars /\ control' = NoControl
    BY <1>2 DEF IsrTx, IsrUnchanged, BytesStay, streamVars, txVars
  <2>2. Len(txFifo) \in Nat /\ Len(txFifo) <= Depth /\ Depth \in Nat
    BY Size DEF IInv, Types, SpaceIsThere
  <2>3. /\ control' \in [wi : BOOLEAN, space : Nat]
        /\ control'.space + Len(txFifo) <= Depth
    BY <2>1, <2>2 DEF NoControl
  <2> QED
    BY <2>1, <2>3, RoutineGoesOn
<1> QED
  BY <1>1, <1>2

(* A byte that arrives takes the cell behind those being read.             *)
LEMMA IsrRxInv == IInv /\ IsrRx => IInv'
<1> SUFFICES ASSUME IInv, IsrRx PROVE IInv'
  OBVIOUS
<1>1. CASE ~RxFull /\ rxFifo # << >>
  <2>1. /\ After(rx_in, 1) # rx_out
        /\ rxFifo' = Tail(rxFifo)
        /\ rx_buf' = [rx_buf EXCEPT ![rx_in] = Head(rxFifo)]
        /\ rx_in' = After(rx_in, 1)
        /\ UNCHANGED << txFifo, rx_out, txVars, control, callVars, txSent, rxSent >>
    BY <1>1 DEF IsrRx, IsrUnchanged, RxFull, streamVars
  <2>2. /\ rxFifo \in Seq(Nat) /\ rx_buf \in [Cells -> Nat]
        /\ rx_in \in Cells /\ rx_out \in Cells /\ n \in Nat
    BY DEF IInv, Types
  <2>3. /\ rx_buf' \in [Cells -> Nat] /\ rx_in' \in Cells
        /\ Held(rx_out, rx_in') = Held(rx_out, rx_in) + 1
    <3>1. IsMoved(rxFifo, rx_buf, rx_buf', rx_out, rx_in)
      BY <1>1, <2>1, <2>2, MovedToRing
    <3> QED
      BY <2>1, <3>1 DEF IsMoved
  <2>4. rxFifo' \in Seq(Nat) /\ Len(rxFifo') = Len(rxFifo) - 1 /\ Len(rxFifo) \in Nat
    BY <1>1, <2>1, <2>2, HeadTailProperties
  <2>5. Types'
    BY <2>1, <2>3, <2>4 DEF IInv, Types, txVars, callVars
  <2>6. SpaceIsThere'
    BY <2>1, <2>4, Size DEF IInv, SpaceIsThere
  <2>7. RoomToWrite' /\ Copied'
    BY <2>1 DEF IInv, RoomToWrite, Copied, txVars, callVars
  <2>8. Held(rx_out, rx_in) \in Nat
    BY <2>2, HeldIs
  <2>9. BytesToRead'
    <3>1. UNCHANGED << pc, n, count, rx_out >>
      BY <2>1 DEF callVars
    <3> DEFINE h == Held(rx_out, rx_in)
    <3>2. pc \in {"r_copy", "r_publish"} =>
            n <= h + 1 /\ n > 0 /\ n <= count /\ rx_out + n <= BufLen
      BY <2>2, <2>8 DEF IInv, BytesToRead
    <3> QED
      BY <2>3, <3>1, <3>2 DEF BytesToRead
  <2>10. Taken'
    <3> SUFFICES ASSUME pc = "r_publish"
                 PROVE  chunk = [j \in 1 .. n |-> rx_buf'[rx_out + j - 1]]
      BY <2>1 DEF Taken, callVars
    <3>1. n <= Held(rx_out, rx_in) /\ rx_out + n <= BufLen
      BY DEF IInv, BytesToRead
    <3>2. ASSUME NEW j \in 1 .. n
          PROVE  rx_buf'[rx_out + j - 1] = rx_buf[rx_out + j - 1]
      <4>1. rx_out + j - 1 \in Cells /\ rx_out + j - 1 # rx_in
        BY <2>2, <3>1, Size DEF Held, Cells
      <4> QED
        BY <2>1, <2>2, <4>1
    <3>3. chunk = [j \in 1 .. n |-> rx_buf[rx_out + j - 1]]
      BY DEF IInv, Taken
    <3> QED
      BY <3>2, <3>3
  <2> QED
    BY <2>5, <2>6, <2>7, <2>9, <2>10 DEF IInv
<1>2. CASE RxFull \/ rxFifo = << >>
  <2>1. BytesStay /\ UNCHANGED << callVars, control >>
    BY <1>2 DEF IsrRx, IsrUnchanged, BytesStay, streamVars, rxVars
  <2> QED
    BY <2>1, RoutineGoesOn DEF IInv, Types, SpaceIsThere
<1> QED
  BY <1>1, <1>2

LEMMA CallVarsStay ==
  ASSUME CallUnchanged
  PROVE  UNCHANGED << rxFifo, txFifo, control >>
BY DEF CallUnchanged, deviceVars, isrVars

(* The room for one memcpy is free, and does not pass the end.             *)
LEMMA WriteLookInv == IInv /\ WriteLook => IInv'
<1> SUFFICES ASSUME IInv, WriteLook PROVE IInv'
  OBVIOUS
<1>1. BytesStay /\ UNCHANGED << control, count, chunk >>
  BY CallVarsStay DEF WriteLook, At, Goto, BytesStay, streamVars
<1>2. n' = Smaller(TxRoom(tx_out), count) /\ pc' = IF n' = 0 THEN "w_enable" ELSE "w_copy"
  BY DEF WriteLook, Goto
<1>3. /\ n' \in Nat /\ n' <= count
      /\ n' + Held(tx_out, tx_in) < BufLen /\ tx_in + n' <= BufLen
  BY <1>2, Size DEF IInv, Types, Cells, Smaller, TxRoom, Held
<1>4. Types' /\ SpaceIsThere'
  BY <1>1, <1>3 DEF IInv, Types, SpaceIsThere, BytesStay, rxVars, txVars
<1>5. pc' = "w_copy" => n' > 0
  BY <1>2, <1>3
<1>6. RoomToWrite'
  BY <1>1, <1>2, <1>3, <1>5 DEF RoomToWrite, BytesStay, txVars
<1>7. Copied' /\ BytesToRead' /\ Taken'
  BY <1>2 DEF Copied, BytesToRead, Taken
<1> QED
  BY <1>4, <1>6, <1>7 DEF IInv

LEMMA WriteCopyInv == IInv /\ WriteCopy => IInv'
<1> SUFFICES ASSUME IInv, WriteCopy PROVE IInv'
  OBVIOUS
<1>1. /\ UNCHANGED << rxFifo, txFifo, rxVars, tx_in, tx_out, control,
                      count, n, chunk, txSent, rxSent >>
      /\ pc = "w_copy" /\ pc' = "w_publish"
  BY CallVarsStay DEF WriteCopy, At, Goto, streamVars
<1>2. /\ tx_buf \in [Cells -> Nat] /\ tx_in \in Cells /\ txSent \in Nat
      /\ n \in Nat /\ n > 0 /\ tx_in + n <= BufLen /\ BufLen \in Nat
  BY <1>1, Size DEF IInv, Types, RoomToWrite
<1>3. \A j \in 1 .. n : Numbered(txSent, n)[j] = txSent + j - 1
  BY <1>2, NumberedBytes
<1>4. tx_buf' = [i \in Cells |-> IF i \in tx_in .. tx_in + n - 1
                  THEN Numbered(txSent, n)[i - tx_in + 1] ELSE tx_buf[i]]
  BY <1>2 DEF WriteCopy
<1>5. \A i \in tx_in .. tx_in + n - 1 :
        i \in Cells /\ Numbered(txSent, n)[i - tx_in + 1] = txSent + (i - tx_in)
  <2> TAKE i \in tx_in .. tx_in + n - 1
  <2>1. i \in Cells /\ i - tx_in + 1 \in 1 .. n /\ i \in Int
    BY <1>2 DEF Cells
  <2> QED
    BY <1>2, <1>3, <2>1 DEF Cells
<1>6. tx_buf' \in [Cells -> Nat]
  <2>1. \A i \in tx_in .. tx_in + n - 1 : txSent + (i - tx_in) \in Nat
    BY <1>2 DEF Cells
  <2> QED
    BY <1>2, <1>4, <1>5, <2>1
<1>7. Copied'
  <2>1. ASSUME NEW k \in 0 .. n - 1 PROVE tx_buf'[tx_in + k] = txSent + k
    <3>1. tx_in + k \in tx_in .. tx_in + n - 1 /\ (tx_in + k) - tx_in = k
      BY <1>2 DEF Cells
    <3> QED
      BY <1>4, <1>5, <3>1
  <2> QED
    BY <1>1, <2>1 DEF Copied
<1>8. Types' /\ SpaceIsThere' /\ RoomToWrite' /\ BytesToRead' /\ Taken'
  BY <1>1, <1>6
  DEF IInv, Types, SpaceIsThere, RoomToWrite, BytesToRead, Taken, rxVars
<1> QED
  BY <1>7, <1>8 DEF IInv

LEMMA ReadLookInv == IInv /\ ReadLook => IInv'
<1> SUFFICES ASSUME IInv, ReadLook PROVE IInv'
  OBVIOUS
<1>1. BytesStay /\ UNCHANGED << control, count, chunk >>
  BY CallVarsStay DEF ReadLook, At, Goto, BytesStay, streamVars
<1>2. /\ n' = Smaller(IF rx_in >= rx_out THEN rx_in - rx_out
                      ELSE BufLen - rx_out, count)
      /\ pc' \in {"r_copy", "r_enable", "r_fail", "r_spin"}
      /\ pc' = "r_copy" => n' > 0
  BY DEF ReadLook, Goto
<1>3. /\ n' \in Nat /\ n' <= count
      /\ n' <= Held(rx_out, rx_in) /\ rx_out + n' <= BufLen
  BY <1>2, Size DEF IInv, Types, Cells, Smaller, Held
<1>4. Types' /\ SpaceIsThere'
  BY <1>1, <1>3 DEF IInv, Types, SpaceIsThere, BytesStay, rxVars, txVars
<1>5. BytesToRead'
  BY <1>1, <1>2, <1>3 DEF BytesToRead, BytesStay, rxVars
<1>6. RoomToWrite' /\ Copied' /\ Taken'
  BY <1>2 DEF RoomToWrite, Copied, Taken
<1> QED
  BY <1>4, <1>5, <1>6 DEF IInv

LEMMA ReadCopyInv == IInv /\ ReadCopy => IInv'
<1> SUFFICES ASSUME IInv, ReadCopy PROVE IInv'
  OBVIOUS
<1>1. /\ BytesStay /\ UNCHANGED << control, count, n >>
      /\ pc = "r_copy" /\ pc' = "r_publish"
      /\ chunk' = [i \in 1 .. n |-> rx_buf[rx_out + i - 1]]
  BY CallVarsStay DEF ReadCopy, At, Goto, BytesStay, streamVars
<1> QED
  BY <1>1 DEF IInv, Types, SpaceIsThere, RoomToWrite, Copied, BytesToRead, Taken,
              BytesStay, rxVars, txVars

(* The bytes published are those copied; the room taken was free.          *)
LEMMA WritePublishInv == IInv /\ WritePublish => IInv'
<1> SUFFICES ASSUME IInv, WritePublish PROVE IInv'
  OBVIOUS
<1>1. /\ UNCHANGED << rxFifo, txFifo, rxVars, tx_out, tx_buf, control, rxSent >>
      /\ tx_in' = After(tx_in, n) /\ txSent' = txSent + n
      /\ count' = count - n /\ n' = 0
      /\ pc = "w_publish" /\ pc' \notin LabelsOfCopies
  BY CallVarsStay DEF WritePublish, At, LabelsOfCopies
<1>2. n > 0 /\ n <= count /\ tx_in + n <= BufLen
  BY <1>1 DEF IInv, RoomToWrite
<1>3. After(tx_in, n) \in Cells
  <2>1. tx_in \in Cells /\ n \in Nat /\ n <= BufLen
    BY <1>2, Size DEF IInv, Types, Cells
  <2> QED
    BY <2>1, CellIs
<1>4. Types' /\ SpaceIsThere'
  BY <1>1, <1>2, <1>3 DEF IInv, Types, SpaceIsThere, rxVars
<1>5. RoomToWrite' /\ Copied' /\ BytesToRead' /\ Taken'
  BY <1>1 DEF RoomToWrite, Copied, BytesToRead, Taken, LabelsOfCopies
<1> QED
  BY <1>4, <1>5 DEF IInv

LEMMA ReadPublishInv == IInv /\ ReadPublish => IInv'
<1> SUFFICES ASSUME IInv, ReadPublish PROVE IInv'
  OBVIOUS
<1>1. /\ UNCHANGED << rxFifo, txFifo, rx_in, rx_buf, txVars, control,
                      txSent, rxSent >>
      /\ rx_out' = After(rx_out, n) /\ count' = count - n /\ n' = 0
      /\ pc = "r_publish" /\ pc' \notin LabelsOfCopies
  BY CallVarsStay DEF ReadPublish, At, LabelsOfCopies
<1>2. n > 0 /\ n <= count /\ rx_out + n <= BufLen
  BY <1>1 DEF IInv, BytesToRead
<1>3. After(rx_out, n) \in Cells
  <2>1. rx_out \in Cells /\ n \in Nat /\ n <= BufLen
    BY <1>2, Size DEF IInv, Types, Cells
  <2> QED
    BY <2>1, CellIs
<1>4. Types' /\ SpaceIsThere'
  BY <1>1, <1>2, <1>3 DEF IInv, Types, SpaceIsThere, txVars
<1>5. RoomToWrite' /\ Copied' /\ BytesToRead' /\ Taken'
  BY <1>1 DEF RoomToWrite, Copied, BytesToRead, Taken, LabelsOfCopies
<1> QED
  BY <1>4, <1>5 DEF IInv

(* The other steps of the foreground.                                      *)
OtherCallStep ==
  \/ WriteEnable \/ WriteSpin \/ WriteCheck
  \/ ReadSpin \/ ReadCheck \/ ReadEnable \/ ReadFail \/ Close
  \/ \E c \in Counts, nb \in BOOLEAN :
       \/ txSent + c <= TxBytes /\ Call("w_look", c, nb)
       \/ Call("r_look", c, nb)
  \/ \E nb \in BOOLEAN : Call("close", 0, nb)

LEMMA OtherCallStepIsQuiet ==
  ASSUME Types, OtherCallStep
  PROVE  /\ BytesStay /\ UNCHANGED << control, toHost, toCaller >>
         /\ pc' \notin LabelsOfCopies /\ count' \in Nat /\ n' \in Nat
<1>1. CASE \/ WriteEnable \/ WriteSpin \/ WriteCheck
           \/ ReadSpin \/ ReadCheck \/ ReadEnable \/ ReadFail \/ Close
  <2>1. CallUnchanged /\ UNCHANGED << rxVars, txVars, streamVars >>
    BY <1>1 DEF WriteEnable, WriteSpin, WriteCheck, ReadSpin, ReadCheck,
         ReadEnable, ReadFail, Close, At
  <2>2. (\E label \in {"w_spin", "w_check", "w_look", "r_check", "r_look", "r_fail"} :
           Goto(label) /\ UNCHANGED n)
        \/ Return
    BY <1>1 DEF WriteEnable, WriteSpin, WriteCheck, ReadSpin, ReadCheck,
         ReadEnable, ReadFail, Close
  <2>3. pc' \notin LabelsOfCopies /\ count' \in Nat /\ n' \in Nat
    BY <2>2 DEF Goto, Return, Types, LabelsOfCopies
  <2> QED
    BY <2>1, <2>3, CallVarsStay DEF BytesStay, streamVars
<1>2. ASSUME NEW label \in {"w_look", "r_look", "close"},
             NEW c \in Nat, NEW nb \in BOOLEAN, Call(label, c, nb)
      PROVE  /\ BytesStay /\ UNCHANGED << control, toHost, toCaller >>
             /\ pc' \notin LabelsOfCopies /\ count' \in Nat /\ n' \in Nat
  BY <1>2 DEF Call, Types, BytesStay, streamVars, LabelsOfCopies, CallUnchanged,
       deviceVars, isrVars
<1>3. Counts \subseteq Nat /\ 0 \in Nat
  BY CallAssumption
<1> QED
  BY <1>1, <1>2, <1>3 DEF OtherCallStep

LEMMA NextInv == IInv /\ [Next]_vars => IInv'
<1> SUFFICES ASSUME IInv, [Next]_vars PROVE IInv'
  OBVIOUS
<1>1. CASE HostScan
  BY <1>1, HostScanInv
<1>2. CASE HostCheck
  <2>1. BytesStay /\ UNCHANGED << callVars, control >>
    BY <1>2 DEF HostCheck, BytesStay, isrVars, streamVars
  <2> QED
    BY <2>1, RoutineGoesOn DEF IInv, Types, SpaceIsThere
<1>3. CASE Isr
  BY <1>3, IsrControlInv, IsrRxInv, IsrRxEndInv, IsrTxInv DEF Isr
<1>4. CASE \/ WriteLook \/ WriteCopy \/ WritePublish
           \/ ReadLook \/ ReadCopy \/ ReadPublish
  BY <1>4, WriteLookInv, WriteCopyInv, WritePublishInv,
     ReadLookInv, ReadCopyInv, ReadPublishInv
<1>5. CASE OtherCallStep
  BY <1>5, OtherCallStepIsQuiet, CallGoesOn DEF IInv
<1>6. CASE UNCHANGED vars
  BY <1>6, RoutineGoesOn
  DEF IInv, Types, SpaceIsThere, vars, BytesStay, deviceVars, isrVars, streamVars
<1> QED
  BY <1>1, <1>2, <1>3, <1>4, <1>5, <1>6
  DEF Next, CallStep, WriteStep, ReadStep, OtherCallStep

LEMMA Invariance == Spec => []IInv
BY InitInv, NextInv, PTL DEF Spec
-----------------------------------------------------------------------------
(* The two directions as streams: what is on its way to the host, and what *)
(* is on its way to the caller of read.                                    *)
Outward == txFifo \o InRing(tx_buf, tx_out, tx_in)
Inward == InRing(rx_buf, rx_out, rx_in) \o rxFifo

OutwardStep == [ToHost!Next]_<< Outward, txSent, toHost >>
InwardStep == [FromHost!Next]_<< Inward, rxSent, toCaller >>

(* No more bytes are on their way than the ring and the FIFO hold.         *)
LEMMA OnTheirWay ==
  ASSUME IInv
  PROVE  /\ InRing(tx_buf, tx_out, tx_in) \in Seq(Nat)
         /\ InRing(rx_buf, rx_out, rx_in) \in Seq(Nat)
         /\ Outward \in Seq(Nat) /\ Inward \in Seq(Nat)
         /\ Len(Outward) = Len(txFifo) + Held(tx_out, tx_in)
         /\ Len(Inward) = Held(rx_out, rx_in) + Len(rxFifo)
         /\ Len(Outward) <= BufLen - 1 + Depth
         /\ Len(Inward) <= BufLen - 1 + Depth
         /\ Held(tx_out, tx_in) \in Nat /\ Held(tx_out, tx_in) < BufLen
         /\ Held(rx_out, rx_in) \in Nat /\ Held(rx_out, rx_in) < BufLen
         /\ Len(txFifo) \in Nat /\ Len(rxFifo) \in Nat
         /\ Len(txFifo) <= Depth /\ Len(rxFifo) <= Depth
         /\ BufLen \in Nat /\ Depth \in Nat
<1>1. /\ rxFifo \in Seq(Nat) /\ txFifo \in Seq(Nat)
      /\ rx_buf \in [Cells -> Nat] /\ rx_in \in Cells /\ rx_out \in Cells
      /\ tx_buf \in [Cells -> Nat] /\ tx_in \in Cells /\ tx_out \in Cells
  BY DEF IInv, Types
<1>2. /\ InRing(tx_buf, tx_out, tx_in) \in Seq(Nat)
      /\ Len(InRing(tx_buf, tx_out, tx_in)) = Held(tx_out, tx_in)
      /\ InRing(rx_buf, rx_out, rx_in) \in Seq(Nat)
      /\ Len(InRing(rx_buf, rx_out, rx_in)) = Held(rx_out, rx_in)
  BY <1>1, RingBytes, Zenon
<1>3. Held(tx_out, tx_in) \in Cells /\ Held(rx_out, rx_in) \in Cells
  BY <1>1, HeldIs, Zenon
<1>4. /\ Outward \in Seq(Nat) /\ Len(Outward) = Len(txFifo) + Held(tx_out, tx_in)
      /\ Inward \in Seq(Nat) /\ Len(Inward) = Held(rx_out, rx_in) + Len(rxFifo)
  BY <1>1, <1>2, ConcatProperties DEF Outward, Inward
<1>5. Len(txFifo) \in Nat /\ Len(rxFifo) \in Nat
  BY <1>1, LenProperties
<1>6. Len(txFifo) <= Depth /\ Len(rxFifo) <= Depth
  BY <1>5, Size DEF IInv, Types, SpaceIsThere
<1> QED
  BY <1>2, <1>3, <1>4, <1>5, <1>6, Size DEF Cells

LEMMA FitsOnTheWay ==
  ASSUME IInv, NEW k \in Nat, k > 0, k <= Len(Outward) \/ k <= Len(Inward)
  PROVE  k \in 1 .. BufLen - 1 + Depth
<1>1. /\ Len(Outward) \in Nat /\ Len(Outward) <= BufLen - 1 + Depth
      /\ Len(Inward) \in Nat /\ Len(Inward) <= BufLen - 1 + Depth
      /\ BufLen \in Nat /\ Depth \in Nat
  BY OnTheirWay
<1> QED
  BY <1>1

(* The front of a queue is delivered.                                      *)
LEMMA FrontDelivered ==
  ASSUME NEW a \in Seq(Nat), NEW b \in Seq(Nat), NEW q, q = a \o b
  PROVE  /\ SubSeq(q, 1, Len(a)) = a
         /\ SubSeq(q, Len(a) + 1, Len(q)) = b
         /\ Len(a) <= Len(q)
<1>1. /\ q \in Seq(Nat) /\ Len(q) = Len(a) + Len(b)
      /\ \A i \in 1 .. Len(a) + Len(b) :
           q[i] = IF i <= Len(a) THEN a[i] ELSE b[i - Len(a)]
  BY ConcatProperties
<1>2. Len(a) \in Nat /\ Len(b) \in Nat
  OBVIOUS
<1>3. \A i \in 1 .. Len(q) : q[i] \in Nat
  BY <1>1, ElementOfSeq
<1> DEFINE u == SubSeq(q, 1, Len(a))
           v == SubSeq(q, Len(a) + 1, Len(q))
<1>4. /\ u \in Seq(Nat) /\ Len(u) = Len(a)
      /\ \A i \in 1 .. Len(a) : u[i] = q[i]
  <2>1. \A i \in 1 .. Len(a) : q[i] \in Nat
    BY <1>1, <1>2, <1>3
  <2>2. /\ u \in Seq(Nat)
        /\ Len(u) = IF 1 <= Len(a) THEN Len(a) - 1 + 1 ELSE 0
        /\ \A i \in 1 .. Len(a) - 1 + 1 : u[i] = q[1 + i - 1]
    BY <1>2, <2>1, SubSeqProperties
  <2> QED
    BY <1>2, <2>2
<1>5. /\ v \in Seq(Nat) /\ Len(v) = Len(b)
      /\ \A i \in 1 .. Len(b) : v[i] = q[Len(a) + i]
  <2>1. \A i \in Len(a) + 1 .. Len(q) : q[i] \in Nat
    BY <1>1, <1>2, <1>3
  <2>2. Len(a) + 1 \in Int /\ Len(q) \in Int
    BY <1>1, <1>2
  <2>3. /\ v \in Seq(Nat)
        /\ Len(v) = IF Len(a) + 1 <= Len(q) THEN Len(q) - (Len(a) + 1) + 1 ELSE 0
        /\ \A i \in 1 .. Len(q) - (Len(a) + 1) + 1 : v[i] = q[Len(a) + 1 + i - 1]
    BY <2>1, <2>2, SubSeqProperties
  <2>4. Len(q) - (Len(a) + 1) + 1 = Len(b)
    BY <1>1, <1>2
  <2>5. \A i \in 1 .. Len(b) : Len(a) + 1 + i - 1 = Len(a) + i
    BY <1>2
  <2> QED
    BY <1>1, <1>2, <2>3, <2>4, <2>5
<1> HIDE DEF u, v
<1>6. u = a
  <2>1. \A i \in 1 .. Len(u) : u[i] = a[i]
    BY <1>1, <1>2, <1>4
  <2> QED
    BY <1>4, <2>1, SeqEqual
<1>7. v = b
  <2>1. \A i \in 1 .. Len(v) : v[i] = b[i]
    BY <1>1, <1>2, <1>5
  <2> QED
    BY <1>5, <2>1, SeqEqual
<1> QED
  BY <1>1, <1>2, <1>6, <1>7 DEF u, v
-----------------------------------------------------------------------------
LEMMA SameNumbers ==
  /\ \A from, len : ToHost!Numbered(from, len) = Numbered(from, len)
  /\ \A from, len : FromHost!Numbered(from, len) = Numbered(from, len)
BY DEF ToHost!Numbered, FromHost!Numbered, Numbered

(* A step of a stream, from its two halves.                                *)
LEMMA OutwardDelivers ==
  ASSUME IInv, NEW a \in Seq(Nat), NEW b \in Seq(Nat), Len(a) > 0,
         Outward = a \o b, Outward' = b, toHost' = a, txSent' = txSent
  PROVE  OutwardStep
<1>1. /\ SubSeq(Outward, 1, Len(a)) = a
      /\ SubSeq(Outward, Len(a) + 1, Len(Outward)) = b
      /\ Len(a) <= Len(Outward)
  BY FrontDelivered
<1>2. Len(a) \in 1 .. BufLen - 1 + Depth
  <2>1. Len(a) \in Nat
    OBVIOUS
  <2> QED
    BY <1>1, <2>1, FitsOnTheWay
<1>3. ToHost!Deliver(Len(a))
  BY <1>1 DEF ToHost!Deliver, Outward
<1> QED
  BY <1>2, <1>3 DEF OutwardStep, ToHost!Next

LEMMA InwardDelivers ==
  ASSUME IInv, NEW a \in Seq(Nat), NEW b \in Seq(Nat), Len(a) > 0,
         Inward = a \o b, Inward' = b, toCaller' = a, rxSent' = rxSent
  PROVE  InwardStep
<1>1. /\ SubSeq(Inward, 1, Len(a)) = a
      /\ SubSeq(Inward, Len(a) + 1, Len(Inward)) = b
      /\ Len(a) <= Len(Inward)
  BY FrontDelivered
<1>2. Len(a) \in 1 .. BufLen - 1 + Depth
  <2>1. Len(a) \in Nat
    OBVIOUS
  <2> QED
    BY <1>1, <2>1, FitsOnTheWay
<1>3. FromHost!Deliver(Len(a))
  BY <1>1 DEF FromHost!Deliver, Inward
<1> QED
  BY <1>2, <1>3 DEF InwardStep, FromHost!Next

LEMMA OutwardStays ==
  ASSUME UNCHANGED << txFifo, txVars, txSent, toHost >>
  PROVE  OutwardStep
BY DEF OutwardStep, Outward, txVars

LEMMA InwardStays ==
  ASSUME UNCHANGED << rxFifo, rxVars, rxSent, toCaller >>
  PROVE  InwardStep
BY DEF InwardStep, Inward, rxVars

(* A byte taken from a queue.                                              *)
LEMMA HeadDelivered ==
  ASSUME NEW f \in Seq(Nat), f # << >>, NEW r \in Seq(Nat)
  PROVE  /\ << Head(f) >> \in Seq(Nat) /\ Len(<< Head(f) >>) = 1
         /\ Tail(f) \o r \in Seq(Nat)
         /\ f \o r = << Head(f) >> \o (Tail(f) \o r)
<1>1. /\ Head(f) \in Nat /\ Tail(f) \in Seq(Nat) /\ Len(f) \in Nat \ {0}
      /\ Len(Tail(f)) = Len(f) - 1 /\ Head(f) = f[1]
      /\ \A i \in 1 .. Len(Tail(f)) : Tail(f)[i] = f[i + 1]
  BY HeadTailProperties, EmptySeq
<1> DEFINE v == << Head(f) >>
           x == v \o Tail(f)
<1>2. v \in Seq(Nat) /\ Len(v) = 1 /\ v[1] = f[1]
  BY <1>1
<1> HIDE DEF v
<1>3. /\ x \in Seq(Nat) /\ Len(x) = Len(v) + Len(Tail(f))
      /\ \A j \in 1 .. Len(v) + Len(Tail(f)) :
           x[j] = IF j <= Len(v) THEN v[j] ELSE Tail(f)[j - Len(v)]
  BY <1>1, <1>2, ConcatProperties, Zenon
<1> HIDE DEF x
<1>4. Len(x) = Len(f) /\ \A j \in 1 .. Len(x) : x[j] = f[j]
  BY <1>1, <1>2, <1>3
<1>5. x = f
  BY <1>3, <1>4, SeqEqual
<1>6. x \o r = v \o (Tail(f) \o r)
  BY <1>1, <1>2, Joined DEF x
<1>7. Tail(f) \o r \in Seq(Nat)
  BY <1>1, ConcatProperties
<1> QED
  BY <1>2, <1>5, <1>6, <1>7 DEF v
-----------------------------------------------------------------------------
LEMMA HostScanOutward == IInv /\ HostScan => OutwardStep
<1> SUFFICES ASSUME IInv, HostScan PROVE OutwardStep
  OBVIOUS
<1> DEFINE r == InRing(tx_buf, tx_out, tx_in)
<1>1. UNCHANGED << txVars, txSent >>
  BY DEF HostScan
<1>2. CASE txFifo = << >>
  BY <1>1, <1>2, OutwardStays DEF HostScan
<1>3. CASE txFifo # << >>
  <2>1. txFifo \in Seq(Nat) /\ r \in Seq(Nat)
    BY OnTheirWay DEF IInv, Types
  <2>2. txFifo' = Tail(txFifo) /\ toHost' = << Head(txFifo) >>
    BY <1>3 DEF HostScan
  <2>3. Outward = txFifo \o r /\ Outward' = Tail(txFifo) \o r
    BY <1>1, <2>2 DEF Outward, txVars
  <2> HIDE DEF r
  <2>4. /\ << Head(txFifo) >> \in Seq(Nat) /\ Len(<< Head(txFifo) >>) = 1
        /\ Tail(txFifo) \o r \in Seq(Nat)
        /\ txFifo \o r = << Head(txFifo) >> \o (Tail(txFifo) \o r)
    BY <1>3, <2>1, HeadDelivered
  <2> DEFINE a == << Head(txFifo) >>
             b == Tail(txFifo) \o r
  <2>5. /\ a \in Seq(Nat) /\ Len(a) > 0 /\ b \in Seq(Nat)
        /\ Outward = a \o b /\ Outward' = b /\ toHost' = a /\ txSent' = txSent
    BY <1>1, <2>2, <2>3, <2>4
  <2> HIDE DEF a, b
  <2> QED
    BY <2>5, OutwardDelivers
<1> QED
  BY <1>2, <1>3

LEMMA HostScanInward == IInv /\ HostScan => InwardStep
<1> SUFFICES ASSUME IInv, HostScan PROVE InwardStep
  OBVIOUS
<1> DEFINE r == InRing(rx_buf, rx_out, rx_in)
<1>1. UNCHANGED << rxVars, toCaller >>
  BY DEF HostScan
<1>2. CASE UNCHANGED << rxFifo, rxSent >>
  BY <1>1, <1>2, InwardStays
<1>3. CASE /\ Len(rxFifo) < Depth /\ rxFifo' = Append(rxFifo, rxSent)
           /\ rxSent' = rxSent + 1
  <2>1. /\ rxFifo \in Seq(Nat) /\ r \in Seq(Nat) /\ rxSent \in Nat
        /\ << rxSent >> \in Seq(Nat)
    BY OnTheirWay DEF IInv, Types
  <2>2. Inward = r \o rxFifo /\ Inward' = r \o Append(rxFifo, rxSent)
    BY <1>1, <1>3 DEF Inward, rxVars
  <2> HIDE DEF r
  <2>3. Append(rxFifo, rxSent) = rxFifo \o << rxSent >>
    BY <2>1, AppendIsConcat, Zenon
  <2>4. (r \o rxFifo) \o << rxSent >> = r \o (rxFifo \o << rxSent >>)
    BY <2>1, Joined
  <2>5. Numbered(rxSent, 1) = << rxSent >>
    BY <2>1 DEF Numbered
  <2>6. Inward' = Inward \o FromHost!Numbered(rxSent, 1)
    BY <2>2, <2>3, <2>4, <2>5, SameNumbers
  <2>7. Len(Inward) + 1 <= BufLen - 1 + Depth /\ 1 \in 1 .. BufLen - 1 + Depth
    <3>1. /\ Len(Inward) = Held(rx_out, rx_in) + Len(rxFifo)
          /\ Held(rx_out, rx_in) \in Nat /\ Held(rx_out, rx_in) < BufLen
          /\ Len(rxFifo) \in Nat /\ BufLen \in Nat /\ Depth \in Nat
      BY OnTheirWay
    <3> QED
      BY <1>3, <3>1
  <2>8. FromHost!Send(1)
    BY <1>1, <1>3, <2>6, <2>7 DEF FromHost!Send, Inward
  <2> QED
    BY <2>7, <2>8 DEF InwardStep, FromHost!Next
<1> QED
  BY <1>2, <1>3 DEF HostScan

(* The interrupt routine moves a byte from one half of a queue to the      *)
(* other: to the user of the stream nothing happens.                       *)
LEMMA IsrTxOutward == IInv /\ IsrTx => OutwardStep
<1> SUFFICES ASSUME IInv, IsrTx PROVE OutwardStep
  OBVIOUS
<1>1. UNCHANGED << tx_in, tx_buf, txSent, toHost >>
  BY DEF IsrTx, streamVars
<1>2. CASE control.space > 0 /\ tx_out # tx_in
  <2>1. Len(txFifo) \in Nat /\ Len(txFifo) < Depth
    BY <1>2, Size DEF IInv, Types, SpaceIsThere
  <2>2. txFifo' = Append(txFifo, tx_buf[tx_out]) /\ tx_out' = After(tx_out, 1)
    BY <1>2, <2>1 DEF IsrTx
  <2>3. /\ txFifo \in Seq(Nat) /\ tx_buf \in [Cells -> Nat]
        /\ tx_out \in Cells /\ tx_in \in Cells
    BY DEF IInv, Types
  <2>4. Append(txFifo, tx_buf[tx_out]) \o InRing(tx_buf, After(tx_out, 1), tx_in)
          = txFifo \o InRing(tx_buf, tx_out, tx_in)
    BY <1>2, <2>3, MovedToFifo
  <2>5. Outward' = Outward
    BY <1>1, <2>2, <2>4 DEF Outward
  <2> QED
    BY <1>1, <2>5 DEF OutwardStep
<1>3. CASE ~(control.space > 0 /\ tx_out # tx_in)
  <2>1. UNCHANGED << txFifo, tx_out >>
    BY <1>3 DEF IsrTx
  <2> QED
    BY <1>1, <2>1, OutwardStays DEF txVars
<1> QED
  BY <1>2, <1>3

LEMMA IsrRxInward == IInv /\ IsrRx => InwardStep
<1> SUFFICES ASSUME IInv, IsrRx PROVE InwardStep
  OBVIOUS
<1>1. UNCHANGED << rx_out, rxSent, toCaller >>
  BY DEF IsrRx, streamVars
<1>2. CASE ~RxFull /\ rxFifo # << >>
  <2>1. /\ After(rx_in, 1) # rx_out
        /\ rxFifo' = Tail(rxFifo) /\ rx_in' = After(rx_in, 1)
        /\ rx_buf' = [rx_buf EXCEPT ![rx_in] = Head(rxFifo)]
    BY <1>2 DEF IsrRx, RxFull
  <2>2. /\ rxFifo \in Seq(Nat) /\ rx_buf \in [Cells -> Nat]
        /\ rx_in \in Cells /\ rx_out \in Cells
    BY DEF IInv, Types
  <2>3. IsMoved(rxFifo, rx_buf, rx_buf', rx_out, rx_in)
    BY <1>2, <2>1, <2>2, MovedToRing
  <2>4. Inward' = Inward
    BY <1>1, <2>1, <2>3 DEF Inward, IsMoved
  <2> QED
    BY <1>1, <2>4 DEF InwardStep
<1>3. CASE RxFull \/ rxFifo = << >>
  <2>1. UNCHANGED << rxFifo, rxVars >>
    BY <1>3 DEF IsrRx, rxVars
  <2> QED
    BY <1>1, <2>1, InwardStays
<1> QED
  BY <1>2, <1>3

(* write hands its bytes over when it publishes them, and read takes them. *)
LEMMA WritePublishOutward == IInv /\ WritePublish => OutwardStep
<1> SUFFICES ASSUME IInv, WritePublish PROVE OutwardStep
  OBVIOUS
<1> DEFINE r == InRing(tx_buf, tx_out, tx_in)
<1>1. /\ UNCHANGED << txFifo, tx_out, tx_buf, toHost >>
      /\ tx_in' = After(tx_in, n) /\ txSent' = txSent + n /\ pc = "w_publish"
  BY CallVarsStay DEF WritePublish, At
<1>2. /\ txFifo \in Seq(Nat) /\ tx_buf \in [Cells -> Nat]
      /\ tx_out \in Cells /\ tx_in \in Cells /\ n \in Nat /\ txSent \in Nat
  BY DEF IInv, Types
<1>3. /\ n > 0 /\ n + Held(tx_out, tx_in) < BufLen /\ tx_in + n <= BufLen
      /\ \A k \in 0 .. n - 1 : tx_buf[tx_in + k] = txSent + k
  BY <1>1 DEF IInv, RoomToWrite, Copied
<1>4. IsExtended(tx_buf, tx_out, tx_in, n, txSent)
  BY <1>2, <1>3, RingExtended
<1>5. r \in Seq(Nat) /\ Numbered(txSent, n) \in Seq(Nat)
  BY <1>2, OnTheirWay, NumberedBytes
<1>6. Outward = txFifo \o r /\ Outward' = txFifo \o (r \o Numbered(txSent, n))
  BY <1>1, <1>4 DEF Outward, IsExtended
<1> HIDE DEF r
<1>7. Outward' = Outward \o ToHost!Numbered(txSent, n)
  BY <1>2, <1>5, <1>6, Joined, SameNumbers
<1>8. Len(Outward) + n <= BufLen - 1 + Depth /\ n \in 1 .. BufLen - 1 + Depth
  <2>1. /\ Len(Outward) = Len(txFifo) + Held(tx_out, tx_in)
        /\ Held(tx_out, tx_in) \in Nat /\ Len(txFifo) \in Nat
        /\ Len(txFifo) <= Depth /\ BufLen \in Nat /\ Depth \in Nat
    BY OnTheirWay
  <2> QED
    BY <1>2, <1>3, <2>1
<1>9. ToHost!Send(n)
  BY <1>1, <1>7, <1>8 DEF ToHost!Send, Outward
<1> QED
  BY <1>8, <1>9 DEF OutwardStep, ToHost!Next

LEMMA ReadPublishInward == IInv /\ ReadPublish => InwardStep
<1> SUFFICES ASSUME IInv, ReadPublish PROVE InwardStep
  OBVIOUS
<1> DEFINE a == Front(rx_buf, rx_out, n)
           s == InRing(rx_buf, After(rx_out, n), rx_in)
           b == s \o rxFifo
<1>1. /\ UNCHANGED << rxFifo, rx_in, rx_buf, rxSent >> /\ toCaller' = chunk
      /\ rx_out' = After(rx_out, n) /\ pc = "r_publish"
  BY CallVarsStay DEF ReadPublish, At
<1>2. /\ rxFifo \in Seq(Nat) /\ rx_buf \in [Cells -> Nat]
      /\ rx_out \in Cells /\ rx_in \in Cells /\ n \in Nat
  BY DEF IInv, Types
<1>3. n > 0 /\ n <= Held(rx_out, rx_in) /\ rx_out + n <= BufLen /\ chunk = a
  BY <1>1 DEF IInv, BytesToRead, Taken, Front
<1>4. /\ a \in Seq(Nat) /\ Len(a) = n /\ s \in Seq(Nat)
      /\ InRing(rx_buf, rx_out, rx_in) = a \o s
  BY <1>2, <1>3, RingSplit, Zenon
<1>5. Inward = (a \o s) \o rxFifo /\ Inward' = s \o rxFifo
  BY <1>1, <1>4 DEF Inward
<1> HIDE DEF a, s
<1>6. b \in Seq(Nat) /\ Inward = a \o b /\ Inward' = b
  BY <1>2, <1>4, <1>5, Joined, ConcatProperties
<1> HIDE DEF b
<1> QED
  BY <1>1, <1>3, <1>4, <1>6, InwardDelivers

(* The bytes are copied behind those on their way.                         *)
LEMMA WriteCopyIsQuiet == IInv /\ WriteCopy => OutwardStep /\ InwardStep
<1> SUFFICES ASSUME IInv, WriteCopy PROVE OutwardStep /\ InwardStep
  OBVIOUS
<1>1. /\ UNCHANGED << rxFifo, txFifo, rxVars, tx_in, tx_out, streamVars >>
      /\ pc = "w_copy"
  BY CallVarsStay DEF WriteCopy, At
<1>2. /\ tx_buf \in [Cells -> Nat] /\ tx_buf' \in [Cells -> Nat]
      /\ tx_out \in Cells /\ tx_in \in Cells /\ n \in Nat
  BY WriteCopyInv DEF IInv, Types
<1>3. n + Held(tx_out, tx_in) < BufLen /\ tx_in + n <= BufLen
  BY <1>1 DEF IInv, RoomToWrite
<1>4. Held(tx_out, tx_in) \in Cells
  BY <1>2, HeldIs
<1>5. ASSUME NEW k \in 0 .. Held(tx_out, tx_in) - 1
      PROVE  tx_buf'[Cell(tx_out, k)] = tx_buf[Cell(tx_out, k)]
  <2>1. Cell(tx_out, k) \notin tx_in .. tx_in + n - 1
    BY <1>2, <1>3, FreeCells
  <2>2. Cell(tx_out, k) \in Cells
    <3>1. k \in Nat /\ k <= BufLen
      BY <1>4, Size DEF Cells
    <3> QED
      BY <1>2, <3>1, CellIs
  <2> QED
    BY <1>2, <2>1, <2>2 DEF WriteCopy
<1>6. SameRing(tx_buf, tx_buf', tx_out, tx_in)
  BY <1>2, <1>5, RingUntouched
<1>7. Outward' = Outward
  BY <1>1, <1>6 DEF Outward, SameRing
<1>8. OutwardStep
  BY <1>1, <1>7 DEF OutwardStep, streamVars
<1> QED
  BY <1>1, <1>8, InwardStays DEF streamVars

(* Every step of the driver is a step of each stream, or none.             *)
LEMMA NextStep == IInv /\ [Next]_vars => OutwardStep /\ InwardStep
<1> SUFFICES ASSUME IInv, [Next]_vars PROVE OutwardStep /\ InwardStep
  OBVIOUS
<1>1. CASE HostScan
  BY <1>1, HostScanOutward, HostScanInward
<1>2. CASE HostCheck \/ IsrControl \/ IsrRxEnd \/ UNCHANGED vars
  <2>1. UNCHANGED << rxFifo, txFifo, rxVars, txVars, streamVars >>
    BY <1>2 DEF HostCheck, IsrControl, IsrRxEnd, vars, deviceVars
  <2> QED
    BY <2>1, OutwardStays, InwardStays DEF streamVars
<1>3. CASE IsrRx
  <2>1. UNCHANGED << txFifo, txVars, streamVars >>
    BY <1>3 DEF IsrRx
  <2> QED
    BY <1>3, <2>1, OutwardStays, IsrRxInward DEF streamVars
<1>4. CASE IsrTx
  <2>1. UNCHANGED << rxFifo, rxVars, streamVars >>
    BY <1>4 DEF IsrTx
  <2> QED
    BY <1>4, <2>1, InwardStays, IsrTxOutward DEF streamVars
<1>5. CASE WritePublish
  <2>1. UNCHANGED << rxFifo, rxVars, rxSent, toCaller >>
    BY <1>5, CallVarsStay DEF WritePublish, At
  <2> QED
    BY <1>5, <2>1, InwardStays, WritePublishOutward
<1>6. CASE ReadPublish
  <2>1. UNCHANGED << txFifo, txVars, txSent, toHost >>
    BY <1>6, CallVarsStay DEF ReadPublish, At
  <2> QED
    BY <1>6, <2>1, OutwardStays, ReadPublishInward
<1>7. CASE WriteLook \/ ReadLook \/ ReadCopy
  <2>1. CallUnchanged /\ UNCHANGED << rxVars, txVars, streamVars >>
    BY <1>7 DEF WriteLook, ReadLook, ReadCopy, At
  <2> QED
    BY <2>1, CallVarsStay, OutwardStays, InwardStays DEF streamVars
<1>8. CASE OtherCallStep
  <2>1. BytesStay /\ UNCHANGED << toHost, toCaller >>
    BY <1>8, OtherCallStepIsQuiet DEF IInv
  <2> QED
    BY <2>1, OutwardStays, InwardStays DEF BytesStay
<1>9. CASE WriteCopy
  BY <1>9, WriteCopyIsQuiet
<1> QED
  BY <1>1, <1>2, <1>3, <1>4, <1>5, <1>6, <1>7, <1>8, <1>9
  DEF Next, Isr, CallStep, WriteStep, ReadStep, OtherCallStep

LEMMA StreamInit ==
  Init => ToHost!Init /\ FromHost!Init
<1> SUFFICES ASSUME Init PROVE ToHost!Init /\ FromHost!Init
  OBVIOUS
<1>1. 0 \in Cells /\ Held(0, 0) = 0
  BY Size DEF Cells, Held
<1>2. InRing(rx_buf, 0, 0) = << >> /\ InRing(tx_buf, 0, 0) = << >>
  <2>1. (0 - 0) % BufLen = 0
    BY <1>1, HeldIs
  <2> QED
    BY <2>1 DEF InRing
<1> QED
  BY <1>2 DEF Init, ToHost!Init, FromHost!Init

(* The host is given what write accepted, all of it, once and in order,    *)
(* whatever the sizes, with no critical section anywhere in the driver.    *)
THEOREM WritesImplementStream == Spec => WritesReachHostInOrder
BY StreamInit, NextStep, Invariance, PTL
DEF Spec, OutwardStep, Outward, WritesReachHostInOrder, ToHost!Spec

(* The callers of read are given what the host sent, all of it, once and   *)
(* in order, however full the buffer is and wherever a call stands.        *)
THEOREM ReadsImplementStream == Spec => ReadsAreInOrder
BY StreamInit, NextStep, Invariance, PTL
DEF Spec, InwardStep, Inward, ReadsAreInOrder, FromHost!Spec
=============================================================================
