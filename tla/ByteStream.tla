----------------------------- MODULE ByteStream -----------------------------
(***************************************************************************)
(* What one direction of the JTAG UART promises: the bytes come out as     *)
(* they went in, all of them, once and in order, and no more than Capacity *)
(* of them are on their way.  The bytes are numbered as they are sent.     *)
(* JtagUart is shown to implement this in both directions.                 *)
(***************************************************************************)
EXTENDS Integers, Sequences

CONSTANT
  Capacity   \* bytes the two buffers of a direction hold

VARIABLES
  queue,      \* the bytes sent and not delivered
  sent,       \* the number of the next byte
  delivered   \* the bytes of the last delivery

Init == queue = << >> /\ sent = 0 /\ delivered = << >>

Numbered(from, n) == [i \in 1 .. n |-> from + i - 1]

Send(n) ==
  /\ Len(queue) + n <= Capacity
  /\ queue' = queue \o Numbered(sent, n)
  /\ sent' = sent + n
  /\ UNCHANGED delivered

Deliver(n) ==
  /\ n <= Len(queue)
  /\ delivered' = SubSeq(queue, 1, n)
  /\ queue' = SubSeq(queue, n + 1, Len(queue))
  /\ UNCHANGED sent

Next == \E n \in 1 .. Capacity : Send(n) \/ Deliver(n)

Spec == Init /\ [][Next]_<< queue, sent, delivered >>
=============================================================================
