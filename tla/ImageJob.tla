------------------------------ MODULE ImageJob ------------------------------
(***************************************************************************)
(* What the two processors promise together, without threads, batches,     *)
(* flags or a split: the pixels of an image are decrypted in order, a      *)
(* pixel is filtered once, after it has been decrypted, and the image is   *)
(* saved when all of it is filtered.  The job may also be lost.            *)
(***************************************************************************)
EXTENDS Integers

CONSTANT Size   \* pixels of the image

VARIABLES
  decrypted,    \* pixels 0 .. decrypted-1 are decrypted
  filtered,     \* the pixels that are filtered
  outcome       \* "running", "saved" or "lost"

vars == << decrypted, filtered, outcome >>

Init ==
  /\ decrypted = 0
  /\ filtered = {}
  /\ outcome = "running"

Decrypt ==
  /\ outcome = "running"
  /\ decrypted < Size
  /\ decrypted' = decrypted + 1
  /\ UNCHANGED << filtered, outcome >>

Filter(p) ==
  /\ outcome = "running"
  /\ p < decrypted
  /\ p \notin filtered
  /\ filtered' = filtered \union {p}
  /\ UNCHANGED << decrypted, outcome >>

Save ==
  /\ outcome = "running"
  /\ filtered = 0 .. Size - 1
  /\ outcome' = "saved"
  /\ UNCHANGED << decrypted, filtered >>

Lose ==
  /\ outcome = "running"
  /\ outcome' = "lost"
  /\ UNCHANGED << decrypted, filtered >>

Next ==
  \/ Decrypt
  \/ \E p \in 0 .. Size - 1 : Filter(p)
  \/ Save
  \/ Lose

Spec == Init /\ [][Next]_vars
============================================================================
