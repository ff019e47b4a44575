------------------------------ MODULE MCSequencer ------------------------------
EXTENDS Sequencer

MCDQ == {0, 1}

(* A board that calibrates, and the ways one part of it may differ.           *)
Good == [ gate |-> 20, gateLength |-> 20, latency |-> 3, pattern |-> 0 .. 5,
          declared |-> 2,
          read  |-> [i \in MCDQ |-> -3 .. 2], write |-> [i \in MCDQ |-> -2 .. 3],
          mask  |-> -2 .. 2 ]
Windows == { lo .. hi : lo \in {-5, -3, -2, 0, 2, 4}, hi \in {-4, -2, 0, 1, 3, 5} }
Some == { lo .. hi : lo \in {-5, -2}, hi \in {-1, 2, 5} }
MCBoards ==
       { [Good EXCEPT !.gate = g, !.gateLength = n] :
           g \in 0 .. 79, n \in {0, 1, 3, 4, 5, 7, 9, 12, 18, 20, 22, 27, 33, 34, 40, 70} }
  \cup { [Good EXCEPT !.read = [i \in MCDQ |-> IF i = 0 THEN v ELSE w], !.pattern = o] :
           v \in Windows, w \in Some, o \in {0 .. 5, {2}} }
  \cup { [Good EXCEPT !.write = [i \in MCDQ |-> IF i = 0 THEN v ELSE w]] :
           v \in Windows, w \in Some }
  \cup { [Good EXCEPT !.mask = v, !.write = [i \in MCDQ |-> w]] :
           v \in Windows, w \in Some }
  \cup { [Good EXCEPT !.latency = n, !.declared = m, !.pattern = o] :
           n \in 0 .. 8, m \in {0, 2, 5}, o \in {{}, {1}, {2}, {4}} }

(* Boards that differ in their latency only, from none to more than the       *)
(* register holds.                                                            *)
MCLatencies == { [Good EXCEPT !.latency = n, !.declared = 5] : n \in 0 .. 8 }
===============================================================================
