------------------------------- MODULE MCSimulator -----------------------------
(***************************************************************************)
(* A program that ends, whatever the PC it starts from, and one that loops.*)
(***************************************************************************)
EXTENDS SerialSimulator

MCPackets == {[kind |-> k, address |-> 8] :
                 k \in {"c", "s", "g", "G", "Z", "z", "?", "k", "unsupported", "corrupt"}}

\* Two instructions, the SWI that ends the simulation, an undefined instruction.
Ending == [p \in {0, 4, 8, 12} |->
              CASE p = 0  -> [next |-> 4, result |-> 0]
                [] p = 4  -> [next |-> 8, result |-> 0]
                [] p = 8  -> [next |-> 12, result |-> 9]
                [] p = 12 -> [next |-> 0, result |-> 7]]

Looping == [p \in {0, 4, 8, 12} |->
               [next |-> IF p = 4 THEN 0 ELSE IF p = 12 THEN 0 ELSE p + 4, result |-> 0]]
================================================================================
