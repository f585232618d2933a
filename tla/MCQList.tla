------------------------------ MODULE MCQList ------------------------------
(***************************************************************************)
(* A push, a pop and a client that blocks, which are enough for an empty   *)
(* list to stay behind.                                                    *)
(***************************************************************************)
EXTENDS QList

CONSTANTS c1, c2, a

PushAndPop ==
    {[op |-> "push", key |-> a, end |-> "left", n |-> 1, create |-> TRUE],
     [op |-> "pop", key |-> a, end |-> "left"],
     [op |-> "bpop", keys |-> <<a>>, end |-> "left", timed |-> FALSE, to |-> None]}
=============================================================================
