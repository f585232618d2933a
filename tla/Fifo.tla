-------------------------------- MODULE Fifo --------------------------------
(***************************************************************************)
(* What every buffer of the program promises, whatever its memory looks     *)
(* like: bytes come out in the order they went in, none lost, none twice    *)
(* and none that nobody put there.                                         *)
(*                                                                         *)
(* The steps relate the bytes held before and after to those put or taken   *)
(* in the step, so that no set of possible bytes has to be named.          *)
(***************************************************************************)
EXTENDS Sequences

VARIABLES
    held,       \* the bytes between the read and the write position
    gave,       \* the bytes the last step put in
    got         \* the bytes the last step took out

fifoVars == <<held, gave, got>>

Init == held = <<>> /\ gave = <<>> /\ got = <<>>

Put == held' = held \o gave' /\ got' = <<>>

Take == held = got' \o held' /\ gave' = <<>>

Clear == held' = <<>> /\ gave' = <<>> /\ got' = <<>>

Next == Put \/ Take \/ Clear

Spec == Init /\ [][Next]_fifoVars

=============================================================================
