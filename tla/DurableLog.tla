----------------------------- MODULE DurableLog -----------------------------
(***************************************************************************)
(* What the append-only file promises: of the commands executed it keeps a  *)
(* first part, which only grows, not even a rewrite makes it shorter.       *)
(* After a crash the server goes on from that part and from nothing else,   *)
(* if the last command of the file is whole.  If it is not, or the file has *)
(* no command, the server goes on from another file's data, and this file   *)
(* is apart from it until it is rewritten.                                 *)
(*                                                                         *)
(* The file may get damaged: nothing is promised of it then, until a        *)
(* rewrite replaces it or the server starts from what it has.               *)
(***************************************************************************)
EXTENDS Naturals, Sequences

VARIABLES
    log,        \* the commands executed
    kept,       \* how many of them the file stands for
    whole,      \* the last command of the file is whole
    up,         \* the server runs
    damaged,    \* the file is not what was written to it, or it is apart
    apart       \* the server did not start from the file

logVars == <<log, kept, whole, up, damaged, apart>>

Init ==
    /\ log = <<>> /\ kept = 0 /\ whole = TRUE /\ up = TRUE
    /\ damaged = FALSE /\ apart = FALSE

Execute ==
    /\ up
    /\ Len(log') = Len(log) + 1 /\ SubSeq(log', 1, Len(log)) = log
    /\ UNCHANGED <<kept, whole, up, damaged, apart>>

Write ==
    /\ up
    /\ whole' \in BOOLEAN /\ damaged' \in BOOLEAN /\ apart' \in {FALSE, apart}
    /\ apart' => damaged'
    /\ ~damaged' => kept' <= Len(log) /\ (apart \/ kept <= kept')
    /\ UNCHANGED <<log, up>>

Crash ==
    /\ up /\ ~up'
    /\ UNCHANGED <<log, kept, whole, damaged, apart>>

\* The file is loaded, and is what the server has then.
RestartFromFile ==
    /\ whole
    /\ ~damaged => log' = SubSeq(log, 1, kept)
    /\ kept' = Len(log') /\ whole' /\ ~damaged' /\ ~apart'

RestartBesideFile ==
    /\ ~whole \/ kept = 0
    /\ whole' = whole
    /\ damaged' = apart' /\ apart' = (~whole \/ log' # <<>>)
    /\ ~damaged' => kept' = 0

Restart ==
    /\ ~up /\ up'
    /\ RestartFromFile \/ RestartBesideFile

Next == Execute \/ Write \/ Crash \/ Restart

Spec == Init /\ [][Next]_logVars

=============================================================================
