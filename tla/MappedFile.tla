----------------------------- MODULE MappedFile -----------------------------
(***************************************************************************)
(* OutputMemoryFile, and OMmapFile of ananas: a file written through a      *)
(* mapping.  The file on disk is as long as the mapping while it is open,   *)
(* zeros behind what was written; Close cuts it, a crash does not, and the  *)
(* next start looks for where the text ends.                               *)
(*                                                                         *)
(* A crash is of the process: what was written to the mapping stays, so     *)
(* that Sync has nothing to add.                                           *)
(***************************************************************************)
EXTENDS Integers, Sequences

CONSTANTS Bytes,        \* of a text: not zero
          DefaultSize,  \* kDefaultSize; 1 MB in the code
          MaxPiece,     \* bound: bytes of a write
          MaxBytes,     \* bound: bytes of a file
          MaxCrashes    \* bound: crashes

VARIABLES
    append,     \* the file is opened to append (the log), or from its start
    disk,       \* the file
    opened,     \* file_ is open, and memory_ is the file
    offset,     \* offset_
    size,       \* size_
    written,    \* history: the text written to it
    crashed,    \* history: it was left open by a crash
    blank,      \* history: it was, before the first byte was written
    crashes     \* the bound's counter

fileVars == <<append, disk, opened, offset, size, written, crashed, blank, crashes>>

Zero == "zero"

TypeOK ==
    /\ append \in BOOLEAN /\ opened \in BOOLEAN
    /\ crashed \in BOOLEAN /\ blank \in BOOLEAN
    /\ \A i \in 1..Len(disk) : disk[i] \in Bytes \cup {Zero}
    /\ \A i \in 1..Len(written) : written[i] \in Bytes
    /\ opened => Len(disk) = size /\ offset <= size
    /\ crashes \in 0..MaxCrashes

Init ==
    /\ append \in BOOLEAN
    /\ disk = <<>> /\ opened = FALSE /\ offset = 0 /\ size = 0
    /\ written = <<>> /\ crashed = FALSE /\ blank = FALSE
    /\ crashes = 0

\* ftruncate.
Resized(file, length) == [i \in 1..length |-> IF i <= Len(file) THEN file[i] ELSE Zero]

-----------------------------------------------------------------------------

\* Open; a log that a crash left behind is recovered first.
Open ==
    /\ ~opened /\ ~(append /\ crashed)
    /\ opened' = TRUE
    /\ size' = IF append /\ Len(disk) > DefaultSize THEN Len(disk) ELSE DefaultSize
    /\ offset' = IF append THEN Len(disk) ELSE 0
    /\ disk' = Resized(disk, size')
    /\ written' = IF append THEN written ELSE <<>>
    /\ crashed' = FALSE
    /\ UNCHANGED <<append, blank, crashes>>

\* _AssureSpace: the size is doubled until the bytes fit.
Enough(length) == CHOOSE n \in {size * 2^k : k \in 0..8} :
                     n >= length /\ \A k \in 0..8 : size * 2^k >= length => n <= size * 2^k

Write(s) ==
    /\ opened /\ offset + Len(s) <= MaxBytes
    /\ size' = Enough(offset + Len(s))
    /\ disk' = [i \in 1..size' |->
                   IF i - offset \in 1..Len(s) THEN s[i - offset] ELSE Resized(disk, size')[i]]
    /\ offset' = offset + Len(s)
    /\ written' = written \o s
    /\ UNCHANGED <<append, opened, crashed, blank, crashes>>

\* Mutant: the file is not cut.
CloseUncut ==
    /\ opened /\ opened' = FALSE
    /\ offset' = 0 /\ size' = 0
    /\ UNCHANGED <<append, disk, written, crashed, blank, crashes>>

\* Close: the file is cut behind what was written.
Close ==
    /\ opened /\ opened' = FALSE
    /\ disk' = SubSeq(disk, 1, offset)
    /\ offset' = 0 /\ size' = 0
    /\ UNCHANGED <<append, written, crashed, blank, crashes>>

Crash ==
    /\ opened /\ crashes < MaxCrashes
    /\ crashes' = crashes + 1
    /\ opened' = FALSE /\ offset' = 0 /\ size' = 0
    /\ crashed' = TRUE /\ blank' = (blank \/ written = <<>>)
    /\ UNCHANGED <<append, disk, written>>

\* TruncateTailZero: behind the last byte that is not zero; the first byte is never
\* looked at as one to cut.
TextEnd(file) ==
    LET text == {i \in 1..Len(file) : file[i] # Zero}
    IN  IF text = {} THEN 1 ELSE CHOOSE i \in text : \A j \in text : j <= i

\* The load at the next start: Open, TruncateTailZero and Close, which cuts at what
\* Open and Truncate left in offset_.
Recover ==
    /\ ~opened /\ append
    /\ LET end == TextEnd(Resized(disk, IF Len(disk) > DefaultSize THEN Len(disk)
                                        ELSE DefaultSize))
       IN  disk' = SubSeq(disk, 1, IF Len(disk) > end THEN end ELSE Len(disk))
    /\ crashed' = FALSE
    /\ UNCHANGED <<append, opened, offset, size, written, blank, crashes>>

Next == \/ Open \/ Close \/ Crash \/ Recover
        \/ \E n \in 1..MaxPiece : \E s \in [1..n -> Bytes] : Write(s)

Spec == Init /\ [][Next]_fileVars

-----------------------------------------------------------------------------
(***************************************************************************)
(* Properties.                                                             *)
(***************************************************************************)

\* A file that is closed, or recovered after a crash, is the text written to it and
\* no more, though it was longer while it was open, though a file it is written over
\* was longer; an open one begins with that text.  A crash before the first byte is
\* the exception.
IsTheText ==
    /\ ~opened /\ ~crashed /\ ~blank => disk = written
    /\ opened /\ ~blank => offset = Len(written) /\ SubSeq(disk, 1, offset) = written

=============================================================================
