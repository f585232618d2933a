-------------------------------- MODULE Glob --------------------------------
(***************************************************************************)
(* QGlobRegex: does a pattern match a text?  The code goes over both with   *)
(* two offsets and, at a star, tries every rest of the text, coming back    *)
(* with the offsets where they were.                                       *)
(*                                                                         *)
(* A pattern is taken as its tokens: a star, a question mark, a set of      *)
(* characters in brackets or what is not in it, a character.               *)
(***************************************************************************)
EXTENDS Integers, Sequences

CONSTANTS Chars,        \* of a text
          Sets,         \* sets of characters in brackets
          MaxPattern,   \* bound: tokens of a pattern
          MaxText       \* bound: characters of a text

Star == [kind |-> "star", set |-> {}]
Question == [kind |-> "question", set |-> {}]
Tokens == {Star, Question} \cup [kind : {"in", "out"}, set : Sets]
          \cup {[kind |-> "char", set |-> {c}] : c \in Chars}

PatternSet == UNION {[1..n -> Tokens] : n \in 0..MaxPattern}
TextSet == UNION {[1..n -> Chars] : n \in 0..MaxText}

VARIABLES pattern, text

globVars == <<pattern, text>>

-----------------------------------------------------------------------------

\* What is read behind the text: the zero that ends it.
At(t, i) == IF i <= Len(t) THEN t[i] ELSE "zero"

\* A bracket moves the text's offset on though the text has ended, if that character
\* is not in it.
InBracket(token, c) == (c \in token.set) = (token.kind = "in")

\* TryMatch from the offsets i and j on, which count what was matched.
RECURSIVE TryMatch(_, _, _, _), ProcessStar(_, _, _, _)

\* Mutant: the text's offset is moved on before the first try.
ProcessStarLate(p, i, t, j) ==
    IF i = Len(p) THEN TRUE
    ELSE IF p[i + 1] = Star THEN ProcessStar(p, i + 1, t, j)
    ELSE \E k \in (j + 1)..(Len(t) - 1) : TryMatch(p, i, t, k)

\* _ProcessStar, behind a star: the stars that follow are skipped; the last token of a
\* pattern matches all that is left, or else some rest that is not empty must match.
ProcessStar(p, i, t, j) ==
    IF i = Len(p) THEN TRUE
    ELSE IF p[i + 1] = Star THEN ProcessStar(p, i + 1, t, j)
    ELSE \E k \in j..(Len(t) - 1) : TryMatch(p, i, t, k)

TryMatch(p, i, t, j) ==
    IF i = Len(p) THEN j = Len(t)
    ELSE LET token == p[i + 1] IN
         CASE token = Star -> ProcessStar(p, i + 1, t, j)
           [] token = Question -> j # Len(t) /\ TryMatch(p, i + 1, t, j + 1)
           [] token.kind \in {"in", "out"} ->
                InBracket(token, At(t, j + 1)) /\ TryMatch(p, i + 1, t, j + 1)
           [] OTHER -> j < Len(t) /\ t[j + 1] \in token.set /\ TryMatch(p, i + 1, t, j + 1)

-----------------------------------------------------------------------------
(***************************************************************************)
(* What a pattern means, without offsets.                                  *)
(***************************************************************************)

Admits(token, c) == CASE token = Question -> TRUE
                      [] token.kind = "out" -> c \notin token.set
                      [] OTHER -> c \in token.set

\* A match gives each token a run of the text, one after the other: any run to a star,
\* a single character it admits to every other.
Means(p, t) ==
    \E cut \in [0..Len(p) -> 0..Len(t)] :
        /\ cut[0] = 0 /\ cut[Len(p)] = Len(t)
        /\ \A i \in 1..Len(p) :
              IF p[i] = Star THEN cut[i - 1] <= cut[i]
              ELSE cut[i] = cut[i - 1] + 1 /\ Admits(p[i], t[cut[i]])

Init == pattern \in PatternSet /\ text \in TextSet

-----------------------------------------------------------------------------
(***************************************************************************)
(* Properties.                                                             *)
(***************************************************************************)

\* A bracket that excludes, met where the text ends, takes the zero for a character
\* and goes behind it, where question marks go on; only a star matches there.
GoesBeyond(p, t) ==
    \E i \in 1..(Len(p) - 1), last \in 1..Len(p) :
        /\ p[i].kind = "out" /\ (i = 1 \/ p[i - 1] # Star)
        /\ i < last
        /\ \A k \in (i + 1)..Len(p) : p[k] = IF k < last THEN Question ELSE Star
        /\ Means(SubSeq(p, 1, i - 1), t)

\* A bracket behind such a bracket may read memory behind the text.
ReadsBeyond(p) ==
    \E i, j \in 1..Len(p) : /\ i < j
                            /\ p[i].kind = "out" /\ p[j].kind \in {"in", "out"}
                            /\ \A k \in (i + 1)..(j - 1) : p[k] = Question

\* A pattern matches a text if and only if the text can be cut along it, or a bracket
\* goes beyond its end (QGlobRegex.cc:185-221: no test of the text's length).  Patterns
\* that may read what is behind the text are left out.
MatchesWhatItMeans ==
    ReadsBeyond(pattern)
        \/ TryMatch(pattern, 0, text, 0) = (Means(pattern, text) \/ GoesBeyond(pattern, text))

=============================================================================
