------------------------------- MODULE Parser -------------------------------
(***************************************************************************)
(* The requests of a connection: QProtoParser and QClient's inline          *)
(* commands, of which the proxy's ServerProtocol and ClientConn are the     *)
(* same.  A request is an array of strings, each with its length before it, *)
(* or a line of words.  Its bytes come in pieces; the parser keeps what it   *)
(* has read of a request, and what it has not consumed stays in the buffer. *)
(*                                                                         *)
(* Requests are well-formed.                                               *)
(***************************************************************************)
EXTENDS Integers, Sequences, SequencesExt

CONSTANTS Streams       \* each a sequence of requests: inline or not, and its words

VARIABLES
    stream,     \* the requests that the client sends
    text,       \* their bytes
    arrived,    \* how many of their bytes have arrived
    taken,      \* how many of them were consumed
    multi,      \* multi_
    paramLen,   \* paramLen_
    params,     \* params_, up to numOfParam_
    content,    \* content_: the proxy's copy of the request's bytes
    got,        \* history: the requests that were handled
    sent,       \* history: the bytes of each, as the proxy forwards them
    closed,     \* OnError was called
    broken      \* history: a number was read before its end had arrived, and ...

parserVars == <<stream, text, arrived, taken, multi, paramLen, params, content, got, sent,
                closed, broken>>

-----------------------------------------------------------------------------

Digits == <<"0", "1", "2", "3", "4", "5", "6", "7", "8", "9">>
IsDigit(c) == c \in ToSet(Digits)
CRLF == <<"CR", "LF">>

Decimal(n) == IF n < 10 THEN <<Digits[n + 1]>>
              ELSE IF n < 100 THEN <<Digits[n \div 10 + 1], Digits[(n % 10) + 1]>>
              ELSE <<Digits[n \div 100 + 1], Digits[((n \div 10) % 10) + 1], Digits[(n % 10) + 1]>>

Bulk(word) == <<"$">> \o Decimal(Len(word)) \o CRLF \o word \o CRLF

Encoded(r) ==
    IF r.inline THEN FoldLeft(LAMBDA line, word : line \o <<" ">> \o word, <<>>, r.words) \o CRLF
    ELSE <<"*">> \o Decimal(Len(r.words)) \o CRLF
         \o FoldLeft(LAMBDA all, word : all \o Bulk(word), <<>>, r.words)

Bytes(some) == FoldLeft(LAMBDA all, r : all \o Encoded(r), <<>>, some)

\* One without words asks for nothing.
Asking == SelectSeq(stream, LAMBDA r : r.words # <<>>)

-----------------------------------------------------------------------------
(***************************************************************************)
(* The parser, over the bytes p + 1 to e of the text: what it returns, how  *)
(* far it is then, and what it keeps.                                      *)
(***************************************************************************)

Value(ds) == FoldLeft(LAMBDA n, d : 10 * n + (CHOOSE i \in 0..9 : Digits[i + 1] = d), 0, ds)

\* GetIntUntilCRLF.  If there is nothing but digits it takes the number for whole, and
\* the CRLF for read.
GetInt(p, e) ==
    LET last == CHOOSE i \in p..e : /\ \A j \in (p + 1)..i : IsDigit(text[j])
                                    /\ i = e \/ ~IsDigit(text[i + 1])
        read == [ret |-> "ok", ptr |-> last + 2, val |-> Value(SubSeq(text, p + 1, last))]
    IN  IF e - p < 3 THEN [ret |-> "wait", ptr |-> p, val |-> -1]
        ELSE IF last = e THEN read
        ELSE IF text[last + 1] # "CR" \/ (last + 2 <= e /\ text[last + 2] # "LF")
             THEN [ret |-> "error", ptr |-> p, val |-> -1]
        ELSE IF last + 1 = e THEN [ret |-> "wait", ptr |-> p, val |-> -1]
        ELSE read

\* _ParseMulti: unless there is the whole of the number, the asterisk is consumed all
\* the same.
ParseMulti(p, e) ==
    IF e - p < 3 THEN [ret |-> "wait", ptr |-> p, val |-> -1]
    ELSE IF text[p + 1] # "*" THEN [ret |-> "error", ptr |-> p, val |-> -1]
    ELSE GetInt(p + 1, e)

\* Mutant: the length's sign is consumed, too.
ParseStrlenSkips(p, e) ==
    IF e - p < 3 THEN [ret |-> "wait", ptr |-> p, val |-> -1]
    ELSE IF text[p + 1] # "$" THEN [ret |-> "error", ptr |-> p, val |-> -1]
    ELSE GetInt(p + 1, e)

\* _ParseStrlen.
ParseStrlen(p, e) ==
    IF e - p < 3 THEN [ret |-> "wait", ptr |-> p, val |-> -1]
    ELSE IF text[p + 1] # "$" THEN [ret |-> "error", ptr |-> p, val |-> -1]
    ELSE LET int == GetInt(p + 1, e)
         IN  IF int.ret = "ok" THEN int ELSE [int EXCEPT !.ptr = p]

\* _ParseStrval: a word whose length is known.
ParseStrval(s, e, len) ==
    LET tail == len.ptr + len.val
        known == [s EXCEPT !.ret = "wait", !.ptr = len.ptr, !.paramLen = len.val]
    IN  IF e < tail + 2 THEN known
        ELSE IF SubSeq(text, tail + 1, tail + 2) # CRLF THEN [known EXCEPT !.ret = "error"]
        ELSE [s EXCEPT !.ptr = tail + 2, !.paramLen = -1,
                       !.params = Append(@, SubSeq(text, len.ptr + 1, tail))]

\* _ParseStr: one more word, whose length may be known from before.
WithLength(s, e, len) ==
    IF len.ret = "ok" THEN ParseStrval(s, e, len)
    ELSE [s EXCEPT !.ret = len.ret, !.ptr = len.ptr]

ParseStr(s, e) ==
    WithLength(s, e, IF s.paramLen = -1 THEN ParseStrlen(s.ptr, e)
                     ELSE [ret |-> "ok", ptr |-> s.ptr, val |-> s.paramLen])

\* _ParseStrlist, behind the array's length.
ParseStrlist(head, e) ==
    LET start == [ret |-> head.ret, ptr |-> head.ptr, multi |-> head.val,
                  paramLen |-> paramLen, params |-> params]
    IN  IF head.ret # "ok" THEN start
        ELSE FoldLeft(LAMBDA s, i : IF s.ret = "ok" THEN ParseStr(s, e) ELSE s, start,
                      [i \in 1..(head.val - Len(params)) |-> i])

\* ParseRequest: the length may be known from before, too.
ParseRequest(p, e) ==
    ParseStrlist(IF multi = -1 THEN ParseMulti(p, e)
                 ELSE [ret |-> "ok", ptr |-> p, val |-> multi], e)

\* _ProcessInlineCmd: the words of the first line, if its end is there.
InlineEnd(p, e) == {i \in (p + 1)..(e - 1) : SubSeq(text, i, i + 1) = CRLF}

Words(line) ==
    LET blank(i) == i \in {0, Len(line) + 1} \/ line[i] = " "
        begins == SelectSeq([i \in 1..Len(line) |-> i], LAMBDA i : blank(i - 1) /\ ~blank(i))
        length(b) == CHOOSE n \in 1..Len(line) : /\ blank(b + n)
                                                 /\ \A k \in 1..(n - 1) : ~blank(b + k)
    IN  [k \in 1..Len(begins) |-> SubSeq(line, begins[k], begins[k] + length(begins[k]) - 1)]

ProcessInlineCmd(p, e) ==
    LET ends == InlineEnd(p, e)
        first == CHOOSE i \in ends : \A j \in ends : i <= j
    IN  [ret |-> IF ends = {} THEN "wait" ELSE "ok",
         ptr |-> IF ends = {} THEN p ELSE first + 1, multi |-> -1, paramLen |-> -1,
         params |-> IF ends = {} THEN <<>> ELSE Words(SubSeq(text, p + 1, first - 1))]

\* _HandlePacket: what is not an array is a line.
Parsed ==
    LET s == ParseRequest(taken, arrived)
    IN  IF s.ret = "error" /\ multi = -1 /\ s.multi = -1 THEN ProcessInlineCmd(taken, arrived)
        ELSE s

\* What ServerProtocol's ParseRequest, _ParseStr and _ParseStrval append to content_ on
\* the way: all that is consumed, but for an asterisk whose number is still to come.
Content(s) ==
    IF multi = -1 /\ s.ret = "wait" /\ s.multi = -1 THEN content
    ELSE content \o SubSeq(text, taken + 1, s.ptr)

-----------------------------------------------------------------------------

TypeOK ==
    /\ stream \in Streams /\ text = Bytes(stream)
    /\ arrived \in 0..Len(text) /\ taken \in 0..(arrived + 2)
    /\ multi >= -1 /\ paramLen >= -1
    /\ multi >= 0 => Len(params) <= multi
    /\ closed \in BOOLEAN /\ broken \in {"no", "asterisk", "beyond"}

Init ==
    /\ stream \in Streams /\ text = Bytes(stream)
    /\ arrived = 0 /\ taken = 0
    /\ multi = -1 /\ paramLen = -1 /\ params = <<>>
    /\ content = <<>> /\ got = <<>> /\ sent = <<>> /\ closed = FALSE /\ broken = "no"

Arrive ==
    /\ \E n \in (arrived + 1)..Len(text) : arrived' = n
    /\ UNCHANGED <<stream, text, taken, multi, paramLen, params, content, got, sent, closed, broken>>

\* DoMsgParse calls _HandlePacket while it consumes something.  A parser that went
\* beyond what has arrived reads old bytes of the buffer, which is left out.
HandlePacket ==
    /\ taken < arrived /\ ~closed /\ broken # "beyond"
    /\ \E s \in {Parsed} :
          /\ taken' = s.ptr
          /\ closed' = (s.ret = "error")
          /\ IF s.ret = "ok"
             THEN /\ IF s.params = <<>> THEN UNCHANGED <<got, sent>>
                     ELSE got' = Append(got, s.params) /\ sent' = Append(sent, Content(s))
                  /\ multi' = -1 /\ paramLen' = -1 /\ params' = <<>> /\ content' = <<>>
             ELSE /\ multi' = s.multi /\ paramLen' = s.paramLen /\ params' = s.params
                  /\ content' = Content(s)
                  /\ UNCHANGED <<got, sent>>
          /\ broken' = IF s.ptr > arrived THEN "beyond"
                       ELSE IF multi = -1 /\ s.ret = "wait" /\ s.ptr = taken + 1 THEN "asterisk"
                       ELSE broken
    /\ UNCHANGED <<stream, text, arrived>>

Next == Arrive \/ HandlePacket

Spec == Init /\ [][Next]_parserVars

-----------------------------------------------------------------------------
(***************************************************************************)
(* Properties.                                                             *)
(***************************************************************************)

\* Whatever pieces they come in, the requests are handled as they were sent, each as
\* soon as its last byte is there, and the proxy forwards each with the bytes it came
\* in.  Excused is what follows a piece that ended in a number: in the count of an
\* array, whose asterisk is then lost, or behind three or more digits, which are taken
\* for all of it (QCommon.cc:356-379).
RequestsAreWhole ==
    broken = "no" =>
        /\ ~closed /\ Len(got) <= Len(Asking)
        /\ \A i \in 1..Len(got) : got[i] = Asking[i].words /\ sent[i] = Encoded(Asking[i])
        /\ arrived = Len(text) /\ Parsed.ptr = taken => Len(got) = Len(Asking)

=============================================================================
