--------------------------- MODULE ChunkedParser ----------------------------
(***************************************************************************)
(* The incremental decoder of chunked bodies (chunked_parser.h and .cc)    *)
(* and the loop in which its callers feed it what a read has brought.  A   *)
(* body arrives in reads of any size; hexadecimal digits other than 0 and  *)
(* 1 add nothing and are left out.                                         *)
(***************************************************************************)
EXTENDS Naturals, SequencesExt, FiniteSetsExt

CONSTANTS
    Word,      \* 2^32: chunk_remaining is a u32
    MaxBytes,  \* bound: bytes of a body
    MaxRead    \* bound: bytes of a read

CR == "cr"
LF == "lf"
Bytes == {"0", "1", ";", CR, LF}

VARIABLES
    parser,   \* [state, chunk_remaining, has_digits]
    verdict,  \* what the caller has learned: "more", "done" or "error"
    used,     \* bytes the caller has advanced past
    decoded,  \* the regions returned with ChunkStatus::Data, one after the other
    got       \* history: the bytes read

cp_vars == <<parser, verdict, used, decoded, got>>

----------------------------------------------------------------------------
\* -1 in the code for what is no digit
hex_val(c) == IF c = "1" THEN 1 ELSE 0
IsHex(c) == c \in {"0", "1"}

NewParser == [state |-> "Size", chunk_remaining |-> 0, has_digits |-> FALSE]

\* Mutant: a size may overflow.
Rejects_NoOverflow(p, c) ==
    CASE p.state = "Size" -> IF IsHex(c) THEN FALSE ELSE c \notin {CR, ";"} \/ ~p.has_digits
      [] p.state = "DataCR" -> c # CR
      [] p.state \in {"SizeLF", "DataLF", "TrailerLF", "TrailerLineLF"} -> c # LF
      [] OTHER -> FALSE

\* The returns of ChunkStatus::Error in feed().
Rejects(p, c) ==
    CASE p.state = "Size" -> IF IsHex(c) THEN p.chunk_remaining > Word \div 16 - 1
                             ELSE c \notin {CR, ";"} \/ ~p.has_digits
      [] p.state = "DataCR" -> c # CR
      [] p.state \in {"SizeLF", "DataLF", "TrailerLF", "TrailerLineLF"} -> c # LF
      [] OTHER -> FALSE

\* The state after a byte that is neither data nor rejected.
Advance(p, c) ==
    CASE p.state = "Size" ->
            IF IsHex(c) THEN [p EXCEPT !.chunk_remaining = (16 * @ + hex_val(c)) % Word,
                                       !.has_digits = TRUE]
            ELSE [p EXCEPT !.state = IF c = CR THEN "SizeLF" ELSE "Extension"]
      [] p.state = "SizeLF" ->
            [p EXCEPT !.state = IF p.chunk_remaining = 0 THEN "Trailer" ELSE "Data"]
      [] p.state = "Extension" -> [p EXCEPT !.state = IF c = CR THEN "SizeLF" ELSE @]
      [] p.state = "DataCR" -> [p EXCEPT !.state = "DataLF"]
      [] p.state = "DataLF" -> NewParser
      [] p.state = "Trailer" -> [p EXCEPT !.state = IF c = CR THEN "TrailerLF" ELSE "TrailerLine"]
      [] p.state = "TrailerLF" -> [p EXCEPT !.state = "Complete"]
      [] p.state = "TrailerLine" -> [p EXCEPT !.state = IF c = CR THEN "TrailerLineLF" ELSE @]
      [] p.state = "TrailerLineLF" -> [p EXCEPT !.state = "Trailer"]

\* feed(), from position pos of the input on.
RECURSIVE feed(_, _, _)
feed(p, input, pos) ==
    LET Return(status, q, n, out) == [status |-> status, p |-> q, consumed |-> n, out |-> out]
        c == input[pos + 1]
        n == Min({Len(input) - pos, p.chunk_remaining})
    IN  CASE pos = Len(input) -> Return("NeedMore", p, pos, <<>>)
          [] pos < Len(input) /\ p.state = "Data" ->
                Return("Data", [p EXCEPT !.chunk_remaining = @ - n,
                                         !.state = IF p.chunk_remaining = n THEN "DataCR" ELSE @],
                       pos + n, SubSeq(input, pos + 1, pos + n))
          [] pos < Len(input) /\ p.state = "Complete" -> Return("Done", p, pos, <<>>)
          [] pos < Len(input) /\ p.state \notin {"Data", "Complete"} ->
                IF Rejects(p, c) THEN Return("Error", p, pos, <<>>)
                ELSE LET q == Advance(p, c)
                     IN  IF q.state = "Complete" THEN Return("Done", q, pos + 1, <<>>)
                         ELSE feed(q, input, pos + 1)

\* The loop of the callers: feed what is left until it is used up, the body ends
\* or it turns out malformed.
RECURSIVE FeedAll(_, _)
FeedAll(p, input) ==
    IF input = <<>> THEN [p |-> p, verdict |-> "more", used |-> 0, out |-> <<>>]
    ELSE LET r == feed(p, input, 0)
             rest == FeedAll(r.p, SubSeq(input, r.consumed + 1, Len(input)))
         IN  IF r.status = "Data"
             THEN [rest EXCEPT !.used = @ + r.consumed, !.out = r.out \o @]
             ELSE [p |-> r.p, used |-> r.consumed, out |-> <<>>,
                   verdict |-> CASE r.status = "Done" -> "done"
                                 [] r.status = "Error" -> "error"
                                 [] r.status = "NeedMore" -> "more"]

----------------------------------------------------------------------------
ParserInit == parser = NewParser /\ verdict = "more" /\ used = 0 /\ decoded = <<>> /\ got = <<>>

\* A read, and the caller's loop over it.
ReadBody(bytes) ==
    /\ verdict = "more" /\ Len(got) + Len(bytes) <= MaxBytes
    /\ LET r == FeedAll(parser, bytes)
       IN  /\ parser' = r.p /\ verdict' = r.verdict
           /\ used' = used + r.used /\ decoded' = decoded \o r.out
    /\ got' = got \o bytes

ParserNext == \E n \in 1 .. MaxRead : \E bytes \in TupleOf(Bytes, n) : ReadBody(bytes)

----------------------------------------------------------------------------
(* What the bytes mean, from the grammar: a line ends at its first CR, and *)
(* the bytes that follow a line or a chunk are a CR and a LF as far as     *)
(* they have come.                                                         *)

ToCR(s) == LET crs == { i \in DOMAIN s : s[i] = CR }
           IN  IF crs = {} THEN s ELSE SubSeq(s, 1, Min(crs) - 1)

EndsAt(s, k) == \A j \in 0 .. 1 : k + j <= Len(s) => s[k + j] = <<CR, LF>>[j + 1]

After(s, k) == SubSeq(s, k, Len(s))

Digits(t) == LET other == { i \in DOMAIN t : ~IsHex(t[i]) }
             IN  IF other = {} THEN t ELSE SubSeq(t, 1, Min(other) - 1)

SizeOf(t) == FoldLeft(LAMBDA n, c : Min({16 * n + hex_val(c), Word}), 0, Digits(t))

SizeLine(t, whole) ==
    /\ Len(Digits(t)) < Len(t) => Digits(t) # <<>> /\ t[Len(Digits(t)) + 1] = ";"
    /\ whole => Digits(t) # <<>>
    /\ SizeOf(t) < Word

Body(v, n, data) == [verdict |-> v, used |-> n, decoded |-> data]
Later(b, n, data) == Body(b.verdict, b.used + n, data \o b.decoded)

RECURSIVE Trailers(_)
Trailers(s) ==
    LET k == Len(ToCR(s)) + 1
    IN  IF ~EndsAt(s, k) THEN Body("error", 0, <<>>)
        ELSE IF Len(s) < k + 1 THEN Body("more", Len(s), <<>>)
        ELSE IF k = 1 THEN Body("done", 2, <<>>)
        ELSE Later(Trailers(After(s, k + 2)), k + 1, <<>>)

RECURSIVE Meant(_)
Meant(s) ==
    LET line == ToCR(s)
        k    == Len(line) + 1
        size == SizeOf(line)
        data == SubSeq(s, k + 2, Min({k + 1 + size, Len(s)}))
        past == k + 2 + size
    IN  IF ~SizeLine(line, k <= Len(s)) \/ ~EndsAt(s, k) THEN Body("error", 0, <<>>)
        ELSE IF Len(s) < k + 1 THEN Body("more", Len(s), <<>>)
        ELSE IF size = 0 THEN Later(Trailers(After(s, k + 2)), k + 1, <<>>)
        ELSE IF ~EndsAt(s, past) THEN Body("error", 0, data)
        ELSE IF Len(s) < past + 1 THEN Body("more", Len(s), data)
        ELSE Later(Meant(After(s, past + 2)), past + 1, data)

\* However a chunked body is cut into reads, the parser finds the same end, the
\* same data and the same errors as the grammar, and a size that does not fit a u32
\* is an error and never a small size.  The caller stops right behind the body.
DecodesTheBody ==
    LET b == Meant(got)
    IN  /\ verdict = b.verdict /\ decoded = b.decoded
        /\ verdict # "error" => used = b.used
=============================================================================
