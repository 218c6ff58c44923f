------------------------------- MODULE Base64 -------------------------------
(***************************************************************************)
(* base64_encode and base64_decode, which carry signatures and digests in  *)
(* requests.  A letter, a digit, '+' or '/' is its position 0 .. 63 in the *)
(* alphabet; the other characters have the numbers named below.  Decoding  *)
(* yields a record whose ok is false when the code throws.                 *)
(***************************************************************************)
EXTENDS Integers, Sequences, SequencesExt

CONSTANTS
    Bytes,      \* bytes considered
    MaxLength,  \* bound on the length of a string
    Distance    \* line length of the form with line breaks

Minus == 64         \* stands for '+' in the url form
Underscore == 65    \* stands for '/' in the url form
EqualSign == 66
Dot == 67
LineBreak == 68

VARIABLE bytes      \* the string being encoded

Init == bytes = <<>>

\* Every string over Bytes is reached.
Extend == Len(bytes) < MaxLength /\ \E b \in Bytes : bytes' = Append(bytes, b)

Spec == Init /\ [][Extend]_bytes

-----------------------------------------------------------------------------
base64_chars(sextet, url) == IF url /\ sextet >= 62 THEN sextet + 2 ELSE sextet

\* The sextets of a chunk of n bytes, b filled up with zeros.
Sextets(b, n) ==
    <<b[1] \div 4, (b[1] % 4) * 16 + b[2] \div 16>>
    \o (IF n = 1 THEN <<>> ELSE <<(b[2] % 16) * 4 + b[3] \div 64>>)
    \o (IF n < 3 THEN <<>> ELSE <<b[3] % 64>>)

Padding(n, url) == [i \in 1 .. 3 - n |-> IF url THEN Dot ELSE EqualSign]

\* The chunk that starts after the first pos bytes.
EncodeChunk(s, pos, url) ==
    LET n == IF Len(s) - pos < 3 THEN Len(s) - pos ELSE 3
        b == [i \in 1 .. 3 |-> IF i <= n THEN s[pos + i] ELSE 0]
        sextets == Sextets(b, n)
    IN  [i \in DOMAIN sextets |-> base64_chars(sextets[i], url)] \o Padding(n, url)

base64_encode(s, url) ==
    FlattenSeq([c \in 1 .. (Len(s) + 2) \div 3 |-> EncodeChunk(s, 3 * (c - 1), url)])

-----------------------------------------------------------------------------
Failure == [ok |-> FALSE, bytes |-> <<>>]

\* The position of a character, or -1 where the code throws.
pos_of_char(c) ==
    CASE c < 64 -> c
      [] c = Minus -> 62
      [] c = Underscore -> 63
      [] OTHER -> -1

\* Data, not padding and not the end, at position i.
HasData(s, i) == i <= Len(s) /\ s[i] \notin {EqualSign, Dot}

\* The chunk that starts after the first pos characters; a second character
\* that is missing is read as the terminating zero, which is no base64.
DecodeChunk(s, pos) ==
    LET p(i) == IF pos + i > Len(s) THEN -1 ELSE pos_of_char(s[pos + i])
        second == HasData(s, pos + 3)
        third == second /\ HasData(s, pos + 4)
    IN  IF p(1) < 0 \/ p(2) < 0 \/ (second /\ p(3) < 0) \/ (third /\ p(4) < 0)
        THEN Failure
        ELSE [ok |-> TRUE,
              bytes |-> <<(p(1) * 4 + p(2) \div 16) % 256>>
                        \o (IF second THEN <<(p(2) % 16) * 16 + p(3) \div 4>> ELSE <<>>)
                        \o (IF third THEN <<(p(3) % 4) * 64 + p(4)>> ELSE <<>>)]

base64_decode(s, remove_linebreaks) ==
    LET t == IF remove_linebreaks THEN SelectSeq(s, LAMBDA c : c # LineBreak) ELSE s
        chunks == [c \in 1 .. (Len(t) + 3) \div 4 |-> DecodeChunk(t, 4 * (c - 1))]
    IN  IF \A c \in DOMAIN chunks : chunks[c].ok
        THEN [ok |-> TRUE, bytes |-> FlattenSeq([c \in DOMAIN chunks |-> chunks[c].bytes])]
        ELSE Failure

-----------------------------------------------------------------------------
RECURSIVE InsertFrom(_, _)
\* The loop of insert_linebreaks.
InsertFrom(s, pos) ==
    IF pos >= Len(s) THEN s
    ELSE InsertFrom(SubSeq(s, 1, pos) \o <<LineBreak>> \o SubSeq(s, pos + 1, Len(s)),
                    pos + Distance + 1)

\* insert_linebreaks
insert_linebreaks(s) == InsertFrom(s, Distance)

Lines(s) ==
    LET breaks == {0, Len(s) + 1} \cup {i \in DOMAIN s : s[i] = LineBreak}
    IN  {<<i, j>> \in breaks \X breaks : i < j /\ \A k \in breaks : k <= i \/ j <= k}

-----------------------------------------------------------------------------
\* Both forms of the encoding are inverted by base64_decode, which accepts the
\* characters and the padding of either: the signature that a server checks is
\* the one that was made.
RoundTrip ==
    \A url \in BOOLEAN :
        base64_decode(base64_encode(bytes, url), FALSE) = [ok |-> TRUE, bytes |-> bytes]

\* An encoding that was cut short never yields other bytes: what is decoded is a
\* beginning of the string, or nothing when a single character is left over.
CutShort ==
    LET code == base64_encode(bytes, FALSE)
    IN  \A n \in 0 .. Len(code) :
            LET d == base64_decode(SubSeq(code, 1, n), FALSE)
            IN  IF n % 4 = 1 THEN ~d.ok
                ELSE d.ok /\ IsPrefix(d.bytes, bytes)

\* The form with line breaks has lines of exactly Distance characters, except
\* the last, and is decoded to the same bytes when the breaks are removed.
LineBreaks ==
    LET code == insert_linebreaks(base64_encode(bytes, FALSE))
    IN  /\ base64_decode(code, TRUE) = [ok |-> TRUE, bytes |-> bytes]
        /\ \A l \in Lines(code) :
               /\ l[2] - l[1] - 1 <= Distance
               /\ l[2] <= Len(code) => l[2] - l[1] - 1 = Distance
=============================================================================
