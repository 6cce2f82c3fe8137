------------------------------ MODULE HttpText ------------------------------
(***************************************************************************)
(* How client_thread() of httpd.c gets at its text: _read() and            *)
(* _readline() over the buffer that a read() fills as the client's bytes   *)
(* arrive, unescape() of a parameter and decodeBase64() of credentials.    *)
(*                                                                         *)
(* A byte is a small number.  The conversions work in place: they are      *)
(* modelled on the array that is read and written at the same time.        *)
(***************************************************************************)
EXTENDS Integers, Sequences, SequencesExt, FiniteSets

CONSTANTS
    IO_BUFFER,      \* size of the buffer of an iobuffer
    LineMax,        \* sizeof(buffer) - 1, the most bytes of a line
    StreamMax,      \* bound: bytes a client sends
    TextMax         \* bound: length of the texts converted

ASSUME HttpTextAssumption == IO_BUFFER \in Nat \ {0} /\ LineMax \in Nat \ {0} /\ StreamMax \in Nat /\ TextMax \in Nat

Newline == 0
Streams == SeqOf({Newline, 1, 2}, StreamMax)

VARIABLES
    htSent,     \* what the client sends, in all
    htComing,   \* what of it has not arrived
    htSocket,   \* what has arrived and was not read
    htBuffer,   \* iobuf->buffer
    htLevel,    \* iobuf->level
    htLine,     \* the bytes of the line so far
    htLines,    \* the lines returned
    htOver,     \* _readline() returned -1: client_thread() closes and reads no more
    htText,     \* a conversion: what it was given, <<>> for none
    htGot       \* and what it made

textVars == <<htSent, htComing, htSocket, htBuffer, htLevel, htLine, htLines, htOver, htText, htGot>>
readVars == <<htSent, htComing, htSocket, htBuffer, htLevel, htLine, htLines, htOver>>

Zeroes == [i \in 0..(IO_BUFFER - 1) |-> 0]

TextInit ==
    /\ htSent \in Streams /\ htComing = htSent /\ htSocket = <<>>
    /\ htBuffer = Zeroes /\ htLevel = 0
    /\ htLine = <<>> /\ htLines = <<>> /\ htOver = FALSE /\ htText = <<>> /\ htGot = <<>>

-----------------------------------------------------------------------------
(* Reading a line *)

\* The network delivers some bytes.
Arrive(n) ==
    /\ ~htOver /\ n <= Len(htComing)
    /\ htSocket' = htSocket \o SubSeq(htComing, 1, n) /\ htComing' = SubSeq(htComing, n + 1, Len(htComing))
    /\ UNCHANGED <<htSent, htBuffer, htLevel, htLine, htLines, htOver, htText, htGot>>

\* Mutant: the bytes stay where read() put them.
FillUnaligned ==
    /\ ~htOver /\ htLevel = 0 /\ htSocket # <<>>
    /\ LET n == IF Len(htSocket) < IO_BUFFER THEN Len(htSocket) ELSE IO_BUFFER
       IN  /\ htLevel' = n /\ htSocket' = SubSeq(htSocket, n + 1, Len(htSocket))
           /\ htBuffer' = [i \in DOMAIN Zeroes |-> IF i < n THEN htSocket[i + 1] ELSE 0]
    /\ UNCHANGED <<htSent, htComing, htLine, htLines, htOver, htText, htGot>>

\* _read() with an empty buffer: select() says there is something, read() fills the buffer, and the
\* bytes are moved to its end.
Fill ==
    /\ ~htOver /\ htLevel = 0 /\ htSocket # <<>>
    /\ LET n == IF Len(htSocket) < IO_BUFFER THEN Len(htSocket) ELSE IO_BUFFER
           first == IO_BUFFER - n
       IN  /\ htLevel' = n /\ htSocket' = SubSeq(htSocket, n + 1, Len(htSocket))
           /\ htBuffer' = [i \in DOMAIN Zeroes |-> IF i >= first THEN htSocket[i - first + 1]
                                                   ELSE IF i < n THEN htSocket[i + 1] ELSE 0]
    /\ UNCHANGED <<htSent, htComing, htLine, htLines, htOver, htText, htGot>>

\* One turn of _readline(): _read() copies a byte; the line ends with a newline, or when it is full.
TakeByte ==
    /\ ~htOver /\ htLevel > 0
    /\ LET c == htBuffer[IO_BUFFER - htLevel]
           line == Append(htLine, c)
           done == c = Newline \/ Len(line) = LineMax
       IN  /\ htLine' = IF done THEN <<>> ELSE line
           /\ htLines' = IF done THEN Append(htLines, line) ELSE htLines
    /\ htLevel' = htLevel - 1
    /\ UNCHANGED <<htSent, htComing, htSocket, htBuffer, htOver, htText, htGot>>

\* The timeout passes with nothing to read, or the client has closed and read() returns 0 or -1, which
\* becomes the level.
ReadFails(level) ==
    /\ ~htOver /\ htLevel = 0 /\ htSocket = <<>> /\ htOver' = TRUE
    /\ htLevel' = level
    /\ UNCHANGED <<htSent, htComing, htSocket, htBuffer, htLine, htLines, htText, htGot>>

-----------------------------------------------------------------------------
(* unescape() *)

\* The bytes of an escaped text: '%' is 10, the hexadecimal digits are themselves, 11 is another letter.
Percent == 10
HexTexts == SeqOf({Percent, 1, 4, 11}, TextMax)
hex_char_to_int(c) == IF c \in 0..9 THEN c ELSE -1

\* The loop from src on, over the array a that is written at dst: <<result, a, dst>>.
UnescapeFrom[src \in Nat, dst \in Nat, a \in Seq(Int)] ==
    IF src >= Len(htText[2]) THEN <<0, a, dst>>
    ELSE IF a[src + 1] # Percent THEN UnescapeFrom[src + 1, dst + 1, [a EXCEPT ![dst + 1] = a[src + 1]]]
    ELSE IF src + 2 > Len(htText[2]) THEN <<-1, a, dst>>
    ELSE LET Byte(i) == IF i < Len(htText[2]) THEN a[i + 1] ELSE -1
             high == hex_char_to_int(Byte(src + 1))
             b == [a EXCEPT ![dst + 1] = high * 16]
             low == hex_char_to_int(IF src + 2 < Len(htText[2]) THEN b[src + 3] ELSE -1)
         IN  IF high = -1 \/ low = -1 THEN <<-1, a, dst>>
             ELSE UnescapeFrom[src + 3, dst + 1, [b EXCEPT ![dst + 1] = @ + low]]

unescape(s) == LET end == UnescapeFrom[0, 0, s] IN IF end[1] = 0 THEN <<0, SubSeq(end[2], 1, end[3])>> ELSE <<-1>>

\* What an escaped text means.
Meaning[s \in Seq(Int)] ==
    IF s = <<>> THEN <<0, <<>> >>
    ELSE LET escape == Head(s) = Percent
             good == ~escape \/ (Len(s) >= 3 /\ s[2] \in 0..9 /\ s[3] \in 0..9)
             rest == IF ~good THEN <<-1>> ELSE Meaning[SubSeq(s, IF escape THEN 4 ELSE 2, Len(s))]
         IN  IF rest[1] = -1 THEN <<-1>>
             ELSE <<0, <<IF escape THEN 16 * s[2] + s[3] ELSE s[1]>> \o rest[2]>>

-----------------------------------------------------------------------------
(* decodeBase64() *)

\* The value of a character of the encoding; a character of no value is skipped ('=' is 0).
Skip == 64
Byte3 == {0, 77, 255}
ByteTexts == SeqOf(Byte3, TextMax)

\* The encoding of a text, six bits at a time, with the characters that decodeBase64() skips in between.
Groups(s) == LET padded == s \o <<0, 0>>
             IN  [g \in 1..((Len(s) + 2) \div 3) |->
                     65536 * padded[3 * g - 2] + 256 * padded[3 * g - 1] + padded[3 * g]]
Sextet(g, k) == (g \div (64 ^ (4 - k))) % 64
Encoded(s) ==
    FlattenSeq([g \in 1..Len(Groups(s)) |->
        <<Sextet(Groups(s)[g], 1), Sextet(Groups(s)[g], 2), Skip, Sextet(Groups(s)[g], 3), Sextet(Groups(s)[g], 4)>>])

\* Mutant: a group is written when a fourth character is still to come.
DecodeStepEarly(at, t) ==
    IF t = Skip THEN at
    ELSE LET ch == (at[1] % (2 ^ 18)) * 64 + t i == at[2] + 1
         IN  IF i = 3 THEN <<ch, 0, at[3] \o <<(ch \div 65536) % 256, (ch \div 256) % 256, ch % 256>> >>
             ELSE <<ch, i, at[3]>>
\* One character: ch << 6 | t, of which the low 24 bits are ever used, and three bytes for every fourth.
DecodeStep(at, t) ==
    IF t = Skip THEN at
    ELSE LET ch == (at[1] % (2 ^ 18)) * 64 + t i == at[2] + 1
         IN  IF i = 4 THEN <<ch, 0, at[3] \o <<(ch \div 65536) % 256, (ch \div 256) % 256, ch % 256>> >>
             ELSE <<ch, i, at[3]>>
decodeBase64(e) == FoldLeft(DecodeStep, <<0, 0, <<>> >>, e)[3]

Unescape(s) == htText = <<>> /\ htText' = <<"escaped", s>> /\ htGot' = <<>> /\ UNCHANGED readVars
Unescaped == htText # <<>> /\ htText[1] = "escaped" /\ htGot = <<>> /\ htGot' = unescape(htText[2]) /\ UNCHANGED <<readVars, htText>>
Decode(s) == htText = <<>> /\ htText' = <<"base64", s>> /\ htGot' = decodeBase64(Encoded(s)) /\ UNCHANGED readVars

\* The conversions need nothing of the stream: they are tried where it is empty.
TextNext ==
    \/ \E n \in 1..StreamMax : Arrive(n)
    \/ Fill \/ TakeByte
    \/ \E level \in {-1, 0} : ReadFails(level)
    \/ htSent = <<>> /\ (Unescaped \/ (\E s \in HexTexts : Unescape(s)) \/ \E s \in ByteTexts : Decode(s))

-----------------------------------------------------------------------------
(* Properties *)

TextTypeOK ==
    /\ htLevel \in -1..IO_BUFFER /\ htOver \in BOOLEAN /\ Len(htLine) < LineMax
    /\ Len(htSocket) + Len(htComing) <= Len(htSent)

\* However the bytes arrive, the lines of _readline(), the line it is in, its buffer and the socket
\* together are what the client sent: no byte is lost, doubled or moved.  A line ends at its newline.
NoByteLost ==
    /\ htLevel >= 0 =>
        FlattenSeq(htLines) \o htLine \o [k \in 1..htLevel |-> htBuffer[IO_BUFFER - htLevel + k - 1]] \o htSocket \o htComing
            = htSent
    /\ \A i \in 1..Len(htLines) : \A k \in 1..(Len(htLines[i]) - 1) : htLines[i][k] # Newline
    /\ htLevel = -1 => htOver

\* unescape(), which writes over the text it reads, makes of a text what it means; and
\* decodeBase64() gives the encoded bytes back, filled up to a group.
TextConverted ==
    htText # <<>> =>
        /\ htText[1] = "escaped" /\ htGot # <<>> => htGot = Meaning[htText[2]]
        /\ htText[1] = "base64" => SubSeq(htGot, 1, Len(htText[2])) = htText[2] /\ Len(htGot) < Len(htText[2]) + 3
=============================================================================
